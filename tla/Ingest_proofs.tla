--------------------------- MODULE Ingest_proofs ---------------------------
(* Proofs that Ingest keeps its invariants for every set of connections,   *)
(* devices and addresses, every queue capacity and every batch offered.    *)
EXTENDS Ingest, FiniteSetTheorems, SequenceTheorems, TLAPS

-----------------------------------------------------------------------------
(* The two ways the queue changes.                                         *)

QueueOK == queue \in Seq(Messages) /\ Len(queue) <= QueueCap

(* submit appends its message when there is room, and otherwise leaves the *)
(* queue alone and counts.                                                 *)
LEMMA SubmitEffect ==
  ASSUME QueueOK, NEW m \in Messages, SubmitControl(m)
  PROVE  /\ QueueOK'
         /\ \A i \in 1..Len(queue) : i \in 1..Len(queue') /\ queue'[i] = queue[i]
         /\ \A i \in 1..Len(queue') : i \in 1..Len(queue) \/ queue'[i] = m
         /\ blocked => blocked'
         /\ blocked' \/ (Len(queue') = Len(queue) + 1 /\ queue'[Len(queue')] = m)
         /\ blocked \in BOOLEAN => blocked' \in BOOLEAN
<1>1. CASE ~Full /\ queue' = Append(queue, m) /\ UNCHANGED blocked
  BY <1>1, AppendProperties, BoundAssumption DEF QueueOK, Full
<1>2. CASE Full /\ blocked' = TRUE /\ UNCHANGED queue
  BY <1>2 DEF QueueOK
<1>3. QED  BY <1>1, <1>2 DEF SubmitControl

(* Taking a message shifts the others.                                     *)
LEMMA TakeEffect ==
  ASSUME QueueOK, NEW kind, NEW c, Take(kind, c)
  PROVE  /\ QueueOK'
         /\ Len(queue') = Len(queue) - 1
         /\ \A i \in 1..Len(queue') : i + 1 \in 1..Len(queue) /\ queue'[i] = queue[i + 1]
         /\ \A i \in 1..Len(queue) : i = 1 \/ (i - 1 \in 1..Len(queue') /\ queue'[i - 1] = queue[i])
         /\ 1 \in 1..Len(queue)
         /\ Head(queue) = queue[1]
         /\ queue[1] \in Messages
         /\ queue[1].kind = kind
         /\ queue[1].sess = c
<1>1. queue # <<>> /\ queue' = Tail(queue) /\ Head(queue).kind = kind /\ Head(queue).sess = c
  BY DEF Take
<1>2. Len(queue) \in Nat /\ Len(queue) # 0 /\ Head(queue) = queue[1]
  BY <1>1 DEF QueueOK
<1>3. /\ Tail(queue) \in Seq(Messages)
      /\ Len(Tail(queue)) = Len(queue) - 1
      /\ \A i \in 1..Len(Tail(queue)) : Tail(queue)[i] = queue[i + 1]
      /\ Head(queue) \in Messages
  BY <1>1, HeadTailProperties DEF QueueOK
<1>4. QED  BY <1>1, <1>2, <1>3, BoundAssumption DEF QueueOK

(* The messages the code builds.                                           *)
LEMMA MessageType ==
  ASSUME NEW c \in Conn, NEW kind \in {"open", "location", "close"}
  PROVE  Message(kind, c, 0) \in Messages
  BY BoundAssumption DEF Message, Messages

-----------------------------------------------------------------------------

LEMMA TypeInit == Init => TypeOK
<1>1. <<>> \in Seq(1..MaxTime) /\ <<>> \in Seq(Messages) /\ Len(<<>>) = 0
  OBVIOUS
<1>2. SUFFICES ASSUME Init PROVE TypeOK
  OBVIOUS
<1>3. /\ phase \in [Conn -> Phases] /\ ended \in [Conn -> BOOLEAN]
      /\ lastSeq \in [Conn -> Nat \cup {-1}] /\ lastT \in [Conn -> 0..MaxTime]
      /\ fed \in [Conn -> Seq(1..MaxTime)]
  BY <1>1, <1>2, BoundAssumption DEF Init, Phases
<1>4. /\ sessions \in [Device -> Conn \cup {None}]
      /\ owner \in [Device -> Conn \cup {None}]
      /\ place \in [Device -> Conn \cup {None}]
  BY <1>2 DEF Init
<1>5. /\ unsaved \in [Device -> Nat] /\ batches \in [Device -> Nat]
      /\ saved \in [Device -> Nat] /\ ipConns \in [Net -> Nat]
  BY <1>2 DEF Init
<1>6. queue \in Seq(Messages) /\ Len(queue) <= QueueCap
  BY <1>1, <1>2, BoundAssumption DEF Init
<1>7. blocked \in BOOLEAN /\ server \in {"up", "closed", "cancelled", "stopped"}
  BY <1>2 DEF Init
<1>8. QED  BY <1>3, <1>4, <1>5, <1>6, <1>7 DEF TypeOK

(* Save keeps the two counters natural numbers.                            *)
LEMMA SaveType ==
  ASSUME TypeOK, NEW D \in SUBSET Device, NEW Kept, Save(D, Kept)
  PROVE  saved' \in [Device -> Nat] /\ unsaved' \in [Device -> Nat]
  BY DEF TypeOK, Save

(* The connections that hold a slot of an address.                         *)
Holders(n) == {c \in Conn : NetOf[c] = n /\ phase[c] \in Open}

LEMMA HoldersFinite ==
  ASSUME NEW n
  PROVE  IsFiniteSet(Holders(n)) /\ Cardinality(Holders(n)) \in Nat
  BY ConnAssumption, FS_Subset, FS_CardinalityType DEF Holders

(* A handler that still has to give its slot back finds one to give back.  *)
LEMMA SlotHeld ==
  ASSUME TypeOK, ConnectionCap, NEW c \in Conn, phase[c] \in Open
  PROVE  ipConns[NetOf[c]] # 0
<1>1. NetOf[c] \in Net
  BY ConnAssumption
<1>2. c \in Holders(NetOf[c])
  BY DEF Holders
<1>3. ipConns[NetOf[c]] = Cardinality(Holders(NetOf[c]))
  BY <1>1 DEF ConnectionCap, Holders
<1>4. Cardinality(Holders(NetOf[c])) # 0
  BY <1>2, HoldersFinite, FS_EmptySet
<1>5. QED  BY <1>3, <1>4

LEMMA TypeStep == TypeOK /\ ConnectionCap /\ [Next]_vars => TypeOK'
<1> SUFFICES ASSUME TypeOK, ConnectionCap, [Next]_vars PROVE TypeOK'
  OBVIOUS
<1> USE BoundAssumption, ConnAssumption DEF vars, dirVars, connVars, shardVars, Goes, Phases
<1>q. QueueOK
  BY DEF TypeOK, QueueOK
<1>1. ASSUME NEW c \in Conn, Accept(c) PROVE TypeOK'
  <2>1. phase' \in [Conn -> Phases]
    BY <1>1 DEF TypeOK, Accept
  <2>2. ipConns' \in [Net -> Nat]
    BY <1>1 DEF TypeOK, Accept
  <2>3. QED  BY <1>1, <2>1, <2>2 DEF TypeOK, Accept
<1>2. ASSUME NEW c \in Conn, HelloAccepted(c) PROVE TypeOK'
  BY <1>2 DEF TypeOK, HelloAccepted
<1>3. ASSUME NEW c \in Conn, HelloRefused(c) PROVE TypeOK'
  BY <1>3 DEF TypeOK, HelloRefused
<1>4. ASSUME NEW c \in Conn, Register(c) PROVE TypeOK'
  BY <1>4 DEF TypeOK, Register
<1>5. ASSUME NEW c \in Conn, SubmitOpen(c) PROVE TypeOK'
  <2>1. QueueOK' /\ blocked' \in BOOLEAN
    BY <1>5, <1>q, MessageType, SubmitEffect DEF SubmitOpen, TypeOK
  <2>2. QED  BY <1>5, <2>1 DEF TypeOK, SubmitOpen, QueueOK
<1>6. ASSUME NEW c \in Conn, NEW b \in Offers[c], ReplayedBatch(c, b[1], b[2]) PROVE TypeOK'
  BY <1>6 DEF TypeOK, ReplayedBatch
<1>7. ASSUME NEW c \in Conn, NEW b \in Offers[c], NewBatch(c, b[1], b[2]) PROVE TypeOK'
  <2>1. b[1] \in Nat /\ b[2] \in 1..MaxTime
    OBVIOUS
  <2>2. Message("batch", c, b[2]) \in Messages
    BY <2>1 DEF Message, Messages
  <2>3. QueueOK'
    BY <1>7, <1>q, <2>2, AppendProperties DEF NewBatch, QueueOK, Full
  <2>4. lastSeq' \in [Conn -> Nat \cup {-1}] /\ lastT' \in [Conn -> 0..MaxTime]
    BY <1>7, <2>1 DEF NewBatch, TypeOK
  <2>5. QED  BY <1>7, <2>3, <2>4 DEF TypeOK, NewBatch, QueueOK
<1>8. ASSUME NEW c \in Conn, Location(c) PROVE TypeOK'
  <2>1. QueueOK' /\ blocked' \in BOOLEAN
    BY <1>8, <1>q, MessageType, SubmitEffect DEF Location, TypeOK
  <2>2. QED  BY <1>8, <2>1 DEF TypeOK, Location, QueueOK
<1>9. ASSUME NEW c \in Conn, StopReading(c) PROVE TypeOK'
  BY <1>9 DEF TypeOK, StopReading
<1>10. ASSUME NEW c \in Conn, Unlist(c) PROVE TypeOK'
  BY <1>10 DEF TypeOK, Unlist
<1>11. ASSUME NEW c \in Conn, SubmitClose(c) PROVE TypeOK'
  <2>1. QueueOK' /\ blocked' \in BOOLEAN
    BY <1>11, <1>q, MessageType, SubmitEffect DEF SubmitClose, TypeOK
  <2>2. QED  BY <1>11, <2>1 DEF TypeOK, SubmitClose, QueueOK
<1>12. ASSUME NEW c \in Conn, Return(c) PROVE TypeOK'
  <2>1. phase[c] \in Open
    BY <1>12 DEF Return, Open
  <2>2. ipConns[NetOf[c]] \in Nat \ {0}
    BY <2>1, SlotHeld DEF TypeOK
  <2>3. ipConns' \in [Net -> Nat]
    BY <1>12, <2>2 DEF Return, TypeOK
  <2>4. QED  BY <1>12, <2>3 DEF TypeOK, Return
<1>13. ASSUME NEW c \in Conn, WriterFails(c) PROVE TypeOK'
  BY <1>13 DEF TypeOK, WriterFails
<1>14. ASSUME NEW c \in Conn, HandleOpen(c) PROVE TypeOK'
  <2>1. QueueOK'
    BY <1>14, <1>q, TakeEffect DEF HandleOpen
  <2>2. QED  BY <1>14, <2>1 DEF TypeOK, HandleOpen, Take, QueueOK
<1>15. ASSUME NEW c \in Conn, HandleClose(c) PROVE TypeOK'
  <2>1. QueueOK'
    BY <1>15, <1>q, TakeEffect DEF HandleClose
  <2>2. saved' \in [Device -> Nat] /\ unsaved' \in [Device -> Nat]
    <3>1. CASE \E Kept \in SUBSET {DeviceOf[c]} : Save({DeviceOf[c]}, Kept)
      <4>1. {DeviceOf[c]} \in SUBSET Device
        OBVIOUS
      <4>2. QED  BY <3>1, <4>1, SaveType
    <3>2. CASE UNCHANGED <<unsaved, saved>>
      BY <3>2 DEF TypeOK
    <3>3. (\E Kept \in SUBSET {DeviceOf[c]} : Save({DeviceOf[c]}, Kept)) \/ UNCHANGED <<unsaved, saved>>
      BY <1>15 DEF HandleClose
    <3>4. QED  BY <3>1, <3>2, <3>3
  <2>3. QED  BY <1>15, <2>1, <2>2 DEF TypeOK, HandleClose, Take, QueueOK
<1>16. ASSUME NEW c \in Conn, HandleBatch(c) PROVE TypeOK'
  <2>1. QueueOK'
    BY <1>16, <1>q, TakeEffect DEF HandleBatch
  <2>2. Head(queue).t \in 1..MaxTime
    BY <1>16, <1>q, TakeEffect DEF HandleBatch, Messages
  <2>3. fed' \in [Conn -> Seq(1..MaxTime)]
    <3>1. fed[c] \in Seq(1..MaxTime)
      BY DEF TypeOK
    <3>2. Append(fed[c], Head(queue).t) \in Seq(1..MaxTime)
      BY <2>2, <3>1, AppendProperties
    <3>3. QED  BY <1>16, <3>2 DEF HandleBatch, TypeOK
  <2>4. DeviceOf[c] \in Device
    OBVIOUS
  <2>5. unsaved' \in [Device -> Nat] /\ batches' \in [Device -> Nat]
    <3>1. /\ unsaved \in [Device -> Nat] /\ batches \in [Device -> Nat]
          /\ unsaved[DeviceOf[c]] + 1 \in Nat /\ batches[DeviceOf[c]] + 1 \in Nat
      BY <2>4 DEF TypeOK
    <3>2. \/ /\ unsaved' = [unsaved EXCEPT ![DeviceOf[c]] = unsaved[DeviceOf[c]] + 1]
             /\ batches' = [batches EXCEPT ![DeviceOf[c]] = batches[DeviceOf[c]] + 1]
          \/ UNCHANGED <<unsaved, batches>>
      BY <1>16 DEF HandleBatch
    <3>3. QED  BY <3>1, <3>2
  <2>6. QED  BY <1>16, <2>1, <2>3, <2>5 DEF TypeOK, HandleBatch, Take, QueueOK
<1>17. ASSUME NEW c \in Conn, HandleLocation(c) PROVE TypeOK'
  <2>1. QueueOK'
    BY <1>17, <1>q, TakeEffect DEF HandleLocation
  <2>2. QED  BY <1>17, <2>1 DEF TypeOK, HandleLocation, Take, QueueOK
<1>18. CASE Flush
  BY <1>18, SaveType DEF TypeOK, Flush, Present
<1>19. CASE ShardExit
  BY <1>19, SaveType DEF TypeOK, ShardExit, Present
<1>20. ASSUME NEW d \in Device, CloseCurrent(d) PROVE TypeOK'
  BY <1>20 DEF TypeOK, CloseCurrent
<1>21. CASE CloseAll
  BY <1>21 DEF TypeOK, CloseAll
<1>22. CASE Cancel
  BY <1>22 DEF TypeOK, Cancel
<1>23. CASE UNCHANGED vars
  BY <1>23 DEF TypeOK
<1>24. QED
  BY <1>1, <1>2, <1>3, <1>4, <1>5, <1>6, <1>7, <1>8, <1>9, <1>10, <1>11, <1>12,
     <1>13, <1>14, <1>15, <1>16, <1>17, <1>18, <1>19, <1>20, <1>21, <1>22, <1>23
     DEF Next, Handler, Shard

-----------------------------------------------------------------------------
(* The slots of an address.                                                *)

LEMMA CapInit == Init => ConnectionCap
<1> SUFFICES ASSUME Init, NEW n \in Net
             PROVE  ipConns[n] = Cardinality(Holders(n)) /\ ipConns[n] <= MaxConnsPerIP
  BY DEF ConnectionCap, Holders
<1>1. Holders(n) = {}
  BY DEF Init, Holders, Open
<1>2. QED  BY <1>1, FS_EmptySet, BoundAssumption DEF Init

(* Only Accept and Return move a connection in or out of the holders.      *)
LEMMA CapKept ==
  ASSUME TypeOK, ConnectionCap, UNCHANGED ipConns,
         \A c \in Conn : phase'[c] \in Open <=> phase[c] \in Open
  PROVE  ConnectionCap'
  BY DEF ConnectionCap

LEMMA CapStep == TypeOK /\ ConnectionCap /\ [Next]_vars => ConnectionCap'
<1> SUFFICES ASSUME TypeOK, ConnectionCap, [Next]_vars PROVE ConnectionCap'
  OBVIOUS
<1>1. ASSUME NEW c \in Conn, Accept(c) PROVE ConnectionCap'
  <2> SUFFICES ASSUME NEW n \in Net
               PROVE  ipConns'[n] = Cardinality(Holders(n)') /\ ipConns'[n] <= MaxConnsPerIP
    BY DEF ConnectionCap, Holders
  <2>1. ipConns[n] = Cardinality(Holders(n)) /\ ipConns[n] <= MaxConnsPerIP /\ ipConns[n] \in Nat
    BY DEF ConnectionCap, Holders, TypeOK
  <2>2. CASE n # NetOf[c]
    <3>1. Holders(n)' = Holders(n)
      BY <1>1, <2>2 DEF Accept, Goes, Holders, TypeOK
    <3>2. ipConns'[n] = ipConns[n]
      BY <1>1, <2>2 DEF Accept, TypeOK
    <3>3. QED  BY <2>1, <3>1, <3>2
  <2>3. CASE n = NetOf[c]
    <3>1. Holders(n)' = Holders(n) \cup {c} /\ c \notin Holders(n)
      BY <1>1, <2>3 DEF Accept, Goes, Holders, TypeOK, Open, Phases
    <3>2. Cardinality(Holders(n) \cup {c}) = Cardinality(Holders(n)) + 1
      BY <3>1, HoldersFinite, FS_AddElement
    <3>3. ipConns'[n] = ipConns[n] + 1 /\ ipConns[n] < MaxConnsPerIP
      BY <1>1, <2>3 DEF Accept, TypeOK
    <3>4. QED  BY <2>1, <3>1, <3>2, <3>3, BoundAssumption
  <2>4. QED  BY <2>2, <2>3
<1>2. ASSUME NEW c \in Conn, Return(c) PROVE ConnectionCap'
  <2> SUFFICES ASSUME NEW n \in Net
               PROVE  ipConns'[n] = Cardinality(Holders(n)') /\ ipConns'[n] <= MaxConnsPerIP
    BY DEF ConnectionCap, Holders
  <2>1. ipConns[n] = Cardinality(Holders(n)) /\ ipConns[n] <= MaxConnsPerIP /\ ipConns[n] \in Nat
    BY DEF ConnectionCap, Holders, TypeOK
  <2>2. CASE n # NetOf[c]
    <3>1. Holders(n)' = Holders(n)
      BY <1>2, <2>2 DEF Return, Goes, Holders, TypeOK
    <3>2. ipConns'[n] = ipConns[n]
      BY <1>2, <2>2 DEF Return, TypeOK
    <3>3. QED  BY <2>1, <3>1, <3>2
  <2>3. CASE n = NetOf[c]
    <3>1. Holders(n)' = Holders(n) \ {c} /\ c \in Holders(n)
      BY <1>2, <2>3 DEF Return, Goes, Holders, TypeOK, Open, Phases
    <3>2. Cardinality(Holders(n) \ {c}) = Cardinality(Holders(n)) - 1
      BY <3>1, HoldersFinite, FS_RemoveElement
    <3>3. ipConns'[n] = ipConns[n] - 1
      BY <1>2, <2>3 DEF Return, TypeOK
    <3>4. QED  BY <2>1, <3>1, <3>2, <3>3, BoundAssumption
  <2>4. QED  BY <2>2, <2>3
<1>3. CASE /\ ~ \E c \in Conn : Accept(c) \/ Return(c)
           /\ [Next]_vars
  <2>1. CASE \E d \in Conn : Handler(d)
    <3> PICK d \in Conn : Handler(d)
      BY <2>1
    <3>1. CASE HelloAccepted(d) \/ HelloRefused(d) \/ Register(d) \/ SubmitOpen(d)
      <4>1. UNCHANGED ipConns
        BY <3>1 DEF HelloAccepted, HelloRefused, Register, SubmitOpen, dirVars
      <4>2. \A c \in Conn : phase'[c] \in Open <=> phase[c] \in Open
        BY <3>1 DEF HelloAccepted, HelloRefused, Register, SubmitOpen, Goes, Open, Phases, TypeOK
      <4>3. QED  BY <4>1, <4>2, CapKept
    <3>2. CASE StopReading(d) \/ Unlist(d) \/ SubmitClose(d)
      <4>1. UNCHANGED ipConns
        BY <3>2 DEF StopReading, Unlist, SubmitClose, dirVars
      <4>2. \A c \in Conn : phase'[c] \in Open <=> phase[c] \in Open
        BY <3>2 DEF StopReading, Unlist, SubmitClose, Goes, Open, Phases, TypeOK
      <4>3. QED  BY <4>1, <4>2, CapKept
    <3>3. CASE \/ \E b \in Offers[d] : ReplayedBatch(d, b[1], b[2]) \/ NewBatch(d, b[1], b[2])
               \/ Location(d)
               \/ WriterFails(d)
      <4>1. UNCHANGED <<ipConns, phase>>
        BY <3>3 DEF ReplayedBatch, NewBatch, Location, WriterFails, dirVars, connVars
      <4>2. QED  BY <4>1, CapKept
    <3>4. QED  BY <1>3, <3>1, <3>2, <3>3 DEF Handler
  <2>2. CASE Shard \/ (\E d \in Device : CloseCurrent(d)) \/ CloseAll \/ Cancel \/ UNCHANGED vars
    <3>1. UNCHANGED <<ipConns, phase>>
      BY <2>2 DEF vars, dirVars, connVars, Shard, Take, HandleOpen, HandleClose, HandleBatch,
         HandleLocation, Flush, ShardExit, CloseCurrent, CloseAll, Cancel
    <3>2. QED  BY <3>1, CapKept
  <2>3. QED  BY <1>3, <2>1, <2>2 DEF Next
<1>4. QED  BY <1>1, <1>2, <1>3

-----------------------------------------------------------------------------
(* One live session.  Register closes what it replaces, so a connection    *)
(* that still serves its phone is the listed one or has been closed.       *)

ListedOrEnded == \A c \in Conn : phase[c] \in Working => sessions[DeviceOf[c]] = c \/ ended[c]

LEMMA ListedInit == Init => ListedOrEnded
  BY DEF Init, ListedOrEnded, Working

LEMMA ListedStep == TypeOK /\ ListedOrEnded /\ [Next]_vars => ListedOrEnded'
<1> SUFFICES ASSUME TypeOK, ListedOrEnded, [Next]_vars,
                    NEW x \in Conn, phase'[x] \in Working
             PROVE  sessions'[DeviceOf[x]] = x \/ ended'[x]
  BY DEF ListedOrEnded
<1> USE ConnAssumption DEF Goes, Working
<1>1. ASSUME NEW c \in Conn, Register(c) PROVE sessions'[DeviceOf[x]] = x \/ ended'[x]
  <2>1. CASE x = c
    BY <1>1, <2>1 DEF Register, TypeOK
  <2>2. CASE x # c
    <3>1. phase[x] \in Working
      BY <1>1, <2>2 DEF Register, TypeOK
    <3>2. sessions[DeviceOf[x]] = x \/ ended[x]
      BY <3>1 DEF ListedOrEnded
    <3>3. ended'[x] = (ended[x] \/ x = sessions[DeviceOf[c]])
      BY <1>1 DEF Register
    <3>4. DeviceOf[x] # DeviceOf[c] => sessions'[DeviceOf[x]] = sessions[DeviceOf[x]]
      BY <1>1 DEF Register, TypeOK
    <3>5. QED  BY <3>2, <3>3, <3>4
  <2>3. QED  BY <2>1, <2>2
<1>2. ASSUME NEW c \in Conn, Unlist(c) PROVE sessions'[DeviceOf[x]] = x \/ ended'[x]
  <2>1. phase[x] \in Working /\ x # c
    BY <1>2 DEF Unlist, TypeOK
  <2>2. sessions[DeviceOf[x]] = x \/ ended[x]
    BY <2>1 DEF ListedOrEnded
  <2>3. sessions[DeviceOf[x]] = x => sessions'[DeviceOf[x]] = x
    BY <1>2, <2>1 DEF Unlist, TypeOK
  <2>4. QED  BY <1>2, <2>2, <2>3 DEF Unlist
<1>3. ASSUME UNCHANGED sessions, ended[x] => ended'[x], phase[x] \in Working
      PROVE  sessions'[DeviceOf[x]] = x \/ ended'[x]
  BY <1>3 DEF ListedOrEnded
<1>4. CASE \E c \in Conn : Handler(c) /\ ~ Register(c) /\ ~ Unlist(c)
  <2> PICK c \in Conn : Handler(c) /\ ~ Register(c) /\ ~ Unlist(c)
    BY <1>4
  <2>1. CASE Accept(c) \/ HelloAccepted(c) \/ HelloRefused(c)
    <3>1. UNCHANGED <<sessions, ended>>
      BY <2>1 DEF Accept, HelloAccepted, HelloRefused, dirVars
    <3>2. phase[x] \in Working
      BY <2>1 DEF Accept, HelloAccepted, HelloRefused, TypeOK
    <3>3. QED  BY <1>3, <3>1, <3>2
  <2>2. CASE SubmitOpen(c) \/ StopReading(c)
    <3>1. UNCHANGED <<sessions, ended>>
      BY <2>2 DEF SubmitOpen, StopReading, dirVars
    <3>2. phase[x] \in Working
      BY <2>2 DEF SubmitOpen, StopReading, TypeOK
    <3>3. QED  BY <1>3, <3>1, <3>2
  <2>3. CASE SubmitClose(c) \/ Return(c)
    <3>1. UNCHANGED sessions /\ (ended[x] => ended'[x])
      BY <2>3 DEF SubmitClose, Return, dirVars, TypeOK
    <3>2. phase[x] \in Working
      BY <2>3 DEF SubmitClose, Return, TypeOK
    <3>3. QED  BY <1>3, <3>1, <3>2
  <2>4. CASE \/ \E b \in Offers[c] : ReplayedBatch(c, b[1], b[2]) \/ NewBatch(c, b[1], b[2])
             \/ Location(c)
    <3>1. UNCHANGED <<sessions, ended, phase>>
      BY <2>4 DEF ReplayedBatch, NewBatch, Location, dirVars, connVars
    <3>2. QED  BY <1>3, <3>1
  <2>5. CASE WriterFails(c)
    <3>1. UNCHANGED <<sessions, phase>> /\ ended' = [ended EXCEPT ![c] = TRUE]
      BY <2>5 DEF WriterFails, dirVars
    <3>2. ended[x] => ended'[x]
      BY <3>1 DEF TypeOK
    <3>3. QED  BY <1>3, <3>1, <3>2
  <2>6. QED  BY <2>1, <2>2, <2>3, <2>4, <2>5 DEF Handler
<1>5. CASE Shard \/ Cancel \/ UNCHANGED vars
  <2>1. UNCHANGED <<sessions, ended, phase>>
    BY <1>5 DEF vars, dirVars, connVars, Shard, Take, HandleOpen, HandleClose, HandleBatch,
       HandleLocation, Flush, ShardExit, Cancel
  <2>2. QED  BY <1>3, <2>1
<1>6. CASE (\E d \in Device : CloseCurrent(d)) \/ CloseAll
  <2>1. UNCHANGED <<sessions, phase>> /\ (ended[x] => ended'[x])
    BY <1>6 DEF CloseCurrent, CloseAll, dirVars, TypeOK
  <2>2. QED  BY <1>3, <2>1
<1>7. QED  BY <1>1, <1>2, <1>4, <1>5, <1>6 DEF Next

LEMMA ListedIsOne == ListedOrEnded => OneLiveSession
  BY DEF ListedOrEnded, OneLiveSession

-----------------------------------------------------------------------------
(* Credit.                                                                 *)

LEMMA SaveCredit ==
  ASSUME TypeOK, NeverOvercounted, NEW D \in SUBSET Device, NEW Kept, Save(D, Kept)
  PROVE  \A d \in Device : saved'[d] + unsaved'[d] <= batches[d]
  BY DEF TypeOK, Save, NeverOvercounted

LEMMA CreditStep == TypeOK /\ NeverOvercounted /\ [Next]_vars => NeverOvercounted'
<1> SUFFICES ASSUME TypeOK, NeverOvercounted, [Next]_vars PROVE NeverOvercounted'
  OBVIOUS
<1> USE ConnAssumption
<1>1. ASSUME NEW c \in Conn, HandleOpen(c) PROVE NeverOvercounted'
  <2>1. UNCHANGED <<saved, batches>> /\ unsaved' = [unsaved EXCEPT ![DeviceOf[c]] = 0]
    BY <1>1 DEF HandleOpen
  <2>2. ASSUME NEW d \in Device
        PROVE  saved[d] + unsaved'[d] <= saved[d] + unsaved[d] /\ saved[d] + unsaved[d] <= batches[d]
    <3>1. saved[d] \in Nat /\ unsaved[d] \in Nat /\ unsaved \in [Device -> Nat]
      BY DEF TypeOK
    <3>2. unsaved'[d] = unsaved[d] \/ unsaved'[d] = 0
      BY <2>1, <3>1
    <3>3. QED  BY <3>1, <3>2 DEF NeverOvercounted
  <2>3. \A d \in Device : saved[d] + unsaved'[d] \in Int /\ saved[d] + unsaved[d] \in Int /\ batches[d] \in Int
    BY <2>1, ConnAssumption DEF TypeOK
  <2>4. \A d \in Device : saved[d] + unsaved'[d] <= batches[d]
    BY <2>2, <2>3
  <2>5. QED  BY <2>1, <2>4 DEF NeverOvercounted
<1>2. ASSUME NEW c \in Conn, HandleClose(c) PROVE NeverOvercounted'
  <2>1. UNCHANGED batches
    BY <1>2 DEF HandleClose
  <2>2. (\E Kept \in SUBSET {DeviceOf[c]} : Save({DeviceOf[c]}, Kept)) \/ UNCHANGED <<unsaved, saved>>
    BY <1>2 DEF HandleClose
  <2>3. CASE \E Kept \in SUBSET {DeviceOf[c]} : Save({DeviceOf[c]}, Kept)
    <3>1. {DeviceOf[c]} \in SUBSET Device
      OBVIOUS
    <3>2. QED  BY <2>1, <2>3, <3>1, SaveCredit DEF NeverOvercounted
  <2>4. CASE UNCHANGED <<unsaved, saved>>
    BY <2>1, <2>4 DEF NeverOvercounted
  <2>5. QED  BY <2>2, <2>3, <2>4
<1>3. ASSUME NEW c \in Conn, HandleBatch(c) PROVE NeverOvercounted'
  <2>1. \/ /\ unsaved' = [unsaved EXCEPT ![DeviceOf[c]] = unsaved[DeviceOf[c]] + 1]
           /\ batches' = [batches EXCEPT ![DeviceOf[c]] = batches[DeviceOf[c]] + 1]
        \/ UNCHANGED <<unsaved, batches>>
    BY <1>3 DEF HandleBatch
  <2>2. UNCHANGED saved
    BY <1>3 DEF HandleBatch
  <2>3. ASSUME NEW d \in Device PROVE saved[d] + unsaved'[d] <= batches'[d]
    <3>1. /\ saved[d] \in Nat /\ unsaved[d] \in Nat /\ batches[d] \in Nat
          /\ unsaved \in [Device -> Nat] /\ batches \in [Device -> Nat]
          /\ saved[d] + unsaved[d] <= batches[d]
      BY DEF TypeOK, NeverOvercounted
    <3>2. \/ unsaved'[d] = unsaved[d] /\ batches'[d] = batches[d]
          \/ unsaved'[d] = unsaved[d] + 1 /\ batches'[d] = batches[d] + 1
      BY <2>1, <3>1
    <3>3. QED  BY <3>1, <3>2
  <2>4. QED  BY <2>2, <2>3 DEF NeverOvercounted
<1>4. CASE Flush \/ ShardExit
  BY <1>4, SaveCredit DEF Flush, ShardExit, Present, NeverOvercounted
<1>5. CASE ~ (\/ Flush \/ ShardExit
              \/ \E c \in Conn : HandleOpen(c) \/ HandleClose(c) \/ HandleBatch(c))
  <2>1. UNCHANGED <<saved, unsaved, batches>>
    BY <1>5 DEF vars, shardVars, Next, Handler, Shard, Accept, HelloAccepted, HelloRefused, Register,
       SubmitOpen, ReplayedBatch, NewBatch, Location, StopReading, Unlist, SubmitClose, Return,
       WriterFails, HandleLocation, CloseCurrent, CloseAll, Cancel
  <2>2. QED  BY <2>1 DEF NeverOvercounted
<1>6. QED  BY <1>1, <1>2, <1>3, <1>4, <1>5

-----------------------------------------------------------------------------
(* Order.  What was fed, what is queued and the handler's lastT are        *)
(* increasing, in that order: the channel is first in, first out.          *)

BatchOf(q, i, c) == q[i].kind = "batch" /\ q[i].sess = c

QueueSorted ==
  \A c \in Conn : \A i, j \in 1..Len(queue) :
    i < j /\ BatchOf(queue, i, c) /\ BatchOf(queue, j, c) => queue[i].t < queue[j].t

QueueBelowLast ==
  \A c \in Conn : \A i \in 1..Len(queue) : BatchOf(queue, i, c) => queue[i].t <= lastT[c]

FedBelow ==
  \A c \in Conn : \A k \in 1..Len(fed[c]) :
    /\ fed[c][k] <= lastT[c]
    /\ \A i \in 1..Len(queue) : BatchOf(queue, i, c) => fed[c][k] < queue[i].t

OrderInv == QueueSorted /\ QueueBelowLast /\ FedBelow /\ FedInOrder

(* A step that appends no batch, feeds nothing and keeps lastT.            *)
LEMMA OrderControl ==
  ASSUME TypeOK, OrderInv, NEW m \in Messages, m.kind # "batch", SubmitControl(m),
         UNCHANGED <<lastT, fed>>
  PROVE  OrderInv'
<1>1. /\ \A i \in 1..Len(queue) : i \in 1..Len(queue') /\ queue'[i] = queue[i]
      /\ \A i \in 1..Len(queue') : i \in 1..Len(queue) \/ queue'[i] = m
  BY SubmitEffect DEF TypeOK, QueueOK
<1>2. \A c \in Conn : \A i \in 1..Len(queue') :
        BatchOf(queue', i, c) => i \in 1..Len(queue) /\ queue'[i] = queue[i] /\ BatchOf(queue, i, c)
  BY <1>1 DEF BatchOf
<1>3. QueueSorted'
  BY <1>2 DEF OrderInv, QueueSorted
<1>4. QueueBelowLast'
  BY <1>2 DEF OrderInv, QueueBelowLast
<1>5. FedBelow' /\ FedInOrder'
  BY <1>2 DEF OrderInv, FedBelow, FedInOrder
<1>6. QED  BY <1>3, <1>4, <1>5 DEF OrderInv

(* A step that takes a message and feeds nothing.                          *)
LEMMA OrderTake ==
  ASSUME TypeOK, OrderInv, NEW kind, NEW c, Take(kind, c), UNCHANGED fed
  PROVE  OrderInv'
<1>1. UNCHANGED lastT
  BY DEF Take, connVars
<1>2. /\ Len(queue') = Len(queue) - 1 /\ Len(queue) \in Nat
      /\ \A i \in 1..Len(queue') : i + 1 \in 1..Len(queue) /\ queue'[i] = queue[i + 1]
  BY TakeEffect DEF TypeOK, QueueOK
<1>3. QueueSorted'
  <2> SUFFICES ASSUME NEW x \in Conn, NEW i \in 1..Len(queue'), NEW j \in 1..Len(queue'), i < j,
                      BatchOf(queue', i, x), BatchOf(queue', j, x)
               PROVE  queue'[i].t < queue'[j].t
    BY DEF QueueSorted
  <2>1. BatchOf(queue, i + 1, x) /\ BatchOf(queue, j + 1, x) /\ i + 1 < j + 1
    BY <1>2 DEF BatchOf
  <2>2. QED  BY <1>2, <2>1 DEF OrderInv, QueueSorted
<1>4. QueueBelowLast'
  BY <1>1, <1>2 DEF OrderInv, QueueBelowLast, BatchOf
<1>5. FedBelow' /\ FedInOrder'
  BY <1>1, <1>2 DEF OrderInv, FedBelow, FedInOrder, BatchOf
<1>6. QED  BY <1>3, <1>4, <1>5 DEF OrderInv

LEMMA OrderInit == Init => OrderInv
  BY DEF Init, OrderInv, QueueSorted, QueueBelowLast, FedBelow, FedInOrder

LEMMA OrderNewBatch ==
  ASSUME TypeOK, OrderInv, NEW c \in Conn, NEW s \in Nat, NEW t \in 1..MaxTime, NewBatch(c, s, t)
  PROVE  OrderInv'
<1> DEFINE m == Message("batch", c, t)
<1>1. lastT[c] < t /\ lastT' = [lastT EXCEPT ![c] = t] /\ UNCHANGED fed
  BY DEF NewBatch, shardVars, TypeOK
<1>2. \A x \in Conn : lastT[x] <= lastT'[x]
  BY <1>1, BoundAssumption DEF TypeOK
<1>3. queue \in Seq(Messages) /\ Len(queue) \in Nat /\ (queue' = queue \/ queue' = Append(queue, m))
  BY DEF NewBatch, TypeOK
<1>4. CASE queue' = queue
  <2>1. QueueBelowLast'
    <3> SUFFICES ASSUME NEW x \in Conn, NEW i \in 1..Len(queue), BatchOf(queue, i, x)
                 PROVE  queue[i].t <= lastT'[x]
      BY <1>4 DEF QueueBelowLast
    <3>1. queue[i].t <= lastT[x] /\ queue[i].t \in Int /\ lastT[x] \in Int /\ lastT'[x] \in Int
      <4>1. queue[i] \in Messages
        BY <1>3
      <4>2. queue[i].t \in Int
        BY <4>1, BoundAssumption DEF Messages
      <4>3. QED  BY <1>1, <4>2, BoundAssumption DEF OrderInv, QueueBelowLast, TypeOK
    <3>2. QED  BY <1>2, <3>1
  <2>2. FedBelow'
    <3> SUFFICES ASSUME NEW x \in Conn, NEW k \in 1..Len(fed[x])
                 PROVE  fed[x][k] <= lastT'[x]
      BY <1>1, <1>4 DEF OrderInv, FedBelow
    <3>1. fed[x][k] \in Int /\ lastT[x] \in Int /\ lastT'[x] \in Int /\ fed[x][k] <= lastT[x]
      BY <1>1, BoundAssumption DEF OrderInv, FedBelow, TypeOK
    <3>2. QED  BY <1>2, <3>1
  <2>3. QED  BY <1>1, <1>4, <2>1, <2>2 DEF OrderInv, QueueSorted, FedInOrder
<1>5. CASE queue' = Append(queue, m)
  <2>1. /\ Len(queue') = Len(queue) + 1
        /\ \A i \in 1..Len(queue) : queue'[i] = queue[i]
        /\ queue'[Len(queue) + 1] = m
        /\ m.kind = "batch" /\ m.sess = c /\ m.t = t
    BY <1>3, <1>5 DEF Message
  <2>2. ASSUME NEW x \in Conn, NEW i \in 1..Len(queue'), BatchOf(queue', i, x)
        PROVE  \/ i \in 1..Len(queue) /\ BatchOf(queue, i, x) /\ queue'[i] = queue[i]
               \/ i = Len(queue) + 1 /\ x = c /\ queue'[i].t = t
    BY <1>3, <2>1, <2>2 DEF BatchOf
  <2>3. \A x \in Conn : \A i \in 1..Len(queue) :
          BatchOf(queue, i, x) => queue[i].t \in Int /\ queue[i].t <= lastT[x]
    <3> SUFFICES ASSUME NEW x \in Conn, NEW i \in 1..Len(queue), BatchOf(queue, i, x)
                 PROVE  queue[i].t \in Int
      BY DEF OrderInv, QueueBelowLast
    <3>1. queue[i] \in Messages
      BY <1>3
    <3>2. QED  BY <3>1, BoundAssumption DEF Messages
  <2>4. \A x \in Conn : lastT[x] \in Int /\ lastT'[x] \in Int /\ (x = c => lastT'[x] = t)
    BY <1>1, BoundAssumption DEF TypeOK
  <2>5. QueueSorted'
    <3> SUFFICES ASSUME NEW x \in Conn, NEW i \in 1..Len(queue'), NEW j \in 1..Len(queue'), i < j,
                        BatchOf(queue', i, x), BatchOf(queue', j, x)
                 PROVE  queue'[i].t < queue'[j].t
      BY DEF QueueSorted
    <3>1. i \in 1..Len(queue) /\ BatchOf(queue, i, x) /\ queue'[i] = queue[i]
      BY <1>3, <2>1, <2>2
    <3>2. CASE j \in 1..Len(queue) /\ BatchOf(queue, j, x) /\ queue'[j] = queue[j]
      BY <3>1, <3>2 DEF OrderInv, QueueSorted
    <3>3. CASE x = c /\ queue'[j].t = t
      BY <1>1, <2>3, <2>4, <3>1, <3>3
    <3>4. QED  BY <2>2, <3>2, <3>3
  <2>6. QueueBelowLast'
    <3> SUFFICES ASSUME NEW x \in Conn, NEW i \in 1..Len(queue'), BatchOf(queue', i, x)
                 PROVE  queue'[i].t <= lastT'[x]
      BY DEF QueueBelowLast
    <3>1. QED  BY <1>2, <2>2, <2>3, <2>4
  <2>7. FedBelow'
    <3> SUFFICES ASSUME NEW x \in Conn, NEW k \in 1..Len(fed[x])
                 PROVE  /\ fed[x][k] <= lastT'[x]
                        /\ \A i \in 1..Len(queue') : BatchOf(queue', i, x) => fed[x][k] < queue'[i].t
      BY <1>1 DEF FedBelow
    <3>1. fed[x][k] \in Int /\ fed[x][k] <= lastT[x]
      BY BoundAssumption DEF OrderInv, FedBelow, TypeOK
    <3>2. fed[x][k] <= lastT'[x]
      BY <1>2, <2>4, <3>1
    <3>3. ASSUME NEW i \in 1..Len(queue'), BatchOf(queue', i, x) PROVE fed[x][k] < queue'[i].t
      <4>1. CASE i \in 1..Len(queue) /\ BatchOf(queue, i, x) /\ queue'[i] = queue[i]
        BY <4>1 DEF OrderInv, FedBelow
      <4>2. CASE x = c /\ queue'[i].t = t
        BY <1>1, <2>4, <3>1, <4>2
      <4>3. QED  BY <2>2, <3>3, <4>1, <4>2
    <3>4. QED  BY <3>2, <3>3
  <2>8. QED  BY <1>1, <2>5, <2>6, <2>7 DEF OrderInv, FedInOrder
<1>6. QED  BY <1>3, <1>4, <1>5

LEMMA OrderHandleBatch ==
  ASSUME TypeOK, OrderInv, NEW c \in Conn, HandleBatch(c)
  PROVE  OrderInv'
<1> DEFINE t == queue[1].t
<1>1. UNCHANGED lastT
  BY DEF HandleBatch, Take, connVars
<1>2. /\ Len(queue') = Len(queue) - 1 /\ Len(queue) \in Nat
      /\ \A i \in 1..Len(queue') : i + 1 \in 1..Len(queue) /\ queue'[i] = queue[i + 1]
      /\ 1 \in 1..Len(queue) /\ Head(queue) = queue[1] /\ queue[1] \in Messages
      /\ BatchOf(queue, 1, c)
  BY TakeEffect DEF TypeOK, QueueOK, HandleBatch, BatchOf
<1>3. CASE UNCHANGED fed
  BY <1>3, OrderTake DEF HandleBatch
<1>4. CASE fed' = [fed EXCEPT ![c] = Append(fed[c], t)]
  <2>1. t \in 1..MaxTime /\ t <= lastT[c]
    BY <1>2 DEF Messages, BatchOf, OrderInv, QueueBelowLast
  <2>2. \A i \in 2..Len(queue) : BatchOf(queue, i, c) => t < queue[i].t
    BY <1>2 DEF OrderInv, QueueSorted
  <2>3. \A k \in 1..Len(fed[c]) : fed[c][k] < t
    BY <1>2 DEF OrderInv, FedBelow
  <2>4. /\ fed[c] \in Seq(1..MaxTime) /\ Len(fed[c]) \in Nat
        /\ fed'[c] = Append(fed[c], t)
        /\ \A x \in Conn : x # c => fed'[x] = fed[x]
    BY <1>4 DEF TypeOK
  <2>5. /\ Len(fed'[c]) = Len(fed[c]) + 1
        /\ \A k \in 1..Len(fed[c]) : fed'[c][k] = fed[c][k]
        /\ fed'[c][Len(fed[c]) + 1] = t
    BY <2>4
  <2>6. QueueSorted'
    <3> SUFFICES ASSUME NEW x \in Conn, NEW i \in 1..Len(queue'), NEW j \in 1..Len(queue'), i < j,
                        BatchOf(queue', i, x), BatchOf(queue', j, x)
                 PROVE  queue'[i].t < queue'[j].t
      BY DEF QueueSorted
    <3>1. BatchOf(queue, i + 1, x) /\ BatchOf(queue, j + 1, x) /\ i + 1 < j + 1
      BY <1>2 DEF BatchOf
    <3>2. QED  BY <1>2, <3>1 DEF OrderInv, QueueSorted
  <2>7. QueueBelowLast'
    BY <1>1, <1>2 DEF OrderInv, QueueBelowLast, BatchOf
  <2>8. FedBelow'
    <3> SUFFICES ASSUME NEW x \in Conn, NEW k \in 1..Len(fed'[x])
                 PROVE  /\ fed'[x][k] <= lastT[x]
                        /\ \A i \in 1..Len(queue') : BatchOf(queue', i, x) => fed'[x][k] < queue'[i].t
      BY <1>1 DEF FedBelow
    <3>1. CASE x # c
      BY <1>2, <2>4, <3>1 DEF OrderInv, FedBelow, BatchOf
    <3>2. CASE x = c /\ k \in 1..Len(fed[c])
      <4>1. fed'[x][k] = fed[c][k] /\ fed[c][k] <= lastT[x]
        BY <2>5, <3>2 DEF OrderInv, FedBelow
      <4>2. ASSUME NEW i \in 1..Len(queue'), BatchOf(queue', i, x) PROVE fed[c][k] < queue'[i].t
        <5>1. i + 1 \in 1..Len(queue) /\ queue'[i] = queue[i + 1] /\ BatchOf(queue, i + 1, c)
          BY <1>2, <3>2, <4>2 DEF BatchOf
        <5>2. QED  BY <3>2, <5>1 DEF OrderInv, FedBelow
      <4>3. QED  BY <4>1, <4>2
    <3>3. CASE x = c /\ k = Len(fed[c]) + 1
      <4>1. fed'[x][k] = t
        BY <2>5, <3>3
      <4>2. ASSUME NEW i \in 1..Len(queue'), BatchOf(queue', i, x) PROVE t < queue'[i].t
        <5>1. i + 1 \in 2..Len(queue) /\ queue'[i] = queue[i + 1] /\ BatchOf(queue, i + 1, c)
          BY <1>2, <3>3, <4>2 DEF BatchOf
        <5>2. QED  BY <2>2, <5>1
      <4>3. QED  BY <2>1, <3>3, <4>1, <4>2
    <3>4. QED  BY <2>4, <2>5, <3>1, <3>2, <3>3
  <2>9. FedInOrder'
    <3> SUFFICES ASSUME NEW x \in Conn, NEW i \in 1..Len(fed'[x]), NEW j \in 1..Len(fed'[x]), i < j
                 PROVE  fed'[x][i] < fed'[x][j]
      BY DEF FedInOrder
    <3>1. CASE x # c
      BY <2>4, <3>1 DEF OrderInv, FedInOrder
    <3>2. CASE x = c /\ j \in 1..Len(fed[c])
      <4>1. i \in 1..Len(fed[c]) /\ fed'[x][i] = fed[c][i] /\ fed'[x][j] = fed[c][j]
        BY <2>4, <2>5, <3>2
      <4>2. fed[c][i] < fed[c][j]
        BY <3>2, <4>1 DEF OrderInv, FedInOrder
      <4>3. QED  BY <4>1, <4>2
    <3>3. CASE x = c /\ j = Len(fed[c]) + 1
      <4>1. i \in 1..Len(fed[c])
        BY <2>4, <2>5, <3>3
      <4>2. QED  BY <2>3, <2>5, <3>3, <4>1
    <3>4. QED  BY <2>4, <2>5, <3>1, <3>2, <3>3
  <2>10. QED  BY <2>6, <2>7, <2>8, <2>9 DEF OrderInv
<1>5. QED  BY <1>2, <1>3, <1>4 DEF HandleBatch

LEMMA OrderStep == TypeOK /\ OrderInv /\ [Next]_vars => OrderInv'
<1> SUFFICES ASSUME TypeOK, OrderInv, [Next]_vars PROVE OrderInv'
  OBVIOUS
<1>1. ASSUME NEW c \in Conn, SubmitOpen(c) \/ Location(c) \/ SubmitClose(c) PROVE OrderInv'
  <2>1. UNCHANGED <<lastT, fed>>
    BY <1>1 DEF SubmitOpen, Location, SubmitClose, connVars, shardVars
  <2>2. PICK kind \in {"open", "location", "close"} : SubmitControl(Message(kind, c, 0))
    BY <1>1 DEF SubmitOpen, Location, SubmitClose
  <2>3. Message(kind, c, 0) \in Messages /\ Message(kind, c, 0).kind # "batch"
    BY MessageType DEF Message
  <2>4. QED  BY <2>1, <2>2, <2>3, OrderControl
<1>2. ASSUME NEW c \in Conn, NEW b \in Offers[c], NewBatch(c, b[1], b[2]) PROVE OrderInv'
  <2>1. b[1] \in Nat /\ b[2] \in 1..MaxTime
    BY BoundAssumption
  <2>2. QED  BY <1>2, <2>1, OrderNewBatch
<1>3. ASSUME NEW c \in Conn, HandleOpen(c) \/ HandleClose(c) \/ HandleLocation(c) PROVE OrderInv'
  <2>1. UNCHANGED fed /\ (Take("open", c) \/ Take("close", c) \/ Take("location", c))
    BY <1>3 DEF HandleOpen, HandleClose, HandleLocation
  <2>2. QED  BY <2>1, OrderTake
<1>4. ASSUME NEW c \in Conn, HandleBatch(c) PROVE OrderInv'
  BY <1>4, OrderHandleBatch
<1>5. CASE ~ \E c \in Conn :
             \/ SubmitOpen(c) \/ Location(c) \/ SubmitClose(c)
             \/ \E b \in Offers[c] : NewBatch(c, b[1], b[2])
             \/ HandleOpen(c) \/ HandleClose(c) \/ HandleLocation(c) \/ HandleBatch(c)
  <2>1. UNCHANGED <<lastT, fed, queue>>
    BY <1>5 DEF vars, connVars, shardVars, Next, Handler, Shard, Accept, HelloAccepted, HelloRefused,
       Register, ReplayedBatch, StopReading, Unlist, Return, WriterFails, Flush, ShardExit,
       CloseCurrent, CloseAll, Cancel
  <2>2. QED
    BY <2>1 DEF OrderInv, QueueSorted, QueueBelowLast, FedBelow, FedInOrder, BatchOf
<1>6. QED  BY <1>1, <1>2, <1>3, <1>4, <1>5

-----------------------------------------------------------------------------
(* Release.  An open, queued or handled, is that of a handler that got as  *)
(* far as to submit it; once the handler has submitted its close too, the  *)
(* close is queued behind it.                                              *)

Opened == {"streaming", "leaving", "unlisted", "closing", "done"}
Over   == {"closing", "done"}

OwnerOpened ==
  \A d \in Device : owner[d] # None => DeviceOf[owner[d]] = d /\ phase[owner[d]] \in Opened

QueuedOpened ==
  \A i \in 1..Len(queue) : queue[i].kind = "open" => phase[queue[i].sess] \in Opened

QueuedReleased ==
  ~blocked =>
    \A i \in 1..Len(queue) :
      queue[i].kind = "open" /\ phase[queue[i].sess] \in Over =>
        \E j \in 1..Len(queue) : i < j /\ queue[j] = Message("close", queue[i].sess, 0)

LeakInv == OwnerOpened /\ QueuedOpened /\ QueuedReleased /\ NoLeakedProcessor

LEMMA LeakInit == Init => LeakInv
  BY DEF Init, LeakInv, OwnerOpened, QueuedOpened, QueuedReleased, NoLeakedProcessor

(* A handler that moves on without a message: it neither submits an open   *)
(* nor skips its close.                                                    *)
LEMMA LeakQuiet ==
  ASSUME TypeOK, LeakInv, UNCHANGED <<queue, blocked, owner>>,
         \A c \in Conn : phase[c] \in Opened => phase'[c] \in Opened,
         \A c \in Conn : phase[c] \in Opened /\ phase'[c] \in Over => phase[c] \in Over
  PROVE  LeakInv'
<1>1. \A i \in 1..Len(queue) : queue[i].sess \in Conn
  BY DEF TypeOK, Messages
<1>2. \A d \in Device : owner[d] # None => owner[d] \in Conn
  BY DEF TypeOK
<1>3. OwnerOpened' /\ QueuedOpened'
  BY <1>1, <1>2 DEF LeakInv, OwnerOpened, QueuedOpened
<1>4. QueuedReleased'
  BY <1>1 DEF LeakInv, QueuedOpened, QueuedReleased
<1>5. NoLeakedProcessor'
  <2> SUFFICES ASSUME NEW d \in Device, owner[d] # None, phase'[owner[d]] \in Over, ~blocked
               PROVE  \E i \in 1..Len(queue) : queue[i] = Message("close", owner[d], 0)
    BY DEF NoLeakedProcessor, Over
  <2>1. phase[owner[d]] \in Over
    BY <1>2 DEF LeakInv, OwnerOpened
  <2>2. QED  BY <2>1 DEF LeakInv, NoLeakedProcessor, Over
<1>6. QED  BY <1>3, <1>4, <1>5 DEF LeakInv

(* The message a handler submits is an open only when it becomes opened,   *)
(* and a close when it becomes over.                                       *)
LEMMA LeakSubmit ==
  ASSUME TypeOK, LeakInv, NEW c \in Conn, NEW m \in Messages, SubmitControl(m), UNCHANGED owner,
         m.sess = c,
         \A x \in Conn : x # c => phase'[x] = phase[x],
         phase'[c] \in Opened,
         m.kind = "open" => phase'[c] \notin Over,
         phase'[c] \in Over => m = Message("close", c, 0)
  PROVE  LeakInv'
<1>1. /\ \A i \in 1..Len(queue) : i \in 1..Len(queue') /\ queue'[i] = queue[i]
      /\ \A i \in 1..Len(queue') : i \in 1..Len(queue) \/ queue'[i] = m
      /\ blocked => blocked'
      /\ blocked' \/ (Len(queue') = Len(queue) + 1 /\ queue'[Len(queue')] = m)
      /\ Len(queue) \in Nat /\ Len(queue') \in Nat
  BY SubmitEffect DEF TypeOK, QueueOK
<1>2. \A i \in 1..Len(queue) : queue[i].sess \in Conn
  BY DEF TypeOK, Messages
<1>3. \A d \in Device : owner[d] # None => owner[d] \in Conn
  BY DEF TypeOK
<1>4. OwnerOpened'
  BY <1>3 DEF LeakInv, OwnerOpened
<1>5. QueuedOpened'
  <2> SUFFICES ASSUME NEW i \in 1..Len(queue'), queue'[i].kind = "open"
               PROVE  phase'[queue'[i].sess] \in Opened
    BY DEF QueuedOpened
  <2>1. CASE queue'[i] = m
    BY <2>1
  <2>2. CASE i \in 1..Len(queue) /\ queue'[i] = queue[i]
    <3>1. phase[queue[i].sess] \in Opened
      BY <2>2 DEF LeakInv, QueuedOpened
    <3>2. QED  BY <1>2, <2>2, <3>1
  <2>3. QED  BY <1>1, <2>1, <2>2
<1>6. QueuedReleased'
  <2> SUFFICES ASSUME ~blocked', NEW i \in 1..Len(queue'), queue'[i].kind = "open",
                      phase'[queue'[i].sess] \in Over
               PROVE  \E j \in 1..Len(queue') : i < j /\ queue'[j] = Message("close", queue'[i].sess, 0)
    BY DEF QueuedReleased
  <2>1. queue'[i] # m
    OBVIOUS
  <2>2. i \in 1..Len(queue) /\ queue'[i] = queue[i]
    BY <1>1, <2>1
  <2>3. CASE queue[i].sess = c
    <3>1. m = Message("close", c, 0)
      BY <2>2, <2>3
    <3>2. Len(queue') \in 1..Len(queue') /\ i < Len(queue') /\ queue'[Len(queue')] = m
      BY <1>1, <2>2
    <3>3. QED  BY <2>2, <2>3, <3>1, <3>2
  <2>4. CASE queue[i].sess # c
    <3>1. phase[queue[i].sess] \in Over /\ ~blocked
      BY <1>1, <1>2, <2>2, <2>4
    <3>2. PICK j \in 1..Len(queue) : i < j /\ queue[j] = Message("close", queue[i].sess, 0)
      BY <2>2, <3>1 DEF LeakInv, QueuedReleased
    <3>3. QED  BY <1>1, <2>2, <3>2
  <2>5. QED  BY <2>3, <2>4
<1>7. NoLeakedProcessor'
  <2> SUFFICES ASSUME NEW d \in Device, owner[d] # None, phase'[owner[d]] \in Over, ~blocked'
               PROVE  \E i \in 1..Len(queue') : queue'[i] = Message("close", owner[d], 0)
    BY DEF NoLeakedProcessor, Over
  <2>1. CASE owner[d] = c
    <3>1. Len(queue') \in 1..Len(queue') /\ queue'[Len(queue')] = Message("close", c, 0)
      BY <1>1, <2>1
    <3>2. QED  BY <2>1, <3>1
  <2>2. CASE owner[d] # c
    <3>1. phase[owner[d]] \in Over /\ ~blocked
      BY <1>1, <1>3, <2>2
    <3>2. PICK j \in 1..Len(queue) : queue[j] = Message("close", owner[d], 0)
      BY <3>1 DEF LeakInv, NoLeakedProcessor, Over
    <3>3. QED  BY <1>1, <3>2
  <2>3. QED  BY <2>1, <2>2
<1>8. QED  BY <1>4, <1>5, <1>6, <1>7 DEF LeakInv

(* The shard takes a message; what was queued behind it stays queued.  The *)
(* owners it changes are the session of an open, and None.                 *)
LEMMA LeakTake ==
  ASSUME TypeOK, LeakInv, NEW c \in Conn, NEW kind, Take(kind, c),
         owner' \in [Device -> Conn \cup {None}],
         \A d \in Device :
           \/ owner'[d] = owner[d] /\ ~(kind = "close" /\ owner[d] = c)
           \/ owner'[d] = None
           \/ kind = "open" /\ d = DeviceOf[c] /\ owner'[d] = c
  PROVE  LeakInv'
<1>1. /\ Len(queue') = Len(queue) - 1 /\ Len(queue) \in Nat
      /\ \A i \in 1..Len(queue') : i + 1 \in 1..Len(queue) /\ queue'[i] = queue[i + 1]
      /\ \A i \in 1..Len(queue) : i = 1 \/ (i - 1 \in 1..Len(queue') /\ queue'[i - 1] = queue[i])
      /\ 1 \in 1..Len(queue) /\ queue[1].kind = kind /\ queue[1].sess = c
  BY TakeEffect DEF TypeOK, QueueOK
<1>2. UNCHANGED <<phase, blocked>>
  BY DEF Take, connVars
<1>3. kind = "open" => phase[c] \in Opened
  BY <1>1 DEF LeakInv, QueuedOpened
<1>4. OwnerOpened'
  BY <1>2, <1>3 DEF LeakInv, OwnerOpened
<1>5. QueuedOpened'
  BY <1>1, <1>2 DEF LeakInv, QueuedOpened
<1>6. QueuedReleased'
  <2> SUFFICES ASSUME ~blocked, NEW i \in 1..Len(queue'), queue'[i].kind = "open",
                      phase[queue'[i].sess] \in Over
               PROVE  \E j \in 1..Len(queue') : i < j /\ queue'[j] = Message("close", queue'[i].sess, 0)
    BY <1>2 DEF QueuedReleased
  <2>1. i + 1 \in 1..Len(queue) /\ queue'[i] = queue[i + 1]
    BY <1>1
  <2>2. PICK j \in 1..Len(queue) : i + 1 < j /\ queue[j] = Message("close", queue[i + 1].sess, 0)
    BY <2>1 DEF LeakInv, QueuedReleased
  <2>3. j - 1 \in 1..Len(queue') /\ queue'[j - 1] = queue[j] /\ i < j - 1
    BY <1>1, <2>2
  <2>4. QED  BY <2>1, <2>2, <2>3
<1>7. NoLeakedProcessor'
  <2> SUFFICES ASSUME NEW d \in Device, owner'[d] # None, phase[owner'[d]] \in Over, ~blocked
               PROVE  \E i \in 1..Len(queue') : queue'[i] = Message("close", owner'[d], 0)
    BY <1>2 DEF NoLeakedProcessor, Over
  <2>1. CASE owner'[d] = owner[d] /\ ~(kind = "close" /\ owner[d] = c)
    <3>1. PICK j \in 1..Len(queue) : queue[j] = Message("close", owner[d], 0)
      BY <2>1 DEF LeakInv, NoLeakedProcessor, Over
    <3>2. j # 1
      BY <1>1, <2>1, <3>1 DEF Message
    <3>3. QED  BY <1>1, <2>1, <3>1, <3>2
  <2>2. CASE kind = "open" /\ d = DeviceOf[c] /\ owner'[d] = c
    <3>1. PICK j \in 1..Len(queue) : 1 < j /\ queue[j] = Message("close", c, 0)
      BY <1>1, <2>2 DEF LeakInv, QueuedReleased
    <3>2. QED  BY <1>1, <2>2, <3>1
  <2>3. QED  BY <2>1, <2>2
<1>8. QED  BY <1>4, <1>5, <1>6, <1>7 DEF LeakInv

LEMMA LeakStep == TypeOK /\ LeakInv /\ [Next]_vars => LeakInv'
<1> SUFFICES ASSUME TypeOK, LeakInv, [Next]_vars PROVE LeakInv'
  OBVIOUS
<1> USE ConnAssumption
<1>1. ASSUME NEW c \in Conn, SubmitOpen(c) PROVE LeakInv'
  <2>1. /\ SubmitControl(Message("open", c, 0)) /\ UNCHANGED owner
        /\ phase' = [phase EXCEPT ![c] = "streaming"]
    BY <1>1 DEF SubmitOpen, Goes, shardVars
  <2>2. /\ \A x \in Conn : x # c => phase'[x] = phase[x]
        /\ phase'[c] \in Opened /\ phase'[c] \notin Over
    BY <2>1 DEF TypeOK, Opened, Over
  <2>3. Message("open", c, 0) \in Messages /\ Message("open", c, 0).sess = c
    BY MessageType DEF Message
  <2>4. QED  BY <2>1, <2>2, <2>3, LeakSubmit
<1>2. ASSUME NEW c \in Conn, Location(c) PROVE LeakInv'
  <2>1. /\ SubmitControl(Message("location", c, 0)) /\ UNCHANGED <<owner, phase>>
        /\ phase[c] = "streaming"
    BY <1>2 DEF Location, shardVars, connVars
  <2>2. /\ Message("location", c, 0) \in Messages /\ Message("location", c, 0).sess = c
        /\ Message("location", c, 0).kind # "open"
    BY MessageType DEF Message
  <2>3. phase'[c] \in Opened /\ phase'[c] \notin Over
    BY <2>1 DEF Opened, Over
  <2>4. QED  BY <2>1, <2>2, <2>3, LeakSubmit
<1>3. ASSUME NEW c \in Conn, SubmitClose(c) PROVE LeakInv'
  <2>1. /\ SubmitControl(Message("close", c, 0)) /\ UNCHANGED owner
        /\ phase' = [phase EXCEPT ![c] = "closing"]
    BY <1>3 DEF SubmitClose, Goes, shardVars
  <2>2. (\A x \in Conn : x # c => phase'[x] = phase[x]) /\ phase'[c] \in Opened
    BY <2>1 DEF TypeOK, Opened
  <2>3. /\ Message("close", c, 0) \in Messages /\ Message("close", c, 0).sess = c
        /\ Message("close", c, 0).kind # "open"
    BY MessageType DEF Message
  <2>4. QED  BY <2>1, <2>2, <2>3, LeakSubmit
<1>4. ASSUME NEW c \in Conn, NEW b \in Offers[c], NewBatch(c, b[1], b[2]) PROVE LeakInv'
  <2>1. UNCHANGED <<phase, blocked, owner>>
    BY <1>4 DEF NewBatch, shardVars
  <2>2. CASE UNCHANGED queue
    BY <2>1, <2>2, LeakQuiet
  <2>3. CASE ~Full /\ queue' = Append(queue, Message("batch", c, b[2]))
    <3>1. /\ Message("batch", c, b[2]) \in Messages /\ Message("batch", c, b[2]).sess = c
          /\ Message("batch", c, b[2]).kind = "batch"
      BY BoundAssumption DEF Message, Messages
    <3>2. SubmitControl(Message("batch", c, b[2]))
      BY <2>1, <2>3 DEF SubmitControl
    <3>3. phase'[c] \in Opened /\ phase'[c] \notin Over
      BY <1>4, <2>1 DEF NewBatch, Opened, Over
    <3>4. QED  BY <2>1, <3>1, <3>2, <3>3, LeakSubmit
  <2>4. QED  BY <1>4, <2>2, <2>3 DEF NewBatch
<1>5. ASSUME NEW c \in Conn, HandleOpen(c) PROVE LeakInv'
  <2>1. Take("open", c) /\ owner' = [owner EXCEPT ![DeviceOf[c]] = c]
    BY <1>5 DEF HandleOpen
  <2>2. owner' \in [Device -> Conn \cup {None}]
    BY <2>1 DEF TypeOK
  <2>3. \A d \in Device : owner'[d] = owner[d] \/ (d = DeviceOf[c] /\ owner'[d] = c)
    BY <2>1 DEF TypeOK
  <2>4. QED  BY <2>1, <2>2, <2>3, LeakTake
<1>6. ASSUME NEW c \in Conn, HandleClose(c) PROVE LeakInv'
  <2>1. /\ Take("close", c)
        /\ \/ owner' = [owner EXCEPT ![DeviceOf[c]] = None]
           \/ owner[DeviceOf[c]] # c /\ UNCHANGED owner
    BY <1>6 DEF HandleClose
  <2>2. owner' \in [Device -> Conn \cup {None}]
    BY <2>1 DEF TypeOK
  <2>3. \A d \in Device : (owner'[d] = owner[d] /\ owner[d] # c) \/ owner'[d] = None
    <3>1. \A d \in Device : owner[d] = c => d = DeviceOf[c]
      BY DEF LeakInv, OwnerOpened
    <3>2. QED  BY <2>1, <3>1 DEF TypeOK
  <2>4. QED  BY <2>1, <2>2, <2>3, LeakTake
<1>7. ASSUME NEW c \in Conn, HandleBatch(c) \/ HandleLocation(c) PROVE LeakInv'
  <2>1. (Take("batch", c) \/ Take("location", c)) /\ UNCHANGED owner
    BY <1>7 DEF HandleBatch, HandleLocation
  <2>2. owner' \in [Device -> Conn \cup {None}] /\ \A d \in Device : owner'[d] = owner[d]
    BY <2>1 DEF TypeOK
  <2>3. CASE Take("batch", c)
    BY <2>2, <2>3, LeakTake
  <2>4. CASE Take("location", c)
    BY <2>2, <2>4, LeakTake
  <2>5. QED  BY <2>1, <2>3, <2>4
<1>8. CASE ~ \E c \in Conn :
             \/ SubmitOpen(c) \/ Location(c) \/ SubmitClose(c)
             \/ \E b \in Offers[c] : NewBatch(c, b[1], b[2])
             \/ HandleOpen(c) \/ HandleClose(c) \/ HandleLocation(c) \/ HandleBatch(c)
  <2>1. UNCHANGED <<queue, blocked, owner>>
    BY <1>8 DEF vars, connVars, shardVars, Next, Handler, Shard, Accept, HelloAccepted, HelloRefused,
       Register, ReplayedBatch, StopReading, Unlist, Return, WriterFails, Flush, ShardExit,
       CloseCurrent, CloseAll, Cancel
  <2>2. \A x \in Conn : /\ phase[x] \in Opened => phase'[x] \in Opened
                        /\ phase[x] \in Opened /\ phase'[x] \in Over => phase[x] \in Over
    BY <1>8 DEF vars, connVars, shardVars, Next, Handler, Shard, Accept, HelloAccepted, HelloRefused,
       Register, ReplayedBatch, StopReading, Unlist, Return, WriterFails, Flush, ShardExit,
       CloseCurrent, CloseAll, Cancel, Goes, TypeOK, Opened, Over
  <2>3. QED  BY <2>1, <2>2, LeakQuiet
<1>9. QED  BY <1>1, <1>2, <1>3, <1>4, <1>5, <1>6, <1>7, <1>8

-----------------------------------------------------------------------------

(* Every variable keeps its type, whatever the bounds.  That a slot count  *)
(* never goes below zero needs the next theorem's invariant.               *)
THEOREM TypeCorrect == Spec => []TypeOK
<1>1. Init => TypeOK /\ ConnectionCap
  BY TypeInit, CapInit
<1>2. TypeOK /\ ConnectionCap /\ [Next]_vars => (TypeOK /\ ConnectionCap)'
  BY TypeStep, CapStep
<1>3. QED  BY <1>1, <1>2, PTL DEF Spec

(* The connections counted for an address are the handlers that run for    *)
(* it, and never more than MaxConnsPerIP (session.go 52-70).               *)
THEOREM CapCorrect == Spec => []ConnectionCap
<1>1. Init => TypeOK /\ ConnectionCap
  BY TypeInit, CapInit
<1>2. TypeOK /\ ConnectionCap /\ [Next]_vars => (TypeOK /\ ConnectionCap)'
  BY TypeStep, CapStep
<1>3. QED  BY <1>1, <1>2, PTL DEF Spec

(* Of two connections that serve the same phone one has been closed.       *)
THEOREM OneLiveCorrect == Spec => []OneLiveSession
<1>1. Spec => []TypeOK
  BY TypeCorrect
<1>2. TypeOK /\ ListedOrEnded /\ [Next]_vars => ListedOrEnded'
  BY ListedStep
<1>3. QED  BY <1>1, <1>2, ListedInit, ListedIsOne, PTL DEF Spec

(* What is credited was processed.                                         *)
THEOREM CreditCorrect == Spec => []NeverOvercounted
<1>1. Spec => []TypeOK
  BY TypeCorrect
<1>2. Init => NeverOvercounted
  BY DEF Init, NeverOvercounted
<1>3. TypeOK /\ NeverOvercounted /\ [Next]_vars => NeverOvercounted'
  BY CreditStep
<1>4. QED  BY <1>1, <1>2, <1>3, PTL DEF Spec

(* The processor of a session sees its samples in time order, no batch     *)
(* twice.                                                                  *)
THEOREM FedInOrderCorrect == Spec => []FedInOrder
<1>1. Spec => []TypeOK
  BY TypeCorrect
<1>2. OrderInv => FedInOrder
  BY DEF OrderInv
<1>3. QED  BY <1>1, <1>2, OrderInit, OrderStep, PTL DEF Spec

(* A processor whose connection is over has its close in the queue, unless *)
(* a control message was given up.                                         *)
THEOREM NoLeakCorrect == Spec => []NoLeakedProcessor
<1>1. Spec => []TypeOK
  BY TypeCorrect
<1>2. LeakInv => NoLeakedProcessor
  BY DEF LeakInv
<1>3. QED  BY <1>1, <1>2, LeakInit, LeakStep, PTL DEF Spec

=============================================================================
