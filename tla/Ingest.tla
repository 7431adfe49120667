------------------------------- MODULE Ingest -------------------------------
(***************************************************************************)
(* The device stream of the server: one goroutine per WebSocket            *)
(* connection (handleDeviceWS, session.go) and the station shard that owns *)
(* the processor of every device (shard.go).  The two sides share only the *)
(* session directory, under sessMu, and the bounded channel shard.in, so   *)
(* what a connection did and what the shard knows of it differ by the      *)
(* messages still queued and by those that were never queued.              *)
(*                                                                         *)
(* A device always hashes to one shard and shards share nothing, so the    *)
(* module is the view of ONE shard and of the devices it owns.             *)
(***************************************************************************)
EXTENDS Integers, Sequences, FiniteSets

CONSTANTS
  Conn,            \* connections; each lives once, from accept to return
  Device,          \* devices whose hash selects this shard
  Net,             \* client addresses, the keys of ipConns
  DeviceOf,        \* the device a connection authenticates as
  NetOf,           \* the address a connection comes from
  MaxConnsPerIP,   \* Config.MaxConnsPerIP
  QueueCap,        \* capacity of shard.in (4096 in the code)
  MaxTime,         \* bound: sample times, 1..MaxTime
  Offers,          \* bound: the batches a connection sends, as pairs of the
                   \* batch number and the time of its last sample
  Movers,          \* bound: connections whose phone reports another cell
  None             \* no connection

ASSUME ConnAssumption ==
  /\ None \notin Conn
  /\ IsFiniteSet(Conn)
  /\ DeviceOf \in [Conn -> Device]
  /\ NetOf \in [Conn -> Net]

ASSUME BoundAssumption ==
  /\ MaxConnsPerIP \in Nat
  /\ QueueCap \in Nat \ {0}
  /\ MaxTime \in Nat
  /\ Offers \in [Conn -> SUBSET (Nat \X (1..MaxTime))]
  /\ Movers \subseteq Conn

VARIABLES
  phase,      \* where the handler of a connection is
  ended,      \* session.once ran: done is closed and so is the socket
  sessions,   \* Server.sessions: the current session of a device
  ipConns,    \* Server.ipConns: connections open per address
  lastSeq,    \* session.lastSeq
  lastT,      \* session.lastT
  queue,      \* shard.in
  blocked,    \* the counter shardBlocked is not zero: a control message was given up
  owner,      \* shard.devs: the session of a device's devState, None when absent
  place,      \* devState.cell and info: the session that reported the cell in force
  unsaved,    \* devState.dSamples, in batches
  fed,        \* the batches of a session pushed into its processor (by last sample time)
  batches,    \* the counter s.m.batches, split by device
  saved,      \* batches credited to the device in the store
  server      \* how far Shutdown is

dirVars   == <<sessions, ipConns>>
connVars  == <<phase, ended, lastSeq, lastT>>
shardVars == <<owner, place, unsaved, fed, batches, saved>>
vars      == <<dirVars, connVars, queue, blocked, shardVars, server>>

Phases  == {"idle", "hello", "authed", "registered", "streaming",
            "leaving", "unlisted", "closing", "done"}
Listed  == {"registered", "streaming", "leaving"}   \* may be in the directory
Working == {"registered", "streaming"}              \* serves its phone
Open    == Phases \ {"idle", "done"}                \* holds a slot of its address

Message(kind, c, t) == [kind |-> kind, sess |-> c, t |-> t]
Messages == [kind : {"open", "location", "close"}, sess : Conn, t : {0}]
              \cup [kind : {"batch"}, sess : Conn, t : 1..MaxTime]

Full == Len(queue) >= QueueCap

Init ==
  /\ phase    = [c \in Conn |-> "idle"]
  /\ ended    = [c \in Conn |-> FALSE]
  /\ lastSeq  = [c \in Conn |-> -1]
  /\ lastT    = [c \in Conn |-> 0]
  /\ fed      = [c \in Conn |-> <<>>]
  /\ sessions = [d \in Device |-> None]
  /\ owner    = [d \in Device |-> None]
  /\ place    = [d \in Device |-> None]
  /\ unsaved  = [d \in Device |-> 0]
  /\ batches  = [d \in Device |-> 0]
  /\ saved    = [d \in Device |-> 0]
  /\ ipConns  = [n \in Net |-> 0]
  /\ queue    = <<>>
  /\ blocked  = FALSE
  /\ server   = "up"

-----------------------------------------------------------------------------
(* submit: a control message waits up to 2 s for room and is then given up *)
(* and counted.                                                            *)

\* mutant: the send waits for room for ever
SubmitControlForever(m) ==
  /\ ~Full
  /\ queue' = Append(queue, m)
  /\ UNCHANGED blocked

SubmitControl(m) ==
  \/ /\ ~Full
     /\ queue' = Append(queue, m)
     /\ UNCHANGED blocked
  \/ /\ Full
     /\ blocked' = TRUE
     /\ UNCHANGED queue

-----------------------------------------------------------------------------
(* The connection handler.                                                 *)

Goes(c, from, to) ==
  /\ phase[c] = from
  /\ phase' = [phase EXCEPT ![c] = to]

(* The request is upgraded if its address has a slot left.                 *)
Accept(c) ==
  LET n == NetOf[c] IN
  /\ server = "up"
  /\ ipConns[n] < MaxConnsPerIP
  /\ Goes(c, "idle", "hello")
  /\ ipConns' = [ipConns EXCEPT ![n] = @ + 1]
  /\ UNCHANGED <<ended, lastSeq, lastT, sessions, queue, blocked, shardVars, server>>

(* A valid hello in time, with the right secret and a cell of the grid.    *)
(* GetDevice runs under the server context and fails once it is cancelled. *)
HelloAccepted(c) ==
  /\ server \in {"up", "closed"}
  /\ Goes(c, "hello", "authed")
  /\ UNCHANGED <<ended, lastSeq, lastT, dirVars, queue, blocked, shardVars, server>>

\* mutant: the refusal gives the slot back, and so does the return
HelloRefusedReleasing(c) ==
  /\ Goes(c, "hello", "closing")
  /\ ipConns' = [ipConns EXCEPT ![NetOf[c]] = @ - 1]
  /\ UNCHANGED <<ended, lastSeq, lastT, sessions, queue, blocked, shardVars, server>>

(* No hello within 10 s, or a refused one: the handler returns.            *)
HelloRefused(c) ==
  /\ Goes(c, "hello", "closing")
  /\ UNCHANGED <<ended, lastSeq, lastT, dirVars, queue, blocked, shardVars, server>>

(* Under sessMu: the session of the device, if any, is closed and replaced.*)
Register(c) ==
  LET d == DeviceOf[c] IN
  /\ Goes(c, "authed", "registered")
  /\ ended' = [x \in Conn |-> ended[x] \/ x = sessions[d]]
  /\ sessions' = [sessions EXCEPT ![d] = c]
  /\ UNCHANGED <<ipConns, lastSeq, lastT, queue, blocked, shardVars, server>>

(* After sessMu is released.                                               *)
SubmitOpen(c) ==
  /\ Goes(c, "registered", "streaming")
  /\ SubmitControl(Message("open", c, 0))
  /\ UNCHANGED <<ended, lastSeq, lastT, dirVars, shardVars, server>>

(* onBatch, for a batch numbered s whose last sample is at t.  A batch     *)
(* with a number already seen, an invalid one and one beyond the sample    *)
(* budget change nothing here.                                             *)
ReplayedBatch(c, s, t) ==
  /\ phase[c] = "streaming"
  /\ s > lastSeq[c]
  /\ t <= lastT[c]
  /\ lastSeq' = [lastSeq EXCEPT ![c] = s]
  /\ UNCHANGED <<phase, ended, lastT, dirVars, queue, blocked, shardVars, server>>

\* mutant: a batch that ends where the last one did is let through
NewBatchOverlapping(c, s, t) ==
  /\ phase[c] = "streaming"
  /\ s > lastSeq[c]
  /\ t >= lastT[c]
  /\ lastSeq' = [lastSeq EXCEPT ![c] = s]
  /\ lastT' = [lastT EXCEPT ![c] = t]
  /\ queue' = IF Full THEN queue ELSE Append(queue, Message("batch", c, t))
  /\ UNCHANGED <<phase, ended, dirVars, blocked, shardVars, server>>

NewBatch(c, s, t) ==
  /\ phase[c] = "streaming"
  /\ s > lastSeq[c]
  /\ t > lastT[c]
  /\ lastSeq' = [lastSeq EXCEPT ![c] = s]
  /\ lastT' = [lastT EXCEPT ![c] = t]
  /\ queue' = IF Full THEN queue ELSE Append(queue, Message("batch", c, t))
  /\ UNCHANGED <<phase, ended, dirVars, blocked, shardVars, server>>

(* A "location" control message with a cell of the grid.                   *)
Location(c) ==
  /\ phase[c] = "streaming"
  /\ SubmitControl(Message("location", c, 0))
  /\ UNCHANGED <<connVars, dirVars, shardVars, server>>

(* The read loop returns: the socket failed or was closed, or a "bye".     *)
(* A frame read before the close may still be handled first.               *)
StopReading(c) ==
  /\ Goes(c, "streaming", "leaving")
  /\ UNCHANGED <<ended, lastSeq, lastT, dirVars, queue, blocked, shardVars, server>>

(* The deferred function, in its three steps: leave the directory if still *)
(* listed, tell the shard, close the socket and give the slot back.        *)
\* mutant: the entry is removed whoever it belongs to
UnlistDevice(c) ==
  /\ Goes(c, "leaving", "unlisted")
  /\ sessions' = [sessions EXCEPT ![DeviceOf[c]] = None]
  /\ UNCHANGED <<ipConns, ended, lastSeq, lastT, queue, blocked, shardVars, server>>

Unlist(c) ==
  LET d == DeviceOf[c] IN
  /\ Goes(c, "leaving", "unlisted")
  /\ sessions' = IF sessions[d] = c THEN [sessions EXCEPT ![d] = None] ELSE sessions
  /\ UNCHANGED <<ipConns, ended, lastSeq, lastT, queue, blocked, shardVars, server>>

\* mutant: a session that was replaced leaves the shard to its successor
SubmitCloseUnlessReplaced(c) ==
  /\ Goes(c, "unlisted", "closing")
  /\ IF sessions[DeviceOf[c]] = None
       THEN SubmitControl(Message("close", c, 0))
       ELSE UNCHANGED <<queue, blocked>>
  /\ UNCHANGED <<ended, lastSeq, lastT, dirVars, shardVars, server>>

SubmitClose(c) ==
  /\ Goes(c, "unlisted", "closing")
  /\ SubmitControl(Message("close", c, 0))
  /\ UNCHANGED <<ended, lastSeq, lastT, dirVars, shardVars, server>>

Return(c) ==
  /\ Goes(c, "closing", "done")
  /\ ended' = [ended EXCEPT ![c] = TRUE]
  /\ ipConns' = [ipConns EXCEPT ![NetOf[c]] = @ - 1]
  /\ UNCHANGED <<sessions, lastSeq, lastT, queue, blocked, shardVars, server>>

-----------------------------------------------------------------------------
(* Others that end a session.                                              *)

(* The writer goroutine: a write or a ping failed.                         *)
WriterFails(c) ==
  /\ phase[c] = "streaming"
  /\ ended' = [ended EXCEPT ![c] = TRUE]
  /\ UNCHANGED <<phase, lastSeq, lastT, dirVars, queue, blocked, shardVars, server>>

(* The device was deleted, or its class code changed.                      *)
CloseCurrent(d) ==
  /\ sessions[d] # None
  /\ ended' = [ended EXCEPT ![sessions[d]] = TRUE]
  /\ UNCHANGED <<phase, lastSeq, lastT, dirVars, queue, blocked, shardVars, server>>

(* Shutdown: the listed sessions are closed, then the context is cancelled.*)
CloseAll ==
  /\ server = "up"
  /\ server' = "closed"
  /\ ended' = [c \in Conn |-> ended[c] \/ sessions[DeviceOf[c]] = c]
  /\ UNCHANGED <<phase, lastSeq, lastT, dirVars, queue, blocked, shardVars>>

Cancel ==
  /\ server = "closed"
  /\ server' = "cancelled"
  /\ UNCHANGED <<connVars, dirVars, queue, blocked, shardVars>>

-----------------------------------------------------------------------------
(* The shard goroutine.                                                    *)

(* save, for the devices of D: the unsaved batches become an asynchronous  *)
(* write, which the store keeps for the devices of Kept (its queue may be  *)
(* full), and are forgotten here.                                          *)
\* mutant: what was written is not forgotten
SaveAgain(D, Kept) ==
  /\ saved' = [d \in Device |-> IF d \in D \cap Kept THEN saved[d] + unsaved[d] ELSE saved[d]]
  /\ UNCHANGED unsaved

Save(D, Kept) ==
  /\ saved' = [d \in Device |-> IF d \in D \cap Kept THEN saved[d] + unsaved[d] ELSE saved[d]]
  /\ unsaved' = [d \in Device |-> IF d \in D THEN 0 ELSE unsaved[d]]

Take(kind, c) ==
  /\ server # "stopped"
  /\ queue # <<>>
  /\ Head(queue).kind = kind
  /\ Head(queue).sess = c
  /\ queue' = Tail(queue)
  /\ UNCHANGED <<connVars, dirVars, blocked, server>>

(* A new devState replaces whatever the map held.                          *)
HandleOpen(c) ==
  LET d == DeviceOf[c] IN
  /\ Take("open", c)
  /\ owner' = [owner EXCEPT ![d] = c]
  /\ place' = [place EXCEPT ![d] = c]
  /\ unsaved' = [unsaved EXCEPT ![d] = 0]
  /\ UNCHANGED <<fed, batches, saved>>

(* Ignored unless the session is the one the devState was opened for.      *)
HandleClose(c) ==
  LET d == DeviceOf[c] IN
  /\ Take("close", c)
  /\ \/ /\ owner[d] = c
        /\ \E Kept \in SUBSET {d} : Save({d}, Kept)
        /\ owner' = [owner EXCEPT ![d] = None]
        /\ place' = [place EXCEPT ![d] = None]
     \/ /\ owner[d] # c
        /\ UNCHANGED <<owner, place, unsaved, saved>>
  /\ UNCHANGED <<fed, batches>>

(* Likewise.  The samples go through the processor and are counted.        *)
HandleBatch(c) ==
  LET d == DeviceOf[c] IN
  /\ Take("batch", c)
  /\ \/ /\ owner[d] = c
        /\ fed' = [fed EXCEPT ![c] = Append(@, Head(queue).t)]
        /\ unsaved' = [unsaved EXCEPT ![d] = @ + 1]
        /\ batches' = [batches EXCEPT ![d] = @ + 1]
     \/ /\ owner[d] # c
        /\ UNCHANGED <<fed, unsaved, batches>>
  /\ UNCHANGED <<owner, place, saved>>

(* The message names a device, not a session.                              *)
HandleLocation(c) ==
  LET d == DeviceOf[c] IN
  /\ Take("location", c)
  /\ place' = IF owner[d] # None THEN [place EXCEPT ![d] = c] ELSE place
  /\ UNCHANGED <<owner, unsaved, fed, batches, saved>>

Present == {d \in Device : owner[d] # None}

(* Every 30 s.                                                             *)
Flush ==
  /\ server # "stopped"
  /\ \E Kept \in SUBSET Present : Save(Present, Kept)
  /\ UNCHANGED <<connVars, dirVars, queue, blocked, owner, place, fed, batches, server>>

(* The context is done: save all, leave the queue as it is.                *)
ShardExit ==
  /\ server = "cancelled"
  /\ server' = "stopped"
  /\ \E Kept \in SUBSET Present : Save(Present, Kept)
  /\ UNCHANGED <<connVars, dirVars, queue, blocked, owner, place, fed, batches>>

-----------------------------------------------------------------------------

Handler(c) ==
  \/ Accept(c)
  \/ HelloAccepted(c)
  \/ HelloRefused(c)
  \/ Register(c)
  \/ SubmitOpen(c)
  \/ \E b \in Offers[c] : ReplayedBatch(c, b[1], b[2])
  \/ \E b \in Offers[c] : NewBatch(c, b[1], b[2])
  \/ c \in Movers /\ Location(c)
  \/ StopReading(c)
  \/ Unlist(c)
  \/ SubmitClose(c)
  \/ Return(c)
  \/ WriterFails(c)

Shard ==
  \/ \E c \in Conn : \/ HandleOpen(c)
                     \/ HandleClose(c)
                     \/ HandleBatch(c)
                     \/ HandleLocation(c)
  \/ Flush
  \/ ShardExit

Next ==
  \/ \E c \in Conn : Handler(c)
  \/ Shard
  \/ \E d \in Device : CloseCurrent(d)
  \/ CloseAll
  \/ Cancel

Spec == Init /\ [][Next]_vars

(* Every handler goroutine that is not waiting for its phone runs: after   *)
(* the hello (10 s deadline), while it registers, once its socket is       *)
(* closed, and through its deferred function.  Nothing is assumed of the   *)
(* shard: submit has its own timeout.                                      *)
HandlerFairness ==
  \A c \in Conn :
    /\ WF_vars(HelloAccepted(c) \/ HelloRefused(c))
    /\ WF_vars(Register(c))
    /\ WF_vars(SubmitOpen(c))
    /\ WF_vars(ended[c] /\ StopReading(c))
    /\ WF_vars(Unlist(c))
    /\ WF_vars(SubmitClose(c))
    /\ WF_vars(Return(c))

FairSpec == Spec /\ HandlerFairness

-----------------------------------------------------------------------------

TypeOK ==
  /\ phase \in [Conn -> Phases]
  /\ ended \in [Conn -> BOOLEAN]
  /\ lastSeq \in [Conn -> Nat \cup {-1}]
  /\ lastT \in [Conn -> 0..MaxTime]
  /\ fed \in [Conn -> Seq(1..MaxTime)]
  /\ sessions \in [Device -> Conn \cup {None}]
  /\ owner \in [Device -> Conn \cup {None}]
  /\ place \in [Device -> Conn \cup {None}]
  /\ unsaved \in [Device -> Nat]
  /\ batches \in [Device -> Nat]
  /\ saved \in [Device -> Nat]
  /\ ipConns \in [Net -> Nat]
  /\ queue \in Seq(Messages)
  /\ Len(queue) <= QueueCap
  /\ blocked \in BOOLEAN
  /\ server \in {"up", "closed", "cancelled", "stopped"}

(* "One live session per device" (session.go, API.md): of two connections  *)
(* that serve the same phone, one has already been closed.  It takes three *)
(* connections to go wrong: the deferred function of the first must not    *)
(* take the second out of the directory, or the third would not close it.  *)
OneLiveSession ==
  \A c1, c2 \in Conn :
    /\ c1 # c2
    /\ DeviceOf[c1] = DeviceOf[c2]
    /\ phase[c1] \in Working
    /\ phase[c2] \in Working
    => ended[c1] \/ ended[c2]

(* ipConns is the number of handlers running for the address on every path *)
(* out of handleDeviceWS, and never passes the limit.                      *)
ConnectionCap ==
  \A n \in Net :
    /\ ipConns[n] = Cardinality({c \in Conn : NetOf[c] = n /\ phase[c] \in Open})
    /\ ipConns[n] <= MaxConnsPerIP

(* A processor sees the samples of its session in time order and no batch  *)
(* twice, whatever the phone resends: the checks are made by the handler,  *)
(* before the queue, and relied on by the shard, after it.                 *)
FedInOrder ==
  \A c \in Conn : \A i, j \in 1..Len(fed[c]) : i < j => fed[c][i] < fed[c][j]

(* A device is never credited with more than was processed, however opens, *)
(* closes, periodic saves and the shutdown interleave.                     *)
NeverOvercounted ==
  \A d \in Device : saved[d] + unsaved[d] <= batches[d]

(* A processor whose connection is over is about to be released: the close *)
(* is in the queue, unless a control message was given up and counted.     *)
(* Otherwise it would stay in the shard, and be saved every 30 s, for ever.*)
NoLeakedProcessor ==
  \A d \in Device :
    owner[d] # None /\ phase[owner[d]] \in {"closing", "done"} =>
      \/ blocked
      \/ \E i \in 1..Len(queue) : queue[i] = Message("close", owner[d], 0)

(* The session the directory shows for a device is the one its shard       *)
(* serves, once the shard has caught up and no control message was given   *)
(* up: "a new connection replaces the old one" (session.go:161).           *)
LiveIsServed ==
  \A d \in Device :
    LET c == sessions[d] IN
    /\ c # None
    /\ phase[c] = "streaming"
    /\ ~ended[c]
    /\ ~blocked
    /\ server # "stopped"
    /\ \A i \in 1..Len(queue) : DeviceOf[queue[i].sess] # d
    => owner[d] = c

(* A closed session always gives its address slot back, even if the shard  *)
(* has stopped taking messages.                                            *)
HandlerReturns ==
  \A c \in Conn : ended[c] ~> phase[c] = "done"

=============================================================================
