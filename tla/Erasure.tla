-------------------------------- MODULE Erasure --------------------------------
(***************************************************************************)
(* A phone that deletes itself (handleDeleteMe, internal/server/http.go)   *)
(* while the server works for it: its connections and the shard that feeds *)
(* its processor (as in Ingest, whose queue is taken to have room for      *)
(* control messages here), the store's queue of writes, and the recorder   *)
(* of its class with a queue and files of its own (internal/record).       *)
(***************************************************************************)
EXTENDS Naturals, Sequences, SequencesExt

CONSTANTS
  Conn,      \* the connections of the device
  None,      \* no connection
  QueueCap,  \* bound: messages that wait for the shard when a batch is taken
  WritesCap, \* capacity of Store.writes
  RecCap     \* capacity of Recorder.in

\* Assumed of the constants by whoever instantiates the module.
ErasureAssumption ==
  /\ None \notin Conn
  /\ QueueCap \in Nat \ {0} /\ WritesCap \in Nat \ {0} /\ RecCap \in Nat \ {0}

VARIABLES
  row,      \* is the device in the table of devices
  phase,    \* where the handler of a connection is
  closed,   \* the connections whose socket the server has closed
  current,  \* Server.sessions of the device
  queue,    \* shard.in
  owner,    \* shard.devs: the session of the device's state
  night,    \* its listening time that was not written yet
  writes,   \* Store.writes and the batch of the writer
  tables,   \* the tables that have rows of the device, but for devices
  entries,  \* Recorder.in: how many batches of the device
  ctl,      \* Recorder.ctl: is the closing of the device's files waiting there
  file,     \* its recording: is there a file, and how is it open
  del,      \* where handleDeleteMe is
  idle      \* history: nothing of the device was under way when it was deleted

vars == <<row, phase, closed, current, queue, owner, night, writes, tables, entries, ctl, file, del, idle>>

connVars  == <<row, phase, closed, current>>
shardVars == <<queue, owner, night>>
storeVars == <<writes, tables>>
recVars   == <<entries, ctl, file>>
delVars   == <<del, idle>>

Tables == {"picks", "snippets", "nights"}

(***************************************************************************)
(* A connection (handleDeviceWS).                                          *)
(***************************************************************************)
\* GetDevice finds the row and the secret is right.
Authenticate(c) ==
  /\ phase[c] = "new" /\ row
  /\ phase' = [phase EXCEPT ![c] = "authed"]
  /\ idle' = FALSE
  /\ UNCHANGED <<row, closed, current, shardVars, storeVars, recVars, del>>

\* It takes the place of the one before, under sessMu, and opens its processor.
Register(c) ==
  /\ phase[c] = "authed"
  /\ phase' = [phase EXCEPT ![c] = "listed"]
  /\ closed' = closed \cup ({current} \ {None})
  /\ current' = c
  /\ queue' = Append(queue, [kind |-> "open", sess |-> c])
  /\ UNCHANGED <<row, owner, night, storeVars, recVars, delVars>>

Batch(c) ==
  /\ phase[c] = "listed" /\ c \notin closed
  /\ Len(queue) < QueueCap
  /\ queue' = Append(queue, [kind |-> "batch", sess |-> c])
  /\ UNCHANGED <<connVars, owner, night, storeVars, recVars, delVars>>

MutantLeave(c) ==
  /\ phase[c] = "listed"
  /\ phase' = [phase EXCEPT ![c] = "left"]
  /\ current' = IF current = c THEN None ELSE current
  /\ closed' = closed \cup {c}
  /\ UNCHANGED <<row, queue, owner, night, storeVars, recVars, delVars>>

\* The read fails, as it does on a socket that was closed, or the phone says goodbye.
Leave(c) ==
  /\ phase[c] = "listed"
  /\ phase' = [phase EXCEPT ![c] = "left"]
  /\ current' = IF current = c THEN None ELSE current
  /\ queue' = Append(queue, [kind |-> "close", sess |-> c])
  /\ closed' = closed \cup {c}
  /\ UNCHANGED <<row, owner, night, storeVars, recVars, delVars>>

(***************************************************************************)
(* The shard (shard.go).                                                   *)
(***************************************************************************)
\* Store.Async, which drops what it has no room for.
Async(w) == IF Len(writes) < WritesCap THEN Append(writes, w) ELSE writes

\* process: a batch may hold a pick, listening time, and what a recording keeps.
Process ==
  /\ writes' \in {writes, Async("picks")}
  /\ night' \in {night, TRUE}
  /\ entries' \in {entries, IF entries < RecCap THEN entries + 1 ELSE entries}
  /\ UNCHANGED owner

\* save, as far as it can write a row that is not there: UpdateDeviceSession changes devices only.
Save ==
  /\ writes' = IF night THEN Async("nights") ELSE writes
  /\ night' = FALSE

\* shard.handle.
Handle ==
  /\ queue # <<>> /\ queue' = Tail(queue)
  /\ LET m == Head(queue)
     IN  CASE m.kind = "open" ->
                owner' = m.sess /\ night' = FALSE /\ UNCHANGED <<writes, entries>>
           [] m.kind = "close" /\ owner = m.sess ->
                Save /\ owner' = None /\ UNCHANGED entries
           [] m.kind = "batch" /\ owner = m.sess -> Process
           [] OTHER -> UNCHANGED <<owner, night, writes, entries>>
  /\ UNCHANGED <<connVars, tables, ctl, file, delVars>>

\* The ticker of 30 s.
SaveTick ==
  /\ owner # None /\ night /\ Save
  /\ UNCHANGED <<connVars, queue, owner, tables, recVars, delVars>>

\* The engine asks for what an event's phones have measured (shardSnippet).
Snippet ==
  /\ owner # None
  /\ writes' = Async("snippets")
  /\ UNCHANGED <<connVars, shardVars, tables, recVars, delVars>>

(***************************************************************************)
(* The writer of the store, and the recorder's goroutine.                  *)
(***************************************************************************)
Write ==
  /\ writes # <<>>
  /\ tables' = tables \cup {Head(writes)} /\ writes' = Tail(writes)
  /\ UNCHANGED <<connVars, shardVars, recVars, delVars>>

\* Recorder.write: into the open file, or one that is created or appended to.
Record ==
  /\ entries > 0 /\ entries' = entries - 1
  /\ file' = IF file.open = "no" THEN [there |-> TRUE, open |-> "yes"] ELSE file
  /\ UNCHANGED <<connVars, shardVars, storeVars, ctl, delVars>>

\* Its ticker: a file that was not written to for 90 s.
CloseIdle ==
  /\ file.open # "no" /\ entries = 0
  /\ file' = [file EXCEPT !.open = "no"]
  /\ UNCHANGED <<connVars, shardVars, storeVars, entries, ctl, delVars>>

\* The function that DeleteDevice sent; the loop takes it before or after the batches that wait.
CloseFiles ==
  /\ ctl /\ ctl' = FALSE
  /\ file' = [file EXCEPT !.open = "no"]
  /\ del' = "files"
  /\ UNCHANGED <<connVars, shardVars, storeVars, entries, idle>>

(***************************************************************************)
(* handleDeleteMe.                                                         *)
(***************************************************************************)
UnderWay ==
  \/ \E c \in Conn : phase[c] \in {"authed", "listed"}
  \/ queue # <<>> \/ owner # None \/ night \/ writes # <<>> \/ entries > 0

\* authDevice.
Ask ==
  /\ del = "none" /\ row
  /\ del' = "close" /\ idle' = ~UnderWay
  /\ UNCHANGED <<connVars, shardVars, storeVars, recVars>>

CloseSession ==
  /\ del = "close" /\ del' = "store"
  /\ closed' = closed \cup ({current} \ {None})
  /\ UNCHANGED <<row, phase, current, shardVars, storeVars, recVars, idle>>

MutantDeleteRows ==
  /\ del = "store"
  /\ row' = FALSE /\ tables' = tables \ {"picks", "snippets"} /\ del' = "recorder"
  /\ UNCHANGED <<phase, closed, current, shardVars, writes, recVars, idle>>

\* Store.DeleteDevice, one transaction; the phone tries again if it fails.
DeleteRows ==
  /\ del = "store"
  /\ \/ row' = FALSE /\ tables' = {} /\ del' = "recorder"
     \/ UNCHANGED <<row, tables>> /\ del' = "none"
  /\ UNCHANGED <<phase, closed, current, shardVars, writes, recVars, idle>>

\* Recorder.DeleteDevice up to the channel, and from the answer of the loop on.
AskRecorder ==
  /\ del = "recorder" /\ del' = "wait"
  /\ ctl' = TRUE
  /\ UNCHANGED <<connVars, shardVars, storeVars, entries, file, idle>>

MutantRemoveFiles ==
  /\ del = "files" /\ del' = "done"
  /\ file' = [file EXCEPT !.there = FALSE]
  /\ UNCHANGED <<connVars, shardVars, storeVars, entries, ctl, idle>>

\* os.Remove takes the name, and not the open file, away; the phone is told.
RemoveFiles ==
  /\ del = "files" /\ del' = "done"
  /\ file' = [there |-> FALSE, open |-> IF file.open = "no" THEN "no" ELSE "removed"]
  /\ UNCHANGED <<connVars, shardVars, storeVars, entries, ctl, idle>>

Init ==
  /\ row = TRUE /\ phase = [c \in Conn |-> "new"] /\ closed = {} /\ current = None
  /\ queue = <<>> /\ owner = None /\ night = FALSE
  /\ writes = <<>> /\ tables \in {{}, Tables}
  /\ entries = 0 /\ ctl = FALSE /\ file \in [there : BOOLEAN, open : {"no"}]
  /\ del = "none" /\ idle = FALSE

Next ==
  \/ \E c \in Conn : Authenticate(c) \/ Register(c) \/ Batch(c) \/ Leave(c)
  \/ Handle \/ SaveTick \/ Snippet
  \/ Write \/ Record \/ CloseIdle \/ CloseFiles
  \/ Ask \/ CloseSession \/ DeleteRows \/ AskRecorder \/ RemoveFiles

Spec == Init /\ [][Next]_vars

\* The goroutines go on, and a read of a socket that is closed returns.
FairSpec ==
  /\ Spec
  /\ WF_vars(Handle) /\ WF_vars(Write) /\ WF_vars(Record) /\ WF_vars(SaveTick)
  /\ \A c \in Conn : WF_vars(c \in closed /\ Leave(c))

(***************************************************************************)
(* Properties.                                                             *)
(***************************************************************************)
TypeOK ==
  /\ row \in BOOLEAN /\ phase \in [Conn -> {"new", "authed", "listed", "left"}] /\ closed \subseteq Conn
  /\ current \in Conn \cup {None} /\ owner \in Conn \cup {None} /\ night \in BOOLEAN
  /\ writes \in Seq(Tables) /\ Len(writes) <= WritesCap /\ tables \subseteq Tables
  /\ entries \in 0..RecCap /\ ctl \in BOOLEAN
  /\ file \in [there : BOOLEAN, open : {"no", "yes", "removed"}] /\ file.open = "yes" => file.there
  /\ del \in {"none", "close", "store", "recorder", "wait", "files", "done"} /\ idle \in BOOLEAN

\* A deletion leaves nothing behind, in no table and in no file, if the server had nothing to do
\* for the phone when it came (handleDeleteMe, Store.DeleteDevice, Recorder.DeleteDevice).
IdleIsGone == del = "done" /\ idle => tables = {} /\ ~file.there

\* The stream of a deleted phone ends: if no connection of it was just being made, the server
\* comes to have nothing more to do for it, for ever.  What was under way when it was deleted
\* is then written (handleDeleteMe, the defers of handleDeviceWS, shard.handle).
Deleted == del = "done" /\ \A c \in Conn : phase[c] \in {"authed", "listed"} => c \in closed

StreamEnds == [](Deleted => <>[]~UnderWay)

\* docs/API.md:19: DELETE "removes the device, its picks and its snippets, and closes its session".
SessionIsClosed == del = "done" => \A c \in Conn : phase[c] = "listed" => c \in closed

\* The phone page (web/lib/strings.ts:312): "Deleted. This phone's ID, statistics, triggers and
\* recordings are gone."
DeletedIsGone == del = "done" => tables = {} /\ ~file.there
===============================================================================
