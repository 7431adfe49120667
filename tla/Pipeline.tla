------------------------------- MODULE Pipeline --------------------------------
(***************************************************************************)
(* The goroutines between a phone's batch and the network engine, and the  *)
(* channels they share (internal/server/shard.go, server.go).  Each wants  *)
(* room in the other's channel: a shard sends picks to the engine, and the *)
(* engine asks shards for the waveforms of an event.  Both wait for a time *)
(* and then drop what they have, and both stop when the server does.       *)
(*                                                                         *)
(* Time is left out: what waits for room may give up whenever there is     *)
(* none, and an event's waveforms are due at any tick.  What is in a batch *)
(* is how many messages the engine must get of it.  Ingest has the         *)
(* sessions, Events the engine's own work, Erasure the store.              *)
(***************************************************************************)
EXTENDS Integers, Sequences, FiniteSets, SequencesExt

CONSTANTS
  Shard,
  Dev,
  Event,
  shardFor,    \* shardFor: the shard of each device
  ShardCap,    \* capacity of shard.in
  EngCap,      \* capacity of Server.engIn
  CapturedMax, \* how many captured events the engine loop remembers
  MaxOut,      \* bound: picks and ends of a batch
  MaxBatches,  \* bound: batches
  MaxJobs      \* bound: jobs for waveforms

\* Assumed of the constants by whoever instantiates the module.
PipelineAssumption ==
  /\ shardFor \in [Dev -> Shard]
  /\ ShardCap \in Nat \ {0} /\ EngCap \in Nat \ {0}
  /\ {CapturedMax, MaxOut, MaxBatches, MaxJobs} \subseteq Nat

VARIABLES
  in,        \* shard.in of each shard
  out,       \* what a shard still has to send of the batch it handles
  running,   \* the goroutines that have not returned
  engIn,     \* how many messages are in Server.engIn
  jobs,      \* engineLoop's jobs
  captured,  \* engineLoop's captured
  todo,      \* what captureSnippets has left to ask for
  cancelled, \* Server.ctx is done
  batches,   \* history: how many batches there were
  made,      \* history: how many jobs there were
  forgot,    \* history: how often captured was emptied
  asked      \* history: how often each waveform was asked for

vars == <<in, out, running, engIn, jobs, captured, todo, cancelled, batches, made, forgot, asked>>

shardVars == <<in, out>>
jobVars   == <<jobs, captured, todo, made, forgot, asked>>

Engine == "engine"
Batch  == [kind |-> "batch"]

(***************************************************************************)
(* A connection hands over a batch, or drops it (submit).  It does so      *)
(* whether the shard still runs or not.                                    *)
(***************************************************************************)
Receive(s) ==
  /\ batches < MaxBatches /\ batches' = batches + 1
  /\ in' = IF Len(in[s]) < ShardCap THEN [in EXCEPT ![s] = Append(@, Batch)] ELSE in
  /\ UNCHANGED <<out, running, engIn, jobVars, cancelled>>

(***************************************************************************)
(* A shard (shard.run).                                                    *)
(***************************************************************************)
\* It takes the next message and handles it; a snippet is stored at once.  The status of a batch is
\* sent if there is room, without waiting.
Take(s) ==
  /\ s \in running /\ out[s] = 0 /\ in[s] # <<>>
  /\ in' = [in EXCEPT ![s] = Tail(@)]
  /\ IF Head(in[s]).kind = "batch"
       THEN \E n \in 0..MaxOut, status \in {0, 1} :
              /\ out' = [out EXCEPT ![s] = n]
              /\ engIn' = IF engIn < EngCap THEN engIn + status ELSE engIn
       ELSE UNCHANGED <<out, engIn>>
  /\ UNCHANGED <<running, jobVars, cancelled, batches>>

MutantSend(s) ==
  /\ out[s] > 0 /\ engIn < EngCap
  /\ engIn' = engIn + 1
  /\ out' = [out EXCEPT ![s] = @ - 1]
  /\ UNCHANGED <<in, running, jobVars, cancelled, batches>>

\* sendEng of a pick or an end: there is room, or none until the time is over.
Send(s) ==
  /\ out[s] > 0
  /\ engIn' = IF engIn < EngCap THEN engIn + 1 ELSE engIn
  /\ out' = [out EXCEPT ![s] = @ - 1]
  /\ UNCHANGED <<in, running, jobVars, cancelled, batches>>

\* The server stops.
Return(s) ==
  /\ s \in running /\ cancelled /\ out[s] = 0
  /\ running' = running \ {s}
  /\ UNCHANGED <<shardVars, engIn, jobVars, cancelled, batches>>

(***************************************************************************)
(* The engine's goroutine (engineLoop).                                    *)
(***************************************************************************)
AtSelect == Engine \in running /\ todo = {}

EngTake ==
  /\ AtSelect /\ engIn > 0
  /\ engIn' = engIn - 1
  /\ UNCHANGED <<shardVars, running, jobVars, cancelled, batches>>

MutantJobsWith(e, devs) == jobs \cup {[id |-> made + 1, event |-> e, devs |-> devs]}

\* After an update of an event that is at least corroborated: a job for its waveforms, the first
\* time, and else the jobs there are get the event as it is now.
JobsWith(e, devs) ==
  IF e \in captured
    THEN {IF j.event = e THEN [j EXCEPT !.devs = devs] ELSE j : j \in jobs}
    ELSE jobs \cup {[id |-> made + 1, event |-> e, devs |-> devs]}

MutantRest(new, due) == IF due = {} THEN new ELSE {}

\* The jobs that are kept when some are due.
Rest(new, due) == new \ due

MutantRemembered(got) == got

Remembered(got) == IF Cardinality(got) > CapturedMax THEN {} ELSE got

\* A tick: of one event there may be such an update; what is due is asked for next; and what was
\* captured is forgotten when it is too much.
Tick ==
  /\ AtSelect
  /\ \E new \in {jobs} \cup UNION {{JobsWith(e, devs) : devs \in (SUBSET Dev) \ {{}}} : e \in Event} :
       LET fresh == {j \in new : j.id > made}
           got   == captured \cup {j.event : j \in fresh}
       IN  /\ made' = made + Cardinality(fresh) /\ made' <= MaxJobs
           /\ captured' = Remembered(got)
           /\ forgot'   = IF Cardinality(got) > CapturedMax THEN forgot + 1 ELSE forgot
           /\ \E due \in SUBSET new :
                /\ jobs' = Rest(new, due)
                /\ todo' = UNION {{<<j.id, j.event, d>> : d \in j.devs} : j \in due}
  /\ UNCHANGED <<shardVars, running, engIn, asked, cancelled, batches>>

MutantAsk ==
  \E r \in todo :
    LET s == shardFor[r[3]]
    IN  /\ Len(in[s]) < ShardCap
        /\ in' = [in EXCEPT ![s] = Append(@, [kind |-> "snippet", event |-> r[2], dev |-> r[3]])]
        /\ todo' = todo \ {r}
        /\ asked' = [asked EXCEPT ![<<r[2], r[3]>>] = @ + 1]
        /\ UNCHANGED <<out, running, engIn, jobs, captured, made, forgot, cancelled, batches>>

\* captureSnippets: a shard is asked for the next waveform: there is room, or none until the time
\* is over.
Ask ==
  \E r \in todo :
    LET s == shardFor[r[3]]
    IN  /\ in' = IF Len(in[s]) < ShardCap
                   THEN [in EXCEPT ![s] = Append(@, [kind |-> "snippet", event |-> r[2], dev |-> r[3]])]
                   ELSE in
        /\ todo' = todo \ {r}
        /\ asked' = [asked EXCEPT ![<<r[2], r[3]>>] = @ + 1]
        /\ UNCHANGED <<out, running, engIn, jobs, captured, made, forgot, cancelled, batches>>

\* The server stops; the jobs that are left are lost.
EngReturn ==
  /\ AtSelect /\ cancelled
  /\ running' = running \ {Engine}
  /\ UNCHANGED <<shardVars, engIn, jobVars, cancelled, batches>>

(***************************************************************************)
(* Shutdown, which then waits for the goroutines.                          *)
(***************************************************************************)
Cancel ==
  /\ ~cancelled /\ cancelled' = TRUE
  /\ UNCHANGED <<shardVars, running, engIn, jobVars, batches>>

Init ==
  /\ in = [s \in Shard |-> <<>>] /\ out = [s \in Shard |-> 0]
  /\ running = Shard \cup {Engine} /\ engIn = 0
  /\ jobs = {} /\ captured = {} /\ todo = {} /\ cancelled = FALSE
  /\ batches = 0 /\ made = 0 /\ forgot = 0 /\ asked = [r \in Event \X Dev |-> 0]

Next ==
  \/ \E s \in Shard : Receive(s) \/ Take(s) \/ Send(s) \/ Return(s)
  \/ EngTake \/ Tick \/ Ask \/ EngReturn
  \/ Cancel

\* Every goroutine goes on, and so do the timers of those that wait; whether a batch comes or the
\* server is stopped is up to others.
Fairness ==
  /\ \A s \in Shard : WF_vars(Take(s)) /\ WF_vars(Send(s)) /\ WF_vars(Return(s))
  /\ WF_vars(EngTake) /\ WF_vars(Ask) /\ WF_vars(EngReturn)

Spec == Init /\ [][Next]_vars /\ Fairness

(***************************************************************************)
(* Properties.                                                             *)
(***************************************************************************)
TypeOK ==
  /\ \A s \in Shard : Len(in[s]) <= ShardCap /\ out[s] \in 0..MaxOut
  /\ running \subseteq Shard \cup {Engine} /\ engIn \in 0..EngCap
  /\ \A j \in jobs : j.id \in 1..made /\ j.event \in Event /\ j.devs \subseteq Dev
  /\ captured \subseteq Event /\ Cardinality(captured) <= CapturedMax
  /\ made \in 0..MaxJobs /\ batches \in 0..MaxBatches /\ cancelled \in BOOLEAN

\* However often an event is updated, a phone is asked for its waveform once, and again only after
\* the loop forgot what it had captured (engineLoop).
AskedOnce == \A r \in Event \X Dev : asked[r] <= 1 + forgot

\* An event that is marked as captured waits for its waveforms, or they are being asked for, or
\* were: a job is not lost to another that is due before it (engineLoop).
WaveformsKept ==
  \A e \in captured :
    \/ \E j \in jobs : j.event = e
    \/ \E r \in todo : r[2] = e
    \/ \E d \in Dev : asked[<<e, d>>] > 0

\* However full the channels are, and even when the shards have stopped, the engine comes back from
\* asking to its ticks (submit, sendEng, captureSnippets).
EngineReturns == todo # {} ~> todo = {}

\* Once the server is stopped every goroutine returns, so that Shutdown does, though each may be
\* waiting for one that has returned before (shard.run, engineLoop, Shutdown).
ShutdownEnds == cancelled ~> running = {}
================================================================================
