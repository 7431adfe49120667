--------------------------------- MODULE MCEnds ---------------------------------
(***************************************************************************)
(* What must come to an end in the server, checked together.  A run is     *)
(* about one of:                                                           *)
(* - one phone that opens two connections, from two addresses (it changes  *)
(*   from Wi-Fi to the mobile network);                                    *)
(* - a phone with two connections that deletes itself;                     *)
(* - the engine and its shards ("pipeline"), and again with room to        *)
(*   remember another number of events ("jobs").                           *)
(* v1, v2, ... are the variables of it, in the order that its module       *)
(* declares them; what it does not need stays 0.                           *)
(***************************************************************************)
EXTENDS Naturals, FiniteSets, TLC

CONSTANTS
  c1, c2, d1, d2, n1, n2, h1, h2, Absent,
  Shards, Phones, Events, \* of the engine and its shards
  shardFor,               \* the shard of each of these phones
  ShardCap, EngCap,       \* capacities of their channels
  CapturedMax, AllEvents, \* how many events the engine remembers in "pipeline", and in "jobs"
  MaxBatches, FewBatches, \* bounds: batches in "pipeline", and in "jobs"
  MaxOut, MaxJobs         \* bounds: picks and ends of a batch, jobs for waveforms

\* A value for shardFor: a shard for each phone.
MCShardFor == d1 :> h1 @@ d2 :> h2

VARIABLES topic, v1, v2, v3, v4, v5, v6, v7, v8, v9, v10, v11, v12, v13, v14, v15

endsVars == <<topic, v1, v2, v3, v4, v5, v6, v7, v8, v9, v10, v11, v12, v13, v14, v15>>

Ig == INSTANCE Ingest WITH
  Conn <- {c1, c2}, Device <- {d1}, Net <- {n1, n2}, None <- Absent,
  DeviceOf <- [c \in {c1, c2} |-> d1], NetOf <- c1 :> n1 @@ c2 :> n2,
  Offers <- [c \in {c1, c2} |-> {<<0, 1>>}], Movers <- {c1},
  MaxConnsPerIP <- 1, QueueCap <- 1, MaxTime <- 1,
  phase <- v1, ended <- v2, sessions <- v3, ipConns <- v4, lastSeq <- v5, lastT <- v6,
  queue <- v7, blocked <- v8, owner <- v9, place <- v10, unsaved <- v11, fed <- v12,
  batches <- v13, saved <- v14, server <- v15

Er == INSTANCE Erasure WITH
  Conn <- {c1, c2}, None <- Absent, QueueCap <- 1, WritesCap <- 1, RecCap <- 1,
  row <- v1, phase <- v2, closed <- v3, current <- v4, queue <- v5, owner <- v6, night <- v7,
  writes <- v8, tables <- v9, entries <- v10, ctl <- v11, file <- v12, del <- v13, idle <- v14

Pi == INSTANCE Pipeline WITH
  Shard <- Shards, Dev <- Phones, Event <- Events,
  in <- v1, out <- v2, running <- v3, engIn <- v4, jobs <- v5, captured <- v6, todo <- v7,
  cancelled <- v8, batches <- v9, made <- v10, forgot <- v11, asked <- v12

Jo == INSTANCE Pipeline WITH
  Shard <- Shards, Dev <- Phones, Event <- Events,
  CapturedMax <- AllEvents, MaxBatches <- FewBatches,
  in <- v1, out <- v2, running <- v3, engIn <- v4, jobs <- v5, captured <- v6, todo <- v7,
  cancelled <- v8, batches <- v9, made <- v10, forgot <- v11, asked <- v12

ASSUME EndsAssumption ==
  /\ Er!ErasureAssumption /\ Pi!PipelineAssumption /\ Jo!PipelineAssumption
  /\ IsFiniteSet(Phones) /\ IsFiniteSet(Events)

(***************************************************************************)
(* The specification.                                                      *)
(***************************************************************************)
EndsInit ==
  \/ topic = "pair" /\ Ig!Init
  \/ topic = "erasure" /\ Er!Init /\ v15 = 0
  \/ topic = "pipeline" /\ Pi!Init /\ v13 = 0 /\ v14 = 0 /\ v15 = 0
  \/ topic = "jobs" /\ Jo!Init /\ v13 = 0 /\ v14 = 0 /\ v15 = 0

\* A step of what the run is about.
OnPair     == topic = "pair" /\ UNCHANGED <<topic>>
OnErasure  == topic = "erasure" /\ UNCHANGED <<topic, v15>>
OnPipeline == topic = "pipeline" /\ UNCHANGED <<topic, v13, v14, v15>>
OnJobs     == topic = "jobs" /\ UNCHANGED <<topic, v13, v14, v15>>

EndsNext ==
  \/ OnPair /\ Ig!Next
  \/ OnErasure /\ Er!Next
  \/ OnPipeline /\ Pi!Next
  \/ OnJobs /\ Jo!Next

\* The goroutines that are not waiting for a phone run, as each module says.
EndsFairness ==
  /\ \A c \in {c1, c2} :
       /\ WF_endsVars(OnPair /\ (Ig!HelloAccepted(c) \/ Ig!HelloRefused(c)))
       /\ WF_endsVars(OnPair /\ Ig!Register(c)) /\ WF_endsVars(OnPair /\ Ig!SubmitOpen(c))
       /\ WF_endsVars(OnPair /\ v2[c] /\ Ig!StopReading(c)) /\ WF_endsVars(OnPair /\ Ig!Unlist(c))
       /\ WF_endsVars(OnPair /\ Ig!SubmitClose(c)) /\ WF_endsVars(OnPair /\ Ig!Return(c))
       /\ WF_endsVars(OnErasure /\ c \in v3 /\ Er!Leave(c))
  /\ WF_endsVars(OnErasure /\ Er!Handle) /\ WF_endsVars(OnErasure /\ Er!Write)
  /\ WF_endsVars(OnErasure /\ Er!Record) /\ WF_endsVars(OnErasure /\ Er!SaveTick)
  /\ \A h \in Shards :
       /\ WF_endsVars(OnPipeline /\ Pi!Take(h)) /\ WF_endsVars(OnPipeline /\ Pi!Send(h))
       /\ WF_endsVars(OnPipeline /\ Pi!Return(h))
  /\ WF_endsVars(OnPipeline /\ Pi!EngTake) /\ WF_endsVars(OnPipeline /\ Pi!Ask)
  /\ WF_endsVars(OnPipeline /\ Pi!EngReturn)

EndsSpec == EndsInit /\ [][EndsNext]_endsVars /\ EndsFairness

(***************************************************************************)
(* Properties, each said and explained in its own module.                  *)
(***************************************************************************)
\* A closed session gives its address slot back: none stays closed and not returned (Ingest).
HandlerReturns ==
  []<>(topic = "pair" => \A c \in {c1, c2} : v2[c] => v1[c] = "done")

\* The stream of a phone that is deleted ends, and nothing of the phone is left if nothing was
\* under way (Erasure; Deleted is for ever).
PhoneIsGone ==
  /\ [](topic = "erasure" => Er!IdleIsGone)
  /\ <>[](topic = "erasure" /\ Er!Deleted => ~Er!UnderWay)

\* The engine comes back from asking the shards, and every goroutine returns at shutdown
\* (Pipeline; the server stops for ever).
NobodyStuck ==
  /\ []<>(topic = "pipeline" => v7 = {})
  /\ []<>(topic = "pipeline" /\ v8 => v3 = {})

\* A phone is asked for its waveform of an event once, and no job for waveforms is lost (Pipeline).
WaveformsAsked ==
  /\ topic = "pipeline" => Pi!AskedOnce /\ Pi!WaveformsKept
  /\ topic = "jobs" => Jo!AskedOnce /\ Jo!WaveformsKept
===============================================================================
