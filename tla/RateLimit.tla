------------------------------- MODULE RateLimit -------------------------------
(***************************************************************************)
(* The token bucket of one client (internal/ratelimit/ratelimit.go), which *)
(* the server keeps for its requests, its enrolments and its surveys       *)
(* (internal/server/server.go, survey.go).  A request reads the clock and  *)
(* takes the lock afterwards, so that requests reach the bucket in another *)
(* order than their times; a sweep drops a bucket that was not used.       *)
(***************************************************************************)
EXTENDS Integers, FiniteSets

CONSTANTS
  Rate,      \* tokens that come in a unit of time
  Burst,     \* tokens that a bucket holds
  StaleTTL,  \* staleBucketTTL, which is also the time between two sweeps
  Handlers,  \* requests that may be in the handler at once
  End        \* bound: when time stops

\* Assumed of the constants by whoever instantiates the module.
RateLimitAssumption ==
  /\ Rate \in Nat /\ Burst \in Nat \ {0} /\ StaleTTL \in Nat \ {0} /\ End \in Nat
  /\ 0 \notin Handlers

\* Whether a bucket is full again before it can be dropped; one that is not is lost with its debt.
RefillsInTime == Burst <= Rate * (StaleTTL - 1)

VARIABLES
  now,
  bucket,   \* tokens and lastSeen, or NoBucket
  read,     \* the time that each handler read, or -1
  tick,     \* the tick of the sweep's ticker that was not served yet, or -1
  allowed,  \* history: the requests that were allowed: each with its time, and the how manieth of it
  refused   \* history: of what time was the request that was just refused, or -1

vars == <<now, bucket, read, tick, allowed, refused>>

NoBucket  == [tokens |-> 0, seen |-> -1]

\* How many requests of a span of time were let through.
Served(a, b) == Cardinality({r \in allowed : r[1] \in a..b})

Least(a, b) == IF a < b THEN a ELSE b

\* Time passes, and a request that has read the clock takes the lock within a unit of it; the
\* ticker has room for one tick.
Pass ==
  /\ now < End /\ now' = now + 1
  /\ \A h \in Handlers : read[h] \in {-1, now}
  /\ tick' = IF tick < 0 /\ now' % StaleTTL = 0 THEN now' ELSE tick
  /\ refused' = -1
  /\ UNCHANGED <<bucket, read, allowed>>

\* Allow, up to the lock.
Arrive(h) ==
  /\ read[h] < 0
  /\ read' = [read EXCEPT ![h] = now]
  /\ refused' = -1
  /\ UNCHANGED <<now, bucket, tick, allowed>>

MutantRefilled(b, t) == b.tokens + Rate * (t - b.seen)

\* What a bucket holds at the time that a request read, which may be before lastSeen.
Refilled(b, t) == Least(Burst, b.tokens + Rate * (t - b.seen))

\* A request is let through, and pays.
Take(h, tokens) ==
  /\ bucket' = [tokens |-> tokens - 1, seen |-> read[h]]
  /\ allowed' = allowed \cup {<<read[h], Served(read[h], read[h]) + 1>>}
  /\ refused' = -1

MutantRefuse(h, tokens) ==
  /\ bucket' = [tokens |-> tokens - 1, seen |-> read[h]]
  /\ refused' = read[h]
  /\ UNCHANGED allowed

Refuse(h, tokens) ==
  /\ bucket' = [tokens |-> tokens, seen |-> read[h]]
  /\ refused' = read[h]
  /\ UNCHANGED allowed

\* Allow, under the lock.
Allow(h) ==
  /\ read[h] >= 0
  /\ IF bucket = NoBucket THEN Take(h, Burst)
     ELSE LET tokens == Refilled(bucket, read[h])
          IN  IF tokens < 1 THEN Refuse(h, tokens) ELSE Take(h, tokens)
  /\ read' = [read EXCEPT ![h] = -1]
  /\ UNCHANGED <<now, tick>>

\* Sweep, with the time of the tick.
Sweep ==
  /\ tick >= 0 /\ tick' = -1
  /\ bucket' = IF bucket # NoBucket /\ tick - bucket.seen > StaleTTL THEN NoBucket ELSE bucket
  /\ refused' = -1
  /\ UNCHANGED <<now, read, allowed>>

Init ==
  /\ now = 0 /\ bucket = NoBucket /\ tick = -1 /\ refused = -1
  /\ read = [h \in Handlers |-> -1] /\ allowed = {}

Next == Pass \/ Sweep \/ \E h \in Handlers : Arrive(h) \/ Allow(h)

Spec == Init /\ [][Next]_vars

(***************************************************************************)
(* Properties.                                                             *)
(***************************************************************************)
TypeOK ==
  /\ now \in 0..End /\ tick \in -1..End /\ refused \in -1..End
  /\ bucket = NoBucket \/ (bucket.tokens <= Burst /\ bucket.seen \in 0..now)
  /\ read \in [Handlers -> -1..End] /\ allowed \subseteq (0..End) \X (Nat \ {0})

\* In any span of time no more requests get through than the burst and what the rate adds to
\* it: "then the client must wait for tokens to refill", in whatever order the requests reach
\* the bucket and whenever it was swept (Allow, Sweep).
BudgetKept == \A a \in 0..End : \A b \in a..End : Served(a, b) <= Burst + Rate * (b - a)

\* A request that no later one has overtaken is refused only if the burst, and what came since,
\* was used up from a time when the bucket was full, by requests that may have read the clock a
\* unit before: being refused, or overtaken, costs nothing (Allow).
RefusedOnlyIfSpent ==
  refused >= 0 /\ Served(refused + 1, End) = 0 =>
    \E a \in 0..refused : Served(a - 1, now) + 1 > Burst + Rate * (refused - a)
===============================================================================
