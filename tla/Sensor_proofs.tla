----------------------------- MODULE Sensor_proofs -----------------------------
(***************************************************************************)
(* Proofs about Sensor, for any devices and bounds: the types, that the    *)
(* server and the night log get the seconds of a phone in order and no     *)
(* second twice, and that what the page says of itself is so.              *)
(***************************************************************************)
EXTENDS Sensor, TLAPS, FiniteSetTheorems, SequenceTheorems

-----------------------------------------------------------------------------
(* The inductive invariant: what holds of one client.                      *)

Message == [kind : {"hello", "sync", "batch", "bye"}, seq : Nat, sec : Nat]
Answer  == {"welcome", "sync", "auth", "location"}

(* A client that is active has, or had, a socket.                          *)
Life(r) ==
  /\ r.active <=> r.ws # "none"
  /\ r.active <=> r.phase \notin {"idle", "stopped"}
  /\ r.phase = "error" => r.area = "bad"

Wake(r) == (r.wake => r.locks > 0) /\ (r.flag => r.locks > 0)

(* The server answers nothing before the hello, and a client whose place   *)
(* it refuses nothing but that: this one never sets its clock, and so      *)
(* never sends a batch.                                                    *)
Talk(r) ==
  /\ r.srv = "none" /\ r.ws = "open" => r.up # <<>>
  /\ r.srv = "none" /\ r.up # <<>> => Head(r.up).kind = "hello"
  /\ \A k \in DOMAIN r.down : r.down[k] = "location" => r.area = "bad"
  /\ r.area = "bad" => /\ r.srv # "serving" /\ ~r.clock
                       /\ \A k \in DOMAIN r.down : r.down[k] # "sync"
                       /\ \A k \in DOMAIN r.up : r.up[k].kind # "batch"
  /\ r.phase = "idle" => r.up = <<>> /\ r.queue = <<>> /\ ~r.clock

(* At second n, batches on the way, and behind them the seconds of the     *)
(* queue, are in order.                                                    *)
Line(r, n) ==
  /\ \A k, l \in DOMAIN r.up : k < l /\ r.up[k].kind = "batch" /\ r.up[l].kind = "batch" =>
       r.up[k].seq < r.up[l].seq /\ r.up[k].sec < r.up[l].sec
  /\ \A k \in DOMAIN r.up : r.up[k].kind = "batch" =>
       /\ r.up[k].seq <= r.seq /\ r.up[k].sec <= n
       /\ \A i \in DOMAIN r.queue : r.up[k].sec < r.queue[i]
  /\ Rising(r.queue)
  /\ \A i \in DOMAIN r.queue : r.queue[i] <= n

Sound(r, n) ==
  /\ r \in Client /\ Len(r.queue) <= MaxQueue
  /\ Life(r) /\ Wake(r) /\ Talk(r) /\ Line(r, n)

-----------------------------------------------------------------------------
(* What holds of the clients together.                                     *)

(* Of the clients whose place is not refused, only the current one runs.   *)
OneRuns == \A c \in Ids : cl[c].active /\ cl[c].area # "bad" => c = current

(* Seconds that a client has sent, is sending or has yet to send.          *)
Has(r, s)  == \/ \E k \in DOMAIN r.up : r.up[k].kind = "batch" /\ r.up[k].sec = s
              \/ \E i \in DOMAIN r.queue : r.queue[i] = s
Secs(c, s) == Has(cl[c], s) \/ \E i \in DOMAIN got : got[i].from = c /\ got[i].sec = s

(* What the server got of a client comes before what is on the way.        *)
GotFirst ==
  \A i \in DOMAIN got :
    LET r == cl[got[i].from]
    IN  /\ got[i].seq <= r.seq /\ got[i].sec <= now
        /\ r.phase # "idle" /\ r.area # "bad"
        /\ \A k \in DOMAIN r.up : r.up[k].kind = "batch" =>
             got[i].seq < r.up[k].seq /\ got[i].sec < r.up[k].sec
        /\ \A k \in DOMAIN r.queue : got[i].sec < r.queue[k]

(* No second is of two clients.                                            *)
Apart ==
  \A b, c \in Ids : b # c /\ cl[b].area # "bad" /\ cl[c].area # "bad" =>
    \A s \in 0..now : ~ (Secs(b, s) /\ Secs(c, s))

(* A log, and the clients that it follows.                                 *)
LogOK(l, n) == /\ l \in Log /\ Len(l.rows) <= MaxRows /\ Rising(l.rows)
               /\ \A i \in DOMAIN l.rows : l.rows[i] <= n
Logs == /\ LogOK(night, now) /\ LogOK(saved, now)
        /\ attached \subseteq Ids /\ \A b, c \in attached : b = c

(* The request under way, and what it says of its device.                  *)
Requests ==
  /\ request \in [kind : {"none", "enroll", "delete"}, dev : Devices \cup {"none"},
                  stage : {"none", "sent", "answered"}]
  /\ request.kind = "none" => request.stage = "none"
  /\ request.kind = "delete" => request.dev \in Devices
  /\ request.stage = "answered" => request.dev \in Devices
  /\ request.stage = "answered" /\ request.kind = "delete" => registered[request.dev] = "gone"
  /\ request.stage = "answered" /\ request.kind = "enroll" => registered[request.dev] = "live"

Rest ==
  /\ current \in 0..MaxClients /\ visible \in BOOLEAN /\ area \in Areas
  /\ creds \in Devices \cup {"none"} /\ told \subseteq Devices
  /\ registered \in [Devices -> {"unused", "live", "gone"}]
  /\ url \in {"old", "new"} /\ listed \in {"old", "new"}
  /\ fetching \in BOOLEAN /\ recent \in BOOLEAN /\ now \in Nat
  /\ got \in Seq([from : Ids, seq : Nat, sec : Nat])

Clients == cl = [c \in Ids |-> cl[c]] /\ \A c \in Ids : Sound(cl[c], now)

Inv ==
  /\ Clients /\ OneRuns
  /\ GotFirst /\ Apart /\ NumberedInOrder
  /\ Logs /\ Requests /\ Rest
  /\ StreamingIsVisible /\ ToldDeleted

-----------------------------------------------------------------------------
(* Sequences: a function on 1..n is one, and where the elements of longer  *)
(* ones come from.                                                         *)

LEMMA FunctionIsSeq ==
  ASSUME NEW S, NEW n \in Nat, NEW f \in [1..n -> S]
  PROVE  f \in Seq(S) /\ Len(f) = n
<1>1. f \in Seq(S)
  BY SeqDef
<1>2. DOMAIN f = 1..n
  OBVIOUS
<1>3. Len(f) \in Nat /\ DOMAIN f = 1..Len(f)
  BY <1>1, LenProperties
<1>4. 1..n = 1..Len(f) => n = Len(f)
  <2>1. CASE n < Len(f)
    BY <1>2, <1>3, <2>1
  <2>2. CASE Len(f) < n
    BY <1>2, <1>3, <2>2
  <2>3. QED  BY <1>3, <2>1, <2>2
<1>5. QED  BY <1>1, <1>2, <1>3, <1>4

LEMMA Concatenated ==
  ASSUME NEW S, NEW x \in Seq(S), NEW y \in Seq(S)
  PROVE  LET u == x \o y
         IN  /\ u \in Seq(S) /\ Len(u) = Len(x) + Len(y) /\ DOMAIN u = 1..Len(u)
             /\ \A k \in DOMAIN u : \/ k \in DOMAIN x /\ u[k] = x[k]
                                    \/ k > Len(x) /\ k - Len(x) \in DOMAIN y /\ u[k] = y[k - Len(x)]
             /\ x # <<>> => u # <<>> /\ Head(u) = Head(x)
<1> DEFINE u == x \o y
<1>1. /\ Len(x) \in Nat /\ Len(y) \in Nat /\ DOMAIN x = 1..Len(x) /\ DOMAIN y = 1..Len(y)
  BY LenProperties
<1>2. /\ u \in Seq(S) /\ Len(u) = Len(x) + Len(y)
      /\ \A i \in 1..Len(x) + Len(y) : u[i] = IF i <= Len(x) THEN x[i] ELSE y[i - Len(x)]
  BY ConcatProperties
<1> HIDE DEF u
<1>3. DOMAIN u = 1..Len(u)
  BY <1>2, LenProperties
<1>4. ASSUME NEW k \in DOMAIN u
      PROVE  \/ k \in DOMAIN x /\ u[k] = x[k]
             \/ k > Len(x) /\ k - Len(x) \in DOMAIN y /\ u[k] = y[k - Len(x)]
  <2>1. k \in 1..Len(x) + Len(y)
    BY <1>2, <1>3
  <2>2. QED  BY <1>1, <1>2, <2>1
<1>5. x # <<>> => u # <<>> /\ Head(u) = Head(x)
  <2> SUFFICES ASSUME x # <<>> PROVE u # <<>> /\ Head(u) = Head(x)
    OBVIOUS
  <2>1. Len(x) >= 1
    BY <1>1, EmptySeq
  <2>2. 1 \in 1..Len(x) + Len(y) /\ 1 <= Len(x)
    BY <1>1, <2>1
  <2>3. u[1] = x[1] /\ u # <<>>
    BY <1>2, <1>3, <2>2
  <2>4. Head(u) = u[1] /\ Head(x) = x[1]
    BY <1>2, <2>3
  <2>5. QED  BY <2>3, <2>4
<1>6. QED  BY <1>2, <1>3, <1>4, <1>5 DEF u

LEMMA Appended ==
  ASSUME NEW S, NEW x \in Seq(S), NEW e \in S
  PROVE  LET u == Append(x, e)
         IN  /\ u \in Seq(S) /\ Len(u) = Len(x) + 1 /\ DOMAIN u = 1..Len(u) /\ Len(u) \in Nat
             /\ u[Len(u)] = e /\ \A k \in DOMAIN u : k # Len(u) => k \in DOMAIN x /\ u[k] = x[k]
<1> DEFINE u == Append(x, e)
<1>1. Len(x) \in Nat /\ DOMAIN x = 1..Len(x)
  BY LenProperties
<1>2. /\ u \in Seq(S) /\ Len(u) = Len(x) + 1 /\ u[Len(x) + 1] = e
      /\ \A i \in 1..Len(x) : u[i] = x[i]
  BY AppendProperties
<1> HIDE DEF u
<1>3. DOMAIN u = 1..Len(u) /\ Len(u) \in Nat
  BY <1>2, LenProperties
<1>4. ASSUME NEW k \in DOMAIN u, k # Len(u)
      PROVE  k \in DOMAIN x /\ u[k] = x[k]
  <2>1. k \in 1..Len(x)
    BY <1>1, <1>2, <1>3, <1>4
  <2>2. QED  BY <1>1, <1>2, <2>1
<1>5. QED  BY <1>2, <1>3, <1>4 DEF u

-----------------------------------------------------------------------------
(* What a step may do to a client's seconds, of which those of N are new.  *)

Old(r, m)   == \E l \in DOMAIN r.up : r.up[l] = m
Known(r, s) == \E i \in DOMAIN r.queue : r.queue[i] = s

Steps(r, q, N) ==
  /\ r.seq <= q.seq
  /\ \A k \in DOMAIN q.up : q.up[k].kind = "batch" =>
       Old(r, q.up[k]) \/ (r.seq < q.up[k].seq /\ (q.up[k].sec \in N \/ Known(r, q.up[k].sec)))
  /\ \A i \in DOMAIN q.queue : q.queue[i] \in N \/ Known(r, q.queue[i])
  /\ q.phase = "idle" => r.phase = "idle"
  /\ q.area = "bad" => r.area = "bad" \/ r.phase = "idle"
  /\ r.area = "bad" => q.area = "bad" \/ (q.up = <<>> /\ q.queue = <<>>)

LEMMA ClientTypes ==
  ASSUME NEW r \in Client
  PROVE  /\ r.up \in Seq(Message) /\ r.down \in Seq(Answer) /\ r.queue \in Seq(Nat)
         /\ r.seq \in Nat /\ r.locks \in Nat /\ r.asked \in Nat /\ r.retry \in 0..2
         /\ r.phase \in Phases /\ r.area \in Areas /\ r.active \in BOOLEAN /\ r.clock \in BOOLEAN
         /\ r.wake \in BOOLEAN /\ r.flag \in BOOLEAN /\ r.delayed \in BOOLEAN
         /\ r.ws \in {"none", "connecting", "open", "closed"}
         /\ r.srv \in {"none", "serving", "closed"}
         /\ r.dev \in Devices \cup {"none"} /\ r.to \in {"old", "new"}
<1>1. /\ r.up \in Seq(Message) /\ r.down \in Seq(Answer) /\ r.queue \in Seq(Nat)
      /\ r.seq \in Nat /\ r.locks \in Nat /\ r.asked \in Nat /\ r.retry \in 0..2
  BY DEF Client, Message, Answer
<1>2. /\ r.phase \in Phases /\ r.area \in Areas /\ r.active \in BOOLEAN /\ r.clock \in BOOLEAN
      /\ r.wake \in BOOLEAN /\ r.flag \in BOOLEAN /\ r.delayed \in BOOLEAN
  BY DEF Client
<1>3. /\ r.ws \in {"none", "connecting", "open", "closed"}
      /\ r.srv \in {"none", "serving", "closed"}
      /\ r.dev \in Devices \cup {"none"} /\ r.to \in {"old", "new"}
  BY DEF Client
<1>4. QED  BY <1>1, <1>2, <1>3

LEMMA UpTypes ==
  ASSUME NEW r \in Client
  PROVE  /\ DOMAIN r.up = 1..Len(r.up) /\ Len(r.up) \in Nat
         /\ \A k \in DOMAIN r.up : r.up[k] \in Message /\ r.up[k].seq \in Nat /\ r.up[k].sec \in Nat
         /\ DOMAIN r.queue = 1..Len(r.queue) /\ Len(r.queue) \in Nat
         /\ \A i \in DOMAIN r.queue : r.queue[i] \in Nat
<1>1. r.up \in Seq(Message) /\ r.queue \in Seq(Nat)
  BY ClientTypes
<1>2. /\ DOMAIN r.up = 1..Len(r.up) /\ Len(r.up) \in Nat
      /\ DOMAIN r.queue = 1..Len(r.queue) /\ Len(r.queue) \in Nat
  BY <1>1, LenProperties
<1>3. \A k \in DOMAIN r.up : r.up[k] \in Message
  BY <1>1, <1>2, ElementOfSeq
<1>4. \A i \in DOMAIN r.queue : r.queue[i] \in Nat
  BY <1>1, <1>2, ElementOfSeq
<1>5. QED  BY <1>2, <1>3, <1>4 DEF Message

(* Whatever else a step does, if it only adds or takes a message that is   *)
(* no batch, or the first, the order is kept.                              *)
LEMMA SameLine ==
  ASSUME NEW n, NEW r \in Client, NEW q \in Client, Line(r, n),
         q.queue = r.queue, q.seq = r.seq, q.area = r.area, q.phase = "idle" => r.phase = "idle",
         \/ q.up \in {r.up, <<>>}
         \/ \E m \in Message : m.kind # "batch" /\ q.up \in {<<m>>, Append(r.up, m)}
         \/ r.up # <<>> /\ q.up = Tail(r.up)
  PROVE  Line(q, n) /\ Steps(r, q, {})
<1>1. DOMAIN r.up = 1..Len(r.up) /\ Len(r.up) \in Nat /\ r.up \in Seq(Message) /\ r.seq \in Nat
  BY ClientTypes, UpTypes
<1>2. CASE q.up = r.up
  BY <1>1, <1>2 DEF Line, Steps, Old, Known
<1>3. CASE q.up = <<>>
  <2>1. DOMAIN q.up = {}
    BY <1>3
  <2>2. QED  BY <1>1, <2>1 DEF Line, Steps, Old, Known
<1>4. CASE \E m \in Message : m.kind # "batch" /\ q.up = <<m>>
  <2>1. \A k \in DOMAIN q.up : q.up[k].kind # "batch"
    BY <1>4
  <2>2. r.area = "bad" => q.area = "bad"
    OBVIOUS
  <2>3. QED  BY <1>1, <2>1, <2>2 DEF Line, Steps, Old, Known
<1>5. CASE \E m \in Message : m.kind # "batch" /\ q.up = Append(r.up, m)
  <2>1. PICK m \in Message : m.kind # "batch" /\ q.up = Append(r.up, m)
    BY <1>5
  <2>2. /\ Len(q.up) = Len(r.up) + 1 /\ q.up[Len(r.up) + 1] = m
        /\ \A k \in 1..Len(r.up) : q.up[k] = r.up[k]
    BY <1>1, <2>1, AppendProperties
  <2>3. DOMAIN q.up = 1..Len(q.up)
    BY UpTypes
  <2>4. \A k \in DOMAIN q.up : q.up[k].kind = "batch" => k \in DOMAIN r.up /\ q.up[k] = r.up[k]
    BY <1>1, <2>1, <2>2, <2>3
  <2>5. Line(q, n)
    BY <2>4 DEF Line
  <2>6. Steps(r, q, {})
    BY <1>1, <2>4 DEF Steps, Old, Known
  <2>7. QED  BY <2>5, <2>6
<1>6. CASE r.up # <<>> /\ q.up = Tail(r.up)
  <2>1. /\ Len(q.up) = Len(r.up) - 1
        /\ \A k \in 1..Len(q.up) : q.up[k] = r.up[k + 1]
    BY <1>1, <1>6, HeadTailProperties
  <2>2. DOMAIN q.up = 1..Len(q.up) /\ Len(q.up) \in Nat
    BY UpTypes
  <2>3. \A k \in DOMAIN q.up : k + 1 \in DOMAIN r.up /\ q.up[k] = r.up[k + 1]
    BY <1>1, <2>1, <2>2
  <2>4. \A k, l \in DOMAIN q.up : k < l => k + 1 < l + 1
    BY <2>2
  <2>5. Line(q, n)
    <3>1. ASSUME NEW k \in DOMAIN q.up, NEW l \in DOMAIN q.up, k < l,
                 q.up[k].kind = "batch", q.up[l].kind = "batch"
          PROVE  q.up[k].seq < q.up[l].seq /\ q.up[k].sec < q.up[l].sec
      BY <2>3, <2>4, <3>1 DEF Line
    <3>2. QED  BY <2>3, <3>1 DEF Line
  <2>6. Steps(r, q, {})
    BY <1>1, <2>3 DEF Steps, Old, Known
  <2>7. QED  BY <2>5, <2>6
<1>7. QED  BY <1>2, <1>3, <1>4, <1>5, <1>6

(* Steps of the clients keep the server's batches before theirs, and the   *)
(* seconds of clients apart.                                               *)
LEMMA ManySteps ==
  ASSUME Inv, NEW new \in [Ids -> SUBSET Nat],
         now' \in Nat, now <= now', got' = got, cl' = [c \in Ids |-> cl'[c]],
         \A c \in Ids : Sound(cl'[c], now') /\ Steps(cl[c], cl'[c], new[c]),
         \A c \in Ids : \A s \in new[c] : now < s /\ s <= now',
         \A b, c \in Ids : b # c /\ cl'[b].area # "bad" /\ cl'[c].area # "bad" =>
           new[b] \cap new[c] = {}
  PROVE  Clients' /\ GotFirst' /\ Apart' /\ NumberedInOrder'
<1>1. now \in Nat /\ got \in Seq([from : Ids, seq : Nat, sec : Nat])
  BY DEF Inv, Rest
<1>2. \A i \in DOMAIN got : got[i].from \in Ids /\ got[i].seq \in Nat /\ got[i].sec \in Nat
  <2>1. \A i \in DOMAIN got : got[i] \in [from : Ids, seq : Nat, sec : Nat]
    <3>1. DOMAIN got = 1..Len(got)
      BY <1>1, LenProperties
    <3>2. QED  BY <1>1, <3>1, ElementOfSeq
  <2>2. QED  BY <2>1
<1>3. Clients'
  BY DEF Clients
<1>4. \A c \in Ids : cl[c] \in Client /\ cl'[c] \in Client /\ Line(cl[c], now)
  BY DEF Inv, Clients, Sound
<1>5. GotFirst'
  <2> SUFFICES ASSUME NEW i \in DOMAIN got
               PROVE  LET q == cl'[got[i].from]
                      IN  /\ got[i].seq <= q.seq /\ got[i].sec <= now'
                          /\ q.phase # "idle" /\ q.area # "bad"
                          /\ \A k \in DOMAIN q.up : q.up[k].kind = "batch" =>
                               got[i].seq < q.up[k].seq /\ got[i].sec < q.up[k].sec
                          /\ \A k \in DOMAIN q.queue : got[i].sec < q.queue[k]
    BY DEF GotFirst
  <2> DEFINE c == got[i].from
             r == cl[c]
             q == cl'[c]
  <2>1. /\ got[i].seq <= r.seq /\ got[i].sec <= now /\ r.phase # "idle" /\ r.area # "bad"
        /\ \A k \in DOMAIN r.up : r.up[k].kind = "batch" =>
             got[i].seq < r.up[k].seq /\ got[i].sec < r.up[k].sec
        /\ \A k \in DOMAIN r.queue : got[i].sec < r.queue[k]
    BY DEF Inv, GotFirst
  <2>2. c \in Ids /\ got[i].seq \in Nat /\ got[i].sec \in Nat
    BY <1>2
  <2>3. Steps(r, q, new[c]) /\ new[c] \in SUBSET Nat /\ \A s \in new[c] : now < s
    BY <2>2
  <2>4. r \in Client /\ q \in Client
    BY <1>4, <2>2
  <2> HIDE DEF r, q, c
  <2>5. /\ \A k \in DOMAIN q.up : q.up[k].seq \in Nat /\ q.up[k].sec \in Nat
        /\ \A k \in DOMAIN q.queue : q.queue[k] \in Nat
        /\ r.seq \in Nat /\ q.seq \in Nat
    BY <2>4, UpTypes, ClientTypes
  <2>6. ASSUME NEW s \in Nat, s \in new[c] \/ Known(r, s)
        PROVE  got[i].sec < s
    BY <1>1, <2>1, <2>2, <2>3, <2>6 DEF Known
  <2>7. ASSUME NEW k \in DOMAIN q.up, q.up[k].kind = "batch"
        PROVE  got[i].seq < q.up[k].seq /\ got[i].sec < q.up[k].sec
    <3>1. CASE Old(r, q.up[k])
      BY <2>1, <2>7, <3>1 DEF Old
    <3>2. CASE r.seq < q.up[k].seq /\ (q.up[k].sec \in new[c] \/ Known(r, q.up[k].sec))
      BY <2>1, <2>2, <2>5, <2>6, <3>2
    <3>3. QED  BY <2>3, <2>7, <3>1, <3>2 DEF Steps
  <2>8. \A k \in DOMAIN q.queue : got[i].sec < q.queue[k]
    BY <2>3, <2>5, <2>6 DEF Steps
  <2>9. q.phase # "idle" /\ q.area # "bad"
    BY <2>1, <2>3 DEF Steps
  <2>10. got[i].seq <= q.seq /\ got[i].sec <= now'
    BY <1>1, <2>1, <2>2, <2>3, <2>5 DEF Steps
  <2>11. QED  BY <2>7, <2>8, <2>9, <2>10 DEF q, c
<1>6. ASSUME NEW c \in Ids, NEW s \in Nat, cl'[c].area # "bad", Secs(c, s)'
      PROVE  s \in new[c] \/ (Secs(c, s) /\ cl[c].area # "bad" /\ s <= now)
  <2> DEFINE r == cl[c]
             q == cl'[c]
  <2>1. Steps(r, q, new[c]) /\ Line(r, now) /\ r \in Client
    BY <1>4
  <2>2. CASE \E i \in DOMAIN got : got[i].from = c /\ got[i].sec = s
    BY <2>2 DEF Inv, GotFirst, Secs
  <2>3. CASE \E k \in DOMAIN q.up : q.up[k].kind = "batch" /\ q.up[k].sec = s
    <3>1. PICK k \in DOMAIN q.up : q.up[k].kind = "batch" /\ q.up[k].sec = s
      BY <2>3
    <3>2. r.area # "bad"
      <4>1. q.up # <<>>
        BY <3>1
      <4>2. QED  BY <1>6, <2>1, <4>1 DEF Steps
    <3>3. CASE Old(r, q.up[k])
      BY <2>1, <3>1, <3>2, <3>3 DEF Old, Secs, Has, Line
    <3>4. CASE Known(r, s)
      BY <2>1, <3>2, <3>4 DEF Known, Secs, Has, Line
    <3>5. QED  BY <2>1, <3>1, <3>3, <3>4 DEF Steps
  <2>4. CASE \E i \in DOMAIN q.queue : q.queue[i] = s
    <3>1. PICK i \in DOMAIN q.queue : q.queue[i] = s
      BY <2>4
    <3>2. r.area # "bad"
      <4>1. q.queue # <<>>
        BY <3>1
      <4>2. QED  BY <1>6, <2>1, <4>1 DEF Steps
    <3>3. CASE Known(r, s)
      BY <2>1, <3>2, <3>3 DEF Known, Secs, Has, Line
    <3>4. QED  BY <2>1, <3>1, <3>3 DEF Steps
  <2>5. QED  BY <1>6, <2>2, <2>3, <2>4 DEF Secs, Has
<1>7. Apart'
  <2> SUFFICES ASSUME NEW b \in Ids, NEW c \in Ids, b # c,
                      cl'[b].area # "bad", cl'[c].area # "bad", NEW s \in 0..now',
                      Secs(b, s)', Secs(c, s)'
               PROVE  FALSE
    BY DEF Apart
  <2>1. s \in Nat
    BY <1>1
  <2>2. s \in new[b] \/ (Secs(b, s) /\ cl[b].area # "bad" /\ s <= now)
    BY <1>6, <2>1
  <2>3. s \in new[c] \/ (Secs(c, s) /\ cl[c].area # "bad" /\ s <= now)
    BY <1>6, <2>1
  <2>4. s \in new[b] \/ s \in new[c] => now < s
    OBVIOUS
  <2>5. CASE s \in new[b] /\ s \in new[c]
    BY <2>5
  <2>6. CASE ~ (s \in new[b]) /\ ~ (s \in new[c])
    <3>1. s \in 0..now
      BY <1>1, <2>1, <2>2, <2>6
    <3>2. QED  BY <2>2, <2>3, <2>6, <3>1 DEF Inv, Apart
  <2>7. QED  BY <1>1, <2>1, <2>2, <2>3, <2>4, <2>5, <2>6
<1>8. NumberedInOrder'
  BY DEF Inv, NumberedInOrder
<1>9. QED  BY <1>3, <1>5, <1>7, <1>8

-----------------------------------------------------------------------------
(* What the parts of the program do to a client.                           *)

LEMMA FromFields ==
  ASSUME NEW n, NEW r, Sound(r, n), NEW q \in Client,
         q.queue = r.queue, q.seq = r.seq, q.area = r.area, q.phase = "idle" => r.phase = "idle",
         \/ q.up \in {r.up, <<>>}
         \/ \E m \in Message : m.kind # "batch" /\ q.up \in {<<m>>, Append(r.up, m)}
         \/ r.up # <<>> /\ q.up = Tail(r.up),
         Life(q), Wake(q), Talk(q)
  PROVE  Sound(q, n) /\ Steps(r, q, {})
<1>1. Line(q, n) /\ Steps(r, q, {})
  BY SameLine DEF Sound
<1>2. QED  BY <1>1 DEF Sound

(* Whatever becomes of a client, its place is the same while it is active. *)
Calm(r, q) == /\ Steps(r, q, {})
              /\ q.active => r.active /\ q.area = r.area

LEMMA AskedSound ==
  ASSUME NEW n, NEW r, Sound(r, n), NEW a \in Nat
  PROVE  LET q == [r EXCEPT !.asked = a]
         IN  /\ Sound(q, n) /\ Calm(r, q)
             /\ q.phase = r.phase /\ q.ws = r.ws /\ q.active = r.active /\ q.area = r.area
<1> DEFINE q == [r EXCEPT !.asked = a]
<1>1. r \in Client
  BY DEF Sound
<1>2. q \in Client
  BY <1>1 DEF Client
<1>3. /\ q.phase = r.phase /\ q.area = r.area /\ q.active = r.active /\ q.ws = r.ws
      /\ q.up = r.up /\ q.down = r.down /\ q.srv = r.srv /\ q.clock = r.clock
      /\ q.queue = r.queue /\ q.seq = r.seq
      /\ q.locks = r.locks /\ q.wake = r.wake /\ q.flag = r.flag
  BY <1>1 DEF Client
<1> HIDE DEF q
<1>4. Life(q) /\ Wake(q) /\ Talk(q)
  BY <1>3 DEF Sound, Life, Wake, Talk
<1>5. Sound(q, n) /\ Calm(r, q)
  BY <1>2, <1>3, <1>4, FromFields DEF Calm
<1>6. QED  BY <1>3, <1>5 DEF q

LEMMA AcquireSound ==
  ASSUME NEW n, NEW r, Sound(r, n), NEW vis
  PROVE  LET q == AcquireWake(r, vis)
         IN  /\ Sound(q, n) /\ Calm(r, q)
             /\ q.phase = r.phase /\ q.ws = r.ws /\ q.active = r.active /\ q.area = r.area
<1>1. r \in Client /\ r.asked + 1 \in Nat
  BY ClientTypes DEF Sound
<1>2. Steps(r, r, {}) /\ Calm(r, r)
  <2>1. Line(r, n)
    BY DEF Sound
  <2>2. Steps(r, r, {})
    BY <1>1, <2>1, SameLine
  <2>3. QED  BY <2>2 DEF Calm
<1>3. CASE vis
  BY <1>1, <1>3, AskedSound DEF AcquireWake
<1>4. CASE ~vis
  BY <1>2, <1>4 DEF AcquireWake
<1>5. QED  BY <1>3, <1>4

LEMMA ConnectSound ==
  ASSUME NEW n, NEW r, Sound(r, n), r.active, Rest
  PROVE  LET q == Connect(r)
         IN  Sound(q, n) /\ Calm(r, q) /\ q.phase = r.phase
<1> DEFINE q == Connect(r)
<1>1. r \in Client /\ url \in {"old", "new"} /\ <<>> \in Seq(Message) /\ <<>> \in Seq(Answer)
  BY DEF Sound, Rest
<1>2. q \in Client
  BY <1>1 DEF Client, Connect, Message, Answer
<1>3. /\ q.phase = r.phase /\ q.area = r.area /\ q.active = r.active /\ q.ws = "connecting"
      /\ q.up = <<>> /\ q.down = <<>> /\ q.srv = "none" /\ q.clock = r.clock
      /\ q.queue = r.queue /\ q.seq = r.seq
      /\ q.locks = r.locks /\ q.wake = r.wake /\ q.flag = r.flag
  BY <1>1 DEF Client, Connect
<1> HIDE DEF q
<1>4. DOMAIN <<>> = {}
  OBVIOUS
<1>5. Life(q) /\ Wake(q) /\ Talk(q)
  BY <1>3, <1>4 DEF Sound, Life, Wake, Talk
<1>6. Sound(q, n) /\ Steps(r, q, {})
  BY <1>2, <1>3, <1>5, FromFields
<1>7. QED  BY <1>3, <1>6 DEF q, Calm

LEMMA StopSound ==
  ASSUME NEW n, NEW r, Sound(r, n)
  PROVE  LET q == Stop(r)
         IN  Sound(q, n) /\ Calm(r, q) /\ q.phase = "stopped"
<1> DEFINE q == Stop(r)
           b == Msg("bye")
           u == IF r.ws = "open" THEN Append(r.up, b) ELSE r.up
           l == IF r.wake THEN r.locks - 1 ELSE r.locks
<1>1. r \in Client /\ r.up \in Seq(Message) /\ r.locks \in Nat
  BY ClientTypes DEF Sound
<1>2. b \in Message /\ b.kind = "bye"
  BY DEF Msg, Message
<1>3. u \in Seq(Message)
  BY <1>1, <1>2, AppendProperties
<1>4. l \in Nat
  BY <1>1 DEF Sound, Wake
<1>5. q = [r EXCEPT !.up = u, !.active = FALSE, !.ws = "none", !.down = <<>>, !.phase = "stopped",
                    !.flag = FALSE, !.locks = l, !.wake = FALSE]
  BY <1>1 DEF Stop, Send, Client
<1> HIDE DEF q, u, l, b
<1>6. q \in Client
  <2>1. <<>> \in Seq(Answer) /\ "stopped" \in Phases
    BY DEF Phases
  <2>2. QED  BY <1>1, <1>3, <1>4, <1>5, <2>1 DEF Client, Message, Answer
<1>7. /\ q.phase = "stopped" /\ q.area = r.area /\ q.active = FALSE /\ q.ws = "none"
      /\ q.up = u /\ q.down = <<>> /\ q.srv = r.srv /\ q.clock = r.clock
      /\ q.queue = r.queue /\ q.seq = r.seq /\ q.wake = FALSE /\ q.flag = FALSE
  BY <1>1, <1>5 DEF Client
<1>8. Life(q) /\ Wake(q)
  BY <1>7 DEF Life, Wake
<1>9. Talk(q)
  <2>1. /\ u # <<>> /\ r.srv = "none" => Head(u).kind = "hello"
        /\ r.area = "bad" => \A k \in DOMAIN u : u[k].kind # "batch"
    <3>1. CASE r.ws = "open"
      <4>1. u = Append(r.up, b)
        BY <3>1 DEF u
      <4>2. Head(u) = IF r.up = <<>> THEN b ELSE Head(r.up)
        BY <1>1, <4>1, HeadTailAppend
      <4>3. \A k \in DOMAIN u : u[k] = b \/ (k \in DOMAIN r.up /\ u[k] = r.up[k])
        <5>1. /\ Len(u) = Len(r.up) + 1 /\ u[Len(r.up) + 1] = b
              /\ \A k \in 1..Len(r.up) : u[k] = r.up[k]
          BY <1>1, <1>2, <4>1, AppendProperties
        <5>2. DOMAIN u = 1..Len(u) /\ DOMAIN r.up = 1..Len(r.up) /\ Len(r.up) \in Nat
          BY <1>1, <1>3, LenProperties
        <5>3. QED  BY <5>1, <5>2
      <4>4. QED  BY <1>2, <3>1, <4>2, <4>3 DEF Sound, Talk
    <3>2. CASE r.ws # "open"
      BY <3>2 DEF u, Sound, Talk
    <3>3. QED  BY <3>1, <3>2
  <2>2. DOMAIN <<>> = {}
    OBVIOUS
  <2>3. QED  BY <1>7, <2>1, <2>2 DEF Sound, Talk
<1>10. Sound(q, n) /\ Steps(r, q, {})
  <2>1. q.up = r.up \/ q.up = Append(r.up, b)
    BY <1>7 DEF u
  <2>2. QED  BY <1>2, <1>6, <1>7, <1>8, <1>9, <2>1, FromFields
<1>11. QED  BY <1>7, <1>10 DEF q, Calm

LEMMA LaterSound ==
  ASSUME NEW n \in Nat, NEW m \in Nat, n <= m, NEW r, Sound(r, n)
  PROVE  Sound(r, m) /\ Steps(r, r, {})
<1>1. r \in Client /\ Line(r, n)
  BY DEF Sound
<1>2. Steps(r, r, {})
  BY <1>1, SameLine
<1>3. /\ \A k \in DOMAIN r.up : r.up[k].sec \in Nat
      /\ \A k \in DOMAIN r.queue : r.queue[k] \in Nat
  BY <1>1, UpTypes
<1>4. \A s \in Nat : s <= n => s <= m
  OBVIOUS
<1>5. Line(r, m)
  BY <1>1, <1>3, <1>4 DEF Line
<1>6. QED  BY <1>2, <1>5 DEF Sound

(* Opened, with the hello on its way.                                      *)
LEMMA OpenedSound ==
  ASSUME NEW n, NEW r, Sound(r, n), r.ws = "connecting"
  PROVE  LET q == [r EXCEPT !.ws = "open", !.up = <<Msg("hello")>>]
         IN  Sound(q, n) /\ Calm(r, q) /\ q.phase = r.phase
<1> DEFINE m == Msg("hello")
           q == [r EXCEPT !.ws = "open", !.up = <<m>>]
<1>1. r \in Client /\ m \in Message /\ m.kind = "hello"
  BY DEF Sound, Msg, Message
<1> HIDE DEF m
<1>2. <<m>> \in Seq(Message) /\ Head(<<m>>) = m /\ DOMAIN <<m>> = {1} /\ <<m>>[1] = m /\ <<m>> # <<>>
  BY <1>1
<1>3. q \in Client
  BY <1>1, <1>2 DEF Client, Message
<1>4. /\ q.phase = r.phase /\ q.area = r.area /\ q.active = r.active /\ q.ws = "open"
      /\ q.up = <<m>> /\ q.down = r.down /\ q.srv = r.srv /\ q.clock = r.clock
      /\ q.queue = r.queue /\ q.seq = r.seq
      /\ q.locks = r.locks /\ q.wake = r.wake /\ q.flag = r.flag
  BY <1>1 DEF Client
<1> HIDE DEF q
<1>5. Life(q) /\ Wake(q)
  BY <1>4 DEF Sound, Life, Wake
<1>6. Talk(q)
  BY <1>1, <1>2, <1>4 DEF Sound, Life, Talk
<1>7. Sound(q, n) /\ Steps(r, q, {})
  BY <1>1, <1>3, <1>4, <1>5, <1>6, FromFields
<1>8. QED  BY <1>4, <1>7 DEF q, m, Calm

(* Closed: nothing is on the way any more.                                 *)
Closed(r, p, t, d) == [r EXCEPT !.ws = "closed", !.up = <<>>, !.down = <<>>, !.srv = "none",
                                !.phase = p, !.retry = t, !.delayed = d]

LEMMA ClosedSound ==
  ASSUME NEW n, NEW r, Sound(r, n), r.ws \in {"connecting", "open"}, NEW t \in 0..2, NEW d \in BOOLEAN,
         NEW p \in Phases, p \in {r.phase, "reconnecting"},
         NEW q, q = Closed(r, p, t, d)
  PROVE  Sound(q, n) /\ Calm(r, q) /\ q.phase = p
<1>1. r \in Client /\ <<>> \in Seq(Message) /\ <<>> \in Seq(Answer) /\ DOMAIN <<>> = {}
  BY DEF Sound
<1>2. q \in Client
  BY <1>1 DEF Client, Message, Answer, Closed
<1>3. /\ q.phase = p /\ q.area = r.area /\ q.active = r.active /\ q.ws = "closed"
      /\ q.up = <<>> /\ q.down = <<>> /\ q.srv = "none" /\ q.clock = r.clock
      /\ q.queue = r.queue /\ q.seq = r.seq
      /\ q.locks = r.locks /\ q.wake = r.wake /\ q.flag = r.flag
  BY <1>1 DEF Client, Closed
<1>4. r.active /\ p \notin {"idle", "stopped"} /\ (p = "error" => r.area = "bad")
  BY DEF Sound, Life
<1>5. Life(q) /\ Wake(q) /\ Talk(q)
  BY <1>1, <1>3, <1>4 DEF Sound, Life, Wake, Talk
<1>6. Sound(q, n) /\ Steps(r, q, {})
  BY <1>2, <1>3, <1>4, <1>5, FromFields
<1>7. QED  BY <1>3, <1>6 DEF Calm

LEMMA DelayedSound ==
  ASSUME NEW n, NEW r, Sound(r, n), NEW d \in BOOLEAN
  PROVE  LET q == [r EXCEPT !.delayed = d]
         IN  Sound(q, n) /\ Calm(r, q) /\ q.phase = r.phase
<1> DEFINE q == [r EXCEPT !.delayed = d]
<1>1. r \in Client
  BY DEF Sound
<1>2. q \in Client
  BY <1>1 DEF Client
<1>3. /\ q.phase = r.phase /\ q.area = r.area /\ q.active = r.active /\ q.ws = r.ws
      /\ q.up = r.up /\ q.down = r.down /\ q.srv = r.srv /\ q.clock = r.clock
      /\ q.queue = r.queue /\ q.seq = r.seq
      /\ q.locks = r.locks /\ q.wake = r.wake /\ q.flag = r.flag
  BY <1>1 DEF Client
<1> HIDE DEF q
<1>4. Life(q) /\ Wake(q) /\ Talk(q)
  BY <1>3 DEF Sound, Life, Wake, Talk
<1>5. Sound(q, n) /\ Steps(r, q, {})
  BY <1>2, <1>3, <1>4, FromFields
<1>6. QED  BY <1>3, <1>5 DEF q, Calm

(* A client that is active may have any phase of one that is.              *)
Phased(r, t, p) == [r EXCEPT !.retry = t, !.phase = p]

LEMMA PhaseSound ==
  ASSUME NEW n, NEW r, Sound(r, n), r.active, NEW p \in Phases \ {"idle", "stopped"}, NEW t \in 0..2,
         p = "error" => r.area = "bad", NEW q, q = Phased(r, t, p)
  PROVE  Sound(q, n) /\ Calm(r, q) /\ q.phase = p /\ q.area = r.area
<1>1. r \in Client
  BY DEF Sound
<1>2. q \in Client
  BY <1>1 DEF Client, Phased
<1>3. /\ q.phase = p /\ q.area = r.area /\ q.active = r.active /\ q.ws = r.ws
      /\ q.up = r.up /\ q.down = r.down /\ q.srv = r.srv /\ q.clock = r.clock
      /\ q.queue = r.queue /\ q.seq = r.seq
      /\ q.locks = r.locks /\ q.wake = r.wake /\ q.flag = r.flag
  BY <1>1 DEF Client, Phased
<1>4. Life(q) /\ Wake(q) /\ Talk(q)
  BY <1>3 DEF Sound, Life, Wake, Talk
<1>5. Sound(q, n) /\ Steps(r, q, {})
  BY <1>2, <1>3, <1>4, FromFields
<1>6. QED  BY <1>3, <1>5 DEF Calm

LEMMA TailSound ==
  ASSUME NEW n, NEW r, Sound(r, n), r.down # <<>>
  PROVE  LET q == [r EXCEPT !.down = Tail(@)]
         IN  /\ Sound(q, n) /\ Calm(r, q)
             /\ q.phase = r.phase /\ q.ws = r.ws /\ q.active = r.active /\ q.area = r.area
             /\ Head(r.down) \in Answer
             /\ Head(r.down) = "sync" => r.area # "bad"
             /\ Head(r.down) = "location" => r.area = "bad"
<1> DEFINE d == Tail(r.down)
           q == [r EXCEPT !.down = d]
<1>1. r \in Client /\ r.down \in Seq(Answer) /\ DOMAIN r.down = 1..Len(r.down) /\ Len(r.down) \in Nat
  BY ClientTypes, LenProperties DEF Sound
<1>2. /\ d \in Seq(Answer) /\ Len(d) = Len(r.down) - 1
      /\ \A k \in 1..Len(d) : d[k] = r.down[k + 1]
      /\ Head(r.down) = r.down[1] /\ Head(r.down) \in Answer
  BY <1>1, HeadTailProperties
<1>3. DOMAIN d = 1..Len(d)
  BY <1>2, LenProperties
<1>4. \A k \in DOMAIN d : k + 1 \in DOMAIN r.down /\ d[k] = r.down[k + 1]
  BY <1>1, <1>2, <1>3
<1>5. 1 \in DOMAIN r.down
  BY <1>1, EmptySeq
<1> HIDE DEF d
<1>6. q \in Client
  BY <1>1, <1>2 DEF Client, Answer
<1>7. /\ q.phase = r.phase /\ q.area = r.area /\ q.active = r.active /\ q.ws = r.ws
      /\ q.up = r.up /\ q.down = d /\ q.srv = r.srv /\ q.clock = r.clock
      /\ q.queue = r.queue /\ q.seq = r.seq
      /\ q.locks = r.locks /\ q.wake = r.wake /\ q.flag = r.flag
  BY <1>1 DEF Client
<1> HIDE DEF q
<1>8. Life(q) /\ Wake(q) /\ Talk(q)
  BY <1>4, <1>7 DEF Sound, Life, Wake, Talk
<1>9. Sound(q, n) /\ Steps(r, q, {})
  BY <1>6, <1>7, <1>8, FromFields
<1>10. /\ Head(r.down) = "sync" => r.area # "bad"
       /\ Head(r.down) = "location" => r.area = "bad"
  BY <1>2, <1>5 DEF Sound, Talk
<1>11. QED  BY <1>2, <1>7, <1>9, <1>10 DEF q, d, Calm

(* The clock is set by an answer of a server that did not refuse.          *)
LEMMA ClockSound ==
  ASSUME NEW n, NEW r, Sound(r, n), r.active, r.area # "bad"
  PROVE  LET q == [r EXCEPT !.clock = TRUE]
         IN  Sound(q, n) /\ Calm(r, q) /\ q.phase = r.phase /\ q.area = r.area /\ q.active = r.active
<1> DEFINE q == [r EXCEPT !.clock = TRUE]
<1>1. r \in Client
  BY DEF Sound
<1>2. q \in Client
  BY <1>1 DEF Client
<1>3. /\ q.phase = r.phase /\ q.area = r.area /\ q.active = r.active /\ q.ws = r.ws
      /\ q.up = r.up /\ q.down = r.down /\ q.srv = r.srv
      /\ q.queue = r.queue /\ q.seq = r.seq
      /\ q.locks = r.locks /\ q.wake = r.wake /\ q.flag = r.flag
  BY <1>1 DEF Client
<1> HIDE DEF q
<1>4. Life(q) /\ Wake(q) /\ Talk(q)
  BY <1>3 DEF Sound, Life, Wake, Talk
<1>5. Sound(q, n) /\ Steps(r, q, {})
  BY <1>2, <1>3, <1>4, FromFields
<1>6. QED  BY <1>3, <1>5 DEF q, Calm

(* sync asks for the time, after the hello was answered.                   *)
LEMMA SyncSound ==
  ASSUME NEW n, NEW r, Sound(r, n), r.ws = "open", r.up = <<>>
  PROVE  LET q == Send(r, Msg("sync"))
         IN  Sound(q, n) /\ Calm(r, q) /\ q.phase = r.phase
<1> DEFINE m == Msg("sync")
           u == Append(r.up, m)
           q == [r EXCEPT !.up = u]
<1>1. r \in Client /\ m \in Message /\ m.kind = "sync"
  BY DEF Sound, Msg, Message
<1> HIDE DEF m
<1>2. u = <<m>> /\ u \in Seq(Message) /\ DOMAIN u = {1} /\ u[1] = m
  BY <1>1
<1> HIDE DEF u
<1>3. q \in Client
  BY <1>1, <1>2 DEF Client, Message
<1>4. /\ q.phase = r.phase /\ q.area = r.area /\ q.active = r.active /\ q.ws = r.ws
      /\ q.up = u /\ q.down = r.down /\ q.srv = r.srv /\ q.clock = r.clock
      /\ q.queue = r.queue /\ q.seq = r.seq
      /\ q.locks = r.locks /\ q.wake = r.wake /\ q.flag = r.flag
  BY <1>1 DEF Client
<1>5. q = Send(r, Msg("sync"))
  BY DEF q, u, m, Send
<1> HIDE DEF q
<1>6. r.srv # "none" /\ r.phase # "idle"
  BY DEF Sound, Talk, Life
<1>7. Life(q) /\ Wake(q) /\ Talk(q)
  BY <1>1, <1>2, <1>4, <1>6 DEF Sound, Life, Wake, Talk
<1>8. Sound(q, n) /\ Steps(r, q, {})
  BY <1>1, <1>2, <1>3, <1>4, <1>7, FromFields
<1>9. QED  BY <1>4, <1>5, <1>8 DEF Calm

(* The screen's locks.                                                     *)
Locked(r, a, l, w, f) == [r EXCEPT !.asked = a, !.locks = l, !.wake = w, !.flag = f]

LEMMA LocksSound ==
  ASSUME NEW n, NEW r, Sound(r, n), NEW a \in Nat, NEW l \in Nat, NEW w \in BOOLEAN, NEW f \in BOOLEAN,
         w \/ f => l > 0, NEW q, q = Locked(r, a, l, w, f)
  PROVE  /\ Sound(q, n) /\ Calm(r, q)
         /\ q.phase = r.phase /\ q.ws = r.ws /\ q.active = r.active /\ q.area = r.area
<1>1. r \in Client
  BY DEF Sound
<1>2. q \in Client
  BY <1>1 DEF Client, Locked
<1>3. /\ q.phase = r.phase /\ q.area = r.area /\ q.active = r.active /\ q.ws = r.ws
      /\ q.up = r.up /\ q.down = r.down /\ q.srv = r.srv /\ q.clock = r.clock
      /\ q.queue = r.queue /\ q.seq = r.seq
      /\ q.locks = l /\ q.wake = w /\ q.flag = f
  BY <1>1 DEF Client, Locked
<1>4. Life(q) /\ Wake(q) /\ Talk(q)
  BY <1>3 DEF Sound, Life, Wake, Talk
<1>5. Sound(q, n) /\ Steps(r, q, {})
  BY <1>2, <1>3, <1>4, FromFields
<1>6. QED  BY <1>3, <1>5 DEF Calm

(* The server ends a connection.                                           *)
LEMMA EndedSound ==
  ASSUME NEW n, NEW r, Sound(r, n)
  PROVE  LET q == [r EXCEPT !.srv = "closed"]
         IN  Sound(q, n) /\ Calm(r, q) /\ q.phase = r.phase
<1> DEFINE q == [r EXCEPT !.srv = "closed"]
<1>1. r \in Client
  BY DEF Sound
<1>2. q \in Client
  BY <1>1 DEF Client
<1>3. /\ q.phase = r.phase /\ q.area = r.area /\ q.active = r.active /\ q.ws = r.ws
      /\ q.up = r.up /\ q.down = r.down /\ q.srv = "closed" /\ q.clock = r.clock
      /\ q.queue = r.queue /\ q.seq = r.seq
      /\ q.locks = r.locks /\ q.wake = r.wake /\ q.flag = r.flag
  BY <1>1 DEF Client
<1> HIDE DEF q
<1>4. Life(q) /\ Wake(q) /\ Talk(q)
  BY <1>3 DEF Sound, Life, Wake, Talk
<1>5. Sound(q, n) /\ Steps(r, q, {})
  BY <1>2, <1>3, <1>4, FromFields
<1>6. QED  BY <1>3, <1>5 DEF q, Calm

(* drain: the queue follows what is on its way, and takes the numbers from *)
(* where they are.                                                         *)
LEMMA DrainSound ==
  ASSUME NEW n, NEW r, Sound(r, n)
  PROVE  LET q == Drain(r)
         IN  /\ Sound(q, n) /\ Calm(r, q)
             /\ q.phase = r.phase /\ q.active = r.active /\ q.area = r.area
<1> DEFINE b == Batches(r)
           u == r.up \o b
           s == r.seq + Len(r.queue)
           q == [r EXCEPT !.up = u, !.seq = s, !.queue = <<>>]
<1>1. /\ r \in Client /\ r.up \in Seq(Message) /\ r.queue \in Seq(Nat) /\ r.seq \in Nat
      /\ Len(r.up) \in Nat /\ DOMAIN r.up = 1..Len(r.up)
      /\ Len(r.queue) \in Nat /\ DOMAIN r.queue = 1..Len(r.queue)
      /\ \A i \in DOMAIN r.queue : r.queue[i] \in Nat
      /\ \A k \in DOMAIN r.up : r.up[k].seq \in Nat /\ r.up[k].sec \in Nat
  BY ClientTypes, UpTypes DEF Sound
<1>2. CASE ~ (r.clock /\ r.ws = "open")
  <2>1. Line(r, n)
    BY DEF Sound
  <2>2. Steps(r, r, {})
    BY <1>1, <2>1, SameLine
  <2>3. QED  BY <1>2, <2>2 DEF Drain, Calm
<1>3. CASE r.clock /\ r.ws = "open"
  <2>1. b = [i \in 1..Len(r.queue) |-> [kind |-> "batch", seq |-> r.seq + i, sec |-> r.queue[i]]]
    BY DEF Batches
  <2> HIDE DEF b
  <2>2. \A i \in 1..Len(r.queue) : /\ b[i] \in Message /\ b[i].kind = "batch"
                                   /\ b[i].seq = r.seq + i /\ b[i].sec = r.queue[i]
    BY <1>1, <2>1 DEF Message
  <2>3. b \in Seq(Message) /\ Len(b) = Len(r.queue)
    <3>1. b \in [1..Len(r.queue) -> Message]
      BY <2>1, <2>2
    <3>2. QED  BY <1>1, <3>1, FunctionIsSeq
  <2>4. /\ u \in Seq(Message) /\ Len(u) = Len(r.up) + Len(r.queue) /\ DOMAIN u = 1..Len(u)
        /\ \A k \in DOMAIN u : \/ k \in DOMAIN r.up /\ u[k] = r.up[k]
                               \/ k > Len(r.up) /\ k - Len(r.up) \in DOMAIN b /\ u[k] = b[k - Len(r.up)]
        /\ r.up # <<>> => u # <<>> /\ Head(u) = Head(r.up)
    <3> HIDE DEF u
    <3>1. u = r.up \o b
      BY DEF u
    <3>2. b \in Seq(Message) /\ r.up \in Seq(Message)
      BY <1>1, <2>3
    <3>3. u \in Seq(Message) /\ Len(u) = Len(r.up) + Len(b) /\ DOMAIN u = 1..Len(u)
      BY ONLY <3>1, <3>2, Concatenated
    <3>4. \A k \in DOMAIN u : \/ k \in DOMAIN r.up /\ u[k] = r.up[k]
                              \/ k > Len(r.up) /\ k - Len(r.up) \in DOMAIN b /\ u[k] = b[k - Len(r.up)]
      BY ONLY <3>1, <3>2, Concatenated
    <3>5. r.up # <<>> => u # <<>> /\ Head(u) = Head(r.up)
      BY ONLY <3>1, <3>2, Concatenated
    <3>6. QED  BY <2>3, <3>3, <3>4, <3>5
  <2> HIDE DEF u
  <2>5. DOMAIN b = DOMAIN r.queue
    BY <1>1, <2>1
  <2>6. ASSUME NEW k \in DOMAIN u
        PROVE  \/ k \in DOMAIN r.up /\ u[k] = r.up[k]
               \/ k - Len(r.up) \in DOMAIN r.queue /\ k > Len(r.up) /\ u[k] = b[k - Len(r.up)]
    BY <2>4, <2>5
  <2>7. r.area # "bad" /\ r.active /\ r.phase # "idle"
    BY <1>3 DEF Sound, Talk, Life
  <2>8. r.up # <<>> => u # <<>> /\ Head(u) = Head(r.up)
    BY <2>4
  <2>9. s \in Nat /\ r.seq <= s
    BY <1>1
  <2>10. \A i \in 1..Len(r.queue) : r.seq < r.seq + i /\ r.seq + i <= s
    BY <1>1
  <2> HIDE DEF s
  <2>11. q \in Client
    <3>1. <<>> \in Seq(Nat)
      OBVIOUS
    <3>2. QED  BY <1>1, <2>4, <2>9, <3>1 DEF Client, Message
  <2>12. /\ q.phase = r.phase /\ q.area = r.area /\ q.active = r.active /\ q.ws = r.ws
         /\ q.up = u /\ q.down = r.down /\ q.srv = r.srv /\ q.clock = r.clock
         /\ q.queue = <<>> /\ q.seq = s
         /\ q.locks = r.locks /\ q.wake = r.wake /\ q.flag = r.flag
    BY <1>1 DEF Client
  <2>13. q = Drain(r)
    BY <1>1, <1>3 DEF q, u, s, b, Drain, Client
  <2> HIDE DEF q
  <2>14. Life(q) /\ Wake(q)
    BY <2>12 DEF Sound, Life, Wake
  <2>15. Talk(q)
    BY <1>3, <2>7, <2>8, <2>12 DEF Sound, Talk
  <2>16. DOMAIN <<>> = {}
    OBVIOUS
  <2>17. Line(r, n)
    BY DEF Sound
  <2>18. ASSUME NEW k \in DOMAIN u, u[k].kind = "batch"
         PROVE  u[k].seq <= s /\ u[k].sec <= n
    <3>1. CASE k \in DOMAIN r.up /\ u[k] = r.up[k]
      BY <1>1, <2>9, <2>17, <2>18, <3>1 DEF Line
    <3>2. CASE k - Len(r.up) \in DOMAIN r.queue /\ k > Len(r.up) /\ u[k] = b[k - Len(r.up)]
      BY <1>1, <2>2, <2>10, <2>17, <3>2 DEF Line
    <3>3. QED  BY <2>6, <3>1, <3>2
  <2>19. ASSUME NEW k \in DOMAIN u, NEW l \in DOMAIN u, k < l,
                u[k].kind = "batch", u[l].kind = "batch"
         PROVE  u[k].seq < u[l].seq /\ u[k].sec < u[l].sec
    <3>1. CASE l \in DOMAIN r.up /\ u[l] = r.up[l]
      <4>1. k \in 1..Len(u) /\ l \in 1..Len(r.up) /\ k < l /\ Len(u) = Len(r.up) + Len(r.queue)
        BY <1>1, <2>4, <2>19, <3>1
      <4>2. k \in DOMAIN r.up /\ u[k] = r.up[k]
        <5>1. ~ (k > Len(r.up))
          BY <1>1, <4>1
        <5>2. QED  BY <2>6, <5>1
      <4>3. QED  BY <2>17, <2>19, <3>1, <4>2 DEF Line
    <3>2. CASE l - Len(r.up) \in DOMAIN r.queue /\ l > Len(r.up) /\ u[l] = b[l - Len(r.up)]
      <4> DEFINE j == l - Len(r.up)
      <4>1. u[l].seq = r.seq + j /\ u[l].sec = r.queue[j] /\ j \in DOMAIN r.queue
        BY <1>1, <2>2, <3>2
      <4>2. CASE k \in DOMAIN r.up /\ u[k] = r.up[k]
        <5>1. r.up[k].seq <= r.seq /\ r.up[k].sec < r.queue[j]
          BY <2>17, <2>19, <4>1, <4>2 DEF Line
        <5>2. r.seq < r.seq + j
          BY <1>1, <2>10, <4>1
        <5>3. QED  BY <1>1, <4>1, <4>2, <5>1, <5>2
      <4>3. CASE k - Len(r.up) \in DOMAIN r.queue /\ k > Len(r.up) /\ u[k] = b[k - Len(r.up)]
        <5> DEFINE i == k - Len(r.up)
        <5>1. u[k].seq = r.seq + i /\ u[k].sec = r.queue[i] /\ i \in DOMAIN r.queue
          BY <1>1, <2>2, <4>3
        <5>2. i < j
          BY <1>1, <2>4, <2>19
        <5>3. r.queue[i] < r.queue[j]
          BY <2>17, <4>1, <5>1, <5>2 DEF Line, Rising
        <5>4. r.seq + i < r.seq + j
          BY <1>1, <4>1, <5>1, <5>2
        <5>5. QED  BY <4>1, <5>1, <5>3, <5>4
      <4>4. QED  BY <2>6, <4>2, <4>3
    <3>3. QED  BY <2>6, <3>1, <3>2
  <2>20. Line(q, n)
    BY <2>12, <2>16, <2>18, <2>19 DEF Line, Rising
  <2>21. ASSUME NEW k \in DOMAIN u, u[k].kind = "batch"
         PROVE  Old(r, u[k]) \/ (r.seq < u[k].seq /\ Known(r, u[k].sec))
    <3>1. CASE k \in DOMAIN r.up /\ u[k] = r.up[k]
      BY <3>1 DEF Old
    <3>2. CASE k - Len(r.up) \in DOMAIN r.queue /\ k > Len(r.up) /\ u[k] = b[k - Len(r.up)]
      BY <1>1, <2>2, <2>10, <3>2 DEF Known
    <3>3. QED  BY <2>6, <3>1, <3>2
  <2>22. Steps(r, q, {})
    BY <2>9, <2>12, <2>16, <2>21 DEF Steps
  <2>23. Sound(q, n)
    <3>1. Len(q.queue) <= MaxQueue
      BY <2>12, SensorAssumption, EmptySeq
    <3>2. QED  BY <2>11, <2>14, <2>15, <2>20, <3>1 DEF Sound
  <2>24. QED  BY <2>12, <2>13, <2>22, <2>23 DEF Calm
<1>4. QED  BY <1>2, <1>3

(* flush: the second that passed goes behind all others.                   *)
LEMMA FlushSound ==
  ASSUME NEW n \in Nat, NEW r, Sound(r, n), r.active, NEW moved \in BOOLEAN, now' = n + 1
  PROVE  LET q == Flush(r, moved)
         IN  /\ Sound(q, n + 1) /\ Steps(r, q, IF moved THEN {n + 1} ELSE {})
             /\ q.phase = r.phase /\ q.active = r.active /\ q.area = r.area
<1> DEFINE a == IF moved THEN Append(r.queue, n + 1) ELSE r.queue
           k == IF Len(a) > MaxQueue THEN Tail(a) ELSE a
           q == [r EXCEPT !.queue = k]
           N == IF moved THEN {n + 1} ELSE {}
<1>1. /\ r \in Client /\ r.up \in Seq(Message) /\ r.queue \in Seq(Nat) /\ r.seq \in Nat
      /\ Len(r.up) \in Nat /\ DOMAIN r.up = 1..Len(r.up)
      /\ Len(r.queue) \in Nat /\ DOMAIN r.queue = 1..Len(r.queue)
      /\ \A i \in DOMAIN r.queue : r.queue[i] \in Nat
      /\ \A j \in DOMAIN r.up : r.up[j].seq \in Nat /\ r.up[j].sec \in Nat
      /\ Len(r.queue) <= MaxQueue /\ MaxQueue \in Nat \ {0}
  BY ClientTypes, UpTypes, SensorAssumption DEF Sound
<1>2. Line(r, n)
  BY DEF Sound
<1>3. /\ a \in Seq(Nat) /\ Len(a) \in Nat /\ Len(a) <= MaxQueue + 1 /\ DOMAIN a = 1..Len(a)
      /\ \A i \in DOMAIN a : (i \in DOMAIN r.queue /\ a[i] = r.queue[i]) \/ (moved /\ i = Len(a) /\ a[i] = n + 1)
      /\ \A i \in DOMAIN a : i # Len(a) => i \in DOMAIN r.queue /\ a[i] = r.queue[i]
  <2>1. CASE moved
    <3>1. a = Append(r.queue, n + 1) /\ n + 1 \in Nat
      BY <2>1
    <3> HIDE DEF a, k, q
    <3>2. /\ a \in Seq(Nat) /\ Len(a) = Len(r.queue) + 1 /\ DOMAIN a = 1..Len(a) /\ Len(a) \in Nat
          /\ a[Len(a)] = n + 1
          /\ \A i \in DOMAIN a : i # Len(a) => i \in DOMAIN r.queue /\ a[i] = r.queue[i]
      BY <1>1, <3>1, Appended
    <3>3. Len(a) <= MaxQueue + 1
      BY <1>1, <3>2
    <3>4. QED  BY <2>1, <3>2, <3>3
  <2>2. CASE ~moved
    <3>1. a = r.queue
      BY <2>2
    <3>2. Len(r.queue) <= MaxQueue + 1
      BY <1>1
    <3> HIDE DEF a
    <3>3. QED  BY <1>1, <3>1, <3>2
  <2>3. QED  BY <2>1, <2>2
<1> HIDE DEF a
<1>4. Rising(a)
  <2> SUFFICES ASSUME NEW i \in DOMAIN a, NEW j \in DOMAIN a, i < j PROVE a[i] < a[j]
    BY DEF Rising
  <2>1. i \in DOMAIN r.queue /\ a[i] = r.queue[i]
    BY <1>3
  <2>2. r.queue[i] <= n /\ r.queue[i] \in Nat
    BY <1>1, <1>2, <2>1 DEF Line
  <2>3. CASE j \in DOMAIN r.queue /\ a[j] = r.queue[j]
    BY <1>2, <2>1, <2>3 DEF Line, Rising
  <2>4. CASE a[j] = n + 1
    BY <2>1, <2>2, <2>4
  <2>5. QED  BY <1>3, <2>3, <2>4
<1>5. /\ k \in Seq(Nat) /\ Len(k) <= MaxQueue /\ DOMAIN k = 1..Len(k) /\ Len(k) \in Nat
      /\ \/ \A i \in DOMAIN k : i \in DOMAIN a /\ k[i] = a[i]
         \/ \A i \in DOMAIN k : i + 1 \in DOMAIN a /\ k[i] = a[i + 1]
  <2>1. CASE Len(a) > MaxQueue
    <3>1. a # <<>>
      BY <1>1, <1>3, <2>1, EmptySeq
    <3>2. k \in Seq(Nat) /\ Len(k) = Len(a) - 1 /\ \A i \in 1..Len(k) : k[i] = a[i + 1]
      BY <1>3, <2>1, <3>1, HeadTailProperties
    <3>3. DOMAIN k = 1..Len(k) /\ Len(k) \in Nat
      BY <3>2, LenProperties
    <3> HIDE DEF k
    <3>4. \A i \in DOMAIN k : i + 1 \in DOMAIN a /\ k[i] = a[i + 1]
      BY <1>3, <3>2, <3>3
    <3>5. QED  BY <1>1, <1>3, <3>2, <3>3, <3>4
  <2>2. CASE ~ (Len(a) > MaxQueue)
    <3>1. k = a
      BY <2>2
    <3> HIDE DEF k
    <3>2. QED  BY <1>1, <1>3, <2>2, <3>1
  <2>3. QED  BY <2>1, <2>2
<1> HIDE DEF k
<1>6. Rising(k)
  <2>1. CASE \A i \in DOMAIN k : i \in DOMAIN a /\ k[i] = a[i]
    BY <1>4, <2>1 DEF Rising
  <2>2. CASE \A i \in DOMAIN k : i + 1 \in DOMAIN a /\ k[i] = a[i + 1]
    <3>1. \A i, j \in DOMAIN k : i < j => i + 1 < j + 1
      BY <1>5
    <3>2. QED  BY <1>4, <2>2, <3>1 DEF Rising
  <2>3. QED  BY <1>5, <2>1, <2>2
<1>7. \A i \in DOMAIN k : (moved /\ k[i] = n + 1) \/ Known(r, k[i])
  <2>1. \A i \in DOMAIN a : (moved /\ a[i] = n + 1) \/ Known(r, a[i])
    BY <1>3 DEF Known
  <2>2. QED  BY <1>5, <2>1
<1>8. q \in Client
  BY <1>1, <1>5 DEF Client
<1>9. /\ q.phase = r.phase /\ q.area = r.area /\ q.active = r.active /\ q.ws = r.ws
      /\ q.up = r.up /\ q.down = r.down /\ q.srv = r.srv /\ q.clock = r.clock
      /\ q.queue = k /\ q.seq = r.seq
      /\ q.locks = r.locks /\ q.wake = r.wake /\ q.flag = r.flag
  BY <1>1 DEF Client
<1>10. Flush(r, moved) = Drain(q)
  BY DEF Flush, q, k, a
<1> HIDE DEF q
<1>11. r.phase # "idle"
  BY DEF Sound, Life
<1>12. Life(q) /\ Wake(q) /\ Talk(q)
  BY <1>9, <1>11 DEF Sound, Life, Wake, Talk
<1>13. Line(q, n + 1)
  <2>1. \A i \in DOMAIN r.queue : r.queue[i] <= n
    BY <1>2 DEF Line
  <2>2. \A i \in DOMAIN k : k[i] <= n + 1
    BY <1>1, <1>7, <2>1 DEF Known
  <2>3. ASSUME NEW j \in DOMAIN r.up, r.up[j].kind = "batch"
        PROVE  /\ r.up[j].seq <= r.seq /\ r.up[j].sec <= n + 1
               /\ \A i \in DOMAIN k : r.up[j].sec < k[i]
    <3>1. /\ r.up[j].seq <= r.seq /\ r.up[j].sec <= n
          /\ \A i \in DOMAIN r.queue : r.up[j].sec < r.queue[i]
      BY <1>2, <2>3 DEF Line
    <3>2. r.up[j].sec < n + 1
      BY <1>1, <3>1
    <3>3. \A i \in DOMAIN k : r.up[j].sec < k[i]
      BY <1>7, <3>1, <3>2 DEF Known
    <3>4. QED  BY <1>1, <3>1, <3>2, <3>3
  <2>4. QED  BY <1>2, <1>6, <1>9, <2>2, <2>3 DEF Line
<1>14. Sound(q, n + 1)
  BY <1>5, <1>8, <1>9, <1>12, <1>13 DEF Sound
<1>15. Steps(r, q, N)
  <2>1. \A i \in DOMAIN k : k[i] \in N \/ Known(r, k[i])
    BY <1>7
  <2>2. r.seq <= q.seq
    BY <1>1, <1>9
  <2> HIDE DEF N
  <2>3. QED  BY <1>9, <2>1, <2>2 DEF Steps, Old
<1> DEFINE d == Drain(q)
<1>16. /\ Sound(d, n + 1) /\ Steps(q, d, {})
       /\ d.phase = q.phase /\ d.active = q.active /\ d.area = q.area
  BY <1>14, DrainSound DEF Calm
<1> HIDE DEF d
<1>17. Steps(r, d, N)
  <2>1. r.seq = q.seq /\ r.seq <= d.seq
    BY <1>9, <1>16 DEF Steps
  <2>2. \A s : Known(q, s) => s \in N \/ Known(r, s)
    BY <1>15 DEF Steps, Known
  <2>3. ASSUME NEW j \in DOMAIN d.up, d.up[j].kind = "batch"
        PROVE  Old(r, d.up[j]) \/ (r.seq < d.up[j].seq /\ (d.up[j].sec \in N \/ Known(r, d.up[j].sec)))
    <3>1. Old(q, d.up[j]) \/ (q.seq < d.up[j].seq /\ Known(q, d.up[j].sec))
      BY <1>16, <2>3 DEF Steps
    <3>2. Old(q, d.up[j]) => Old(r, d.up[j])
      BY <1>9 DEF Old
    <3>3. QED  BY <2>1, <2>2, <3>1, <3>2
  <2>4. \A i \in DOMAIN d.queue : d.queue[i] \in N \/ Known(r, d.queue[i])
    BY <1>16, <2>2 DEF Steps
  <2>5. QED  BY <1>9, <1>16, <2>1, <2>3, <2>4 DEF Steps
<1>18. QED  BY <1>9, <1>10, <1>16, <1>17 DEF d, N

LEMMA CalmTwice ==
  ASSUME NEW r \in Client, NEW q \in Client, NEW d \in Client, Calm(r, q), Calm(q, d),
         r.area = q.area, q.area = d.area
  PROVE  Calm(r, d)
<1>1. r.seq \in Nat /\ q.seq \in Nat /\ d.seq \in Nat /\ \A k \in DOMAIN d.up : d.up[k].seq \in Nat
  BY ClientTypes, UpTypes
<1>2. r.seq <= q.seq /\ q.seq <= d.seq
  BY DEF Calm, Steps
<1>3. \A s : Known(q, s) => Known(r, s)
  BY DEF Calm, Steps, Known
<1>4. ASSUME NEW k \in DOMAIN d.up, d.up[k].kind = "batch"
      PROVE  Old(r, d.up[k]) \/ (r.seq < d.up[k].seq /\ Known(r, d.up[k].sec))
  <2>1. Old(q, d.up[k]) \/ (q.seq < d.up[k].seq /\ Known(q, d.up[k].sec))
    BY <1>4 DEF Calm, Steps
  <2>2. CASE Old(q, d.up[k])
    <3>1. PICK l \in DOMAIN q.up : q.up[l] = d.up[k]
      BY <2>2 DEF Old
    <3>2. Old(r, q.up[l]) \/ (r.seq < q.up[l].seq /\ Known(r, q.up[l].sec))
      BY <1>4, <3>1 DEF Calm, Steps
    <3>3. QED  BY <3>1, <3>2
  <2>3. CASE q.seq < d.up[k].seq /\ Known(q, d.up[k].sec)
    <3>1. r.seq < d.up[k].seq
      BY <1>1, <1>2, <2>3
    <3>2. QED  BY <1>3, <2>3, <3>1
  <2>4. QED  BY <2>1, <2>2, <2>3
<1>5. \A i \in DOMAIN d.queue : Known(r, d.queue[i])
  BY <1>3 DEF Calm, Steps
<1>6. r.seq <= d.seq
  BY <1>1, <1>2
<1>7. Steps(r, d, {})
  <2>1. d.phase = "idle" => r.phase = "idle"
    BY DEF Calm, Steps
  <2>2. QED  BY <1>4, <1>5, <1>6, <2>1 DEF Steps
<1>8. d.active => r.active /\ d.area = r.area
  BY DEF Calm
<1>9. QED  BY <1>7, <1>8 DEF Calm

(* The server takes a message, and may answer.                             *)
Taken(r, d, s) == [r EXCEPT !.up = Tail(@), !.down = d, !.srv = s]

LEMMA TakenSound ==
  ASSUME NEW n, NEW r, Sound(r, n), r.up # <<>>, NEW s \in {"serving", "closed"}, NEW m \in Answer,
         NEW d, d \in {r.down, Append(r.down, m)},
         m = "location" => r.area = "bad", r.area = "bad" => s # "serving" /\ m # "sync"
  PROVE  LET q == Taken(r, d, s)
         IN  Sound(q, n) /\ Calm(r, q) /\ q.phase = r.phase
<1> DEFINE u == Tail(r.up)
           q == [r EXCEPT !.up = u, !.down = d, !.srv = s]
<1>1. /\ r \in Client /\ r.up \in Seq(Message) /\ r.down \in Seq(Answer)
      /\ DOMAIN r.up = 1..Len(r.up) /\ Len(r.up) \in Nat
  BY ClientTypes, UpTypes DEF Sound
<1>2. /\ u \in Seq(Message) /\ Len(u) = Len(r.up) - 1
      /\ \A k \in 1..Len(u) : u[k] = r.up[k + 1]
  BY <1>1, HeadTailProperties
<1>3. DOMAIN u = 1..Len(u)
  BY <1>2, LenProperties
<1> HIDE DEF u
<1>4. \A k \in DOMAIN u : k + 1 \in DOMAIN r.up /\ u[k] = r.up[k + 1]
  BY <1>1, <1>2, <1>3
<1>5. d \in Seq(Answer) /\ \A k \in DOMAIN d : d[k] = m \/ (k \in DOMAIN r.down /\ d[k] = r.down[k])
  <2>1. CASE d = r.down
    BY <1>1, <2>1
  <2>2. CASE d = Append(r.down, m)
    <3>1. /\ d \in Seq(Answer) /\ d[Len(d)] = m
          /\ \A k \in DOMAIN d : k # Len(d) => k \in DOMAIN r.down /\ d[k] = r.down[k]
      BY <1>1, <2>2, Appended
    <3>2. QED  BY <3>1
  <2>3. QED  BY <2>1, <2>2
<1>6. q \in Client
  BY <1>1, <1>2, <1>5 DEF Client, Message, Answer
<1>7. /\ q.phase = r.phase /\ q.area = r.area /\ q.active = r.active /\ q.ws = r.ws
      /\ q.up = u /\ q.down = d /\ q.srv = s /\ q.clock = r.clock
      /\ q.queue = r.queue /\ q.seq = r.seq
      /\ q.locks = r.locks /\ q.wake = r.wake /\ q.flag = r.flag
  BY <1>1 DEF Client
<1>8. q = Taken(r, d, s)
  BY <1>1 DEF q, u, Client, Taken
<1> HIDE DEF q
<1>9. Life(q) /\ Wake(q)
  BY <1>7 DEF Sound, Life, Wake
<1>10. Talk(q)
  <2>1. r.phase # "idle"
    BY DEF Sound, Talk
  <2>2. \A k \in DOMAIN d : d[k] = "location" => r.area = "bad"
    BY <1>5 DEF Sound, Talk
  <2>3. r.area = "bad" => /\ ~r.clock /\ \A k \in DOMAIN d : d[k] # "sync"
                          /\ \A k \in DOMAIN u : u[k].kind # "batch"
    BY <1>4, <1>5 DEF Sound, Talk
  <2>4. QED  BY <1>7, <2>1, <2>2, <2>3 DEF Talk
<1>11. q.up = Tail(r.up)
  BY <1>7 DEF u
<1>12. Sound(q, n) /\ Steps(r, q, {})
  BY <1>6, <1>7, <1>9, <1>10, <1>11, FromFields
<1>13. QED  BY <1>7, <1>8, <1>12 DEF Calm

LEMMA ByeSound ==
  ASSUME NEW n, NEW r, Sound(r, n)
  PROVE  LET q == [r EXCEPT !.up = <<>>, !.srv = "closed"]
         IN  Sound(q, n) /\ Calm(r, q) /\ q.phase = r.phase
<1> DEFINE q == [r EXCEPT !.up = <<>>, !.srv = "closed"]
<1>1. r \in Client /\ <<>> \in Seq(Message) /\ DOMAIN <<>> = {}
  BY DEF Sound
<1>2. q \in Client
  BY <1>1 DEF Client, Message
<1>3. /\ q.phase = r.phase /\ q.area = r.area /\ q.active = r.active /\ q.ws = r.ws
      /\ q.up = <<>> /\ q.down = r.down /\ q.srv = "closed" /\ q.clock = r.clock
      /\ q.queue = r.queue /\ q.seq = r.seq
      /\ q.locks = r.locks /\ q.wake = r.wake /\ q.flag = r.flag
  BY <1>1 DEF Client
<1> HIDE DEF q
<1>4. Life(q) /\ Wake(q) /\ Talk(q)
  BY <1>1, <1>3 DEF Sound, Life, Wake, Talk
<1>5. Sound(q, n) /\ Steps(r, q, {})
  BY <1>2, <1>3, <1>4, FromFields
<1>6. QED  BY <1>3, <1>5 DEF q, Calm

(* start, of a client that did nothing yet.                                *)
LEMMA StartedSound ==
  ASSUME NEW n, NEW r, Sound(r, n), r.phase = "idle", Rest
  PROVE  LET q == Started(r)
         IN  Sound(q, n) /\ Steps(r, q, {}) /\ q.phase = "connecting"
<1> DEFINE a == IF visible THEN r.asked + 1 ELSE r.asked
           q == Started(r)
<1>1. /\ r \in Client /\ <<>> \in Seq(Message) /\ <<>> \in Seq(Answer) /\ DOMAIN <<>> = {}
      /\ a \in Nat /\ area \in Areas /\ creds \in Devices \cup {"none"} /\ url \in {"old", "new"}
      /\ visible \in BOOLEAN /\ r.seq \in Nat
  BY ClientTypes DEF Sound, Rest
<1>2. q = [r EXCEPT !.phase = "connecting", !.active = TRUE, !.dev = creds, !.area = area, !.asked = a,
                    !.ws = "connecting", !.to = url, !.up = <<>>, !.down = <<>>, !.srv = "none",
                    !.delayed = FALSE]
  BY <1>1 DEF Started, Connect, AcquireWake, Client
<1> HIDE DEF q, a
<1>3. q \in Client
  <2>1. "connecting" \in Phases
    BY DEF Phases
  <2>2. QED  BY <1>1, <1>2, <2>1 DEF Client, Message, Answer
<1>4. /\ q.phase = "connecting" /\ q.area = area /\ q.active = TRUE /\ q.ws = "connecting"
      /\ q.up = <<>> /\ q.down = <<>> /\ q.srv = "none" /\ q.clock = r.clock
      /\ q.queue = r.queue /\ q.seq = r.seq
      /\ q.locks = r.locks /\ q.wake = r.wake /\ q.flag = r.flag
  BY <1>1, <1>2 DEF Client
<1>5. ~r.clock /\ r.queue = <<>>
  BY DEF Sound, Talk
<1>6. Life(q) /\ Wake(q) /\ Talk(q)
  BY <1>1, <1>4, <1>5 DEF Sound, Life, Wake, Talk
<1>7. Line(q, n)
  BY <1>1, <1>4, <1>5 DEF Line, Rising
<1>8. Steps(r, q, {})
  BY <1>1, <1>4, <1>5 DEF Steps
<1>9. Sound(q, n)
  BY <1>3, <1>4, <1>6, <1>7 DEF Sound
<1>10. QED  BY <1>4, <1>8, <1>9 DEF q

(* A client of the page that was there before.                             *)
LEMMA ReloadedSound ==
  ASSUME NEW n, NEW r, Sound(r, n)
  PROVE  LET q == [Unused EXCEPT !.phase = "stopped", !.dev = r.dev, !.seq = r.seq]
         IN  Sound(q, n) /\ Steps(r, q, {}) /\ q.phase = "stopped" /\ ~q.active
<1> DEFINE q == [Unused EXCEPT !.phase = "stopped", !.dev = r.dev, !.seq = r.seq]
<1>1. /\ r \in Client /\ <<>> \in Seq(Message) /\ <<>> \in Seq(Answer) /\ <<>> \in Seq(Nat)
      /\ DOMAIN <<>> = {} /\ r.seq \in Nat /\ r.dev \in Devices \cup {"none"} /\ Len(<<>>) = 0
  BY ClientTypes DEF Sound
<1>2. /\ q.phase = "stopped" /\ q.area = "none" /\ q.active = FALSE /\ q.ws = "none"
      /\ q.up = <<>> /\ q.down = <<>> /\ q.srv = "none" /\ q.clock = FALSE
      /\ q.queue = <<>> /\ q.seq = r.seq
      /\ q.locks = 0 /\ q.wake = FALSE /\ q.flag = FALSE
  BY DEF Unused
<1>3. q \in Client
  <2>1. "stopped" \in Phases /\ "idle" \in Phases /\ "none" \in Areas /\ 0 \in 0..2
    BY DEF Phases, Areas
  <2>2. Unused \in Client
    BY <1>1, <2>1 DEF Client, Message, Answer, Unused
  <2>3. QED  BY <1>1, <2>1, <2>2 DEF Client
<1> HIDE DEF q
<1>4. Life(q) /\ Wake(q) /\ Talk(q)
  BY <1>1, <1>2 DEF Life, Wake, Talk
<1>5. Line(q, n)
  BY <1>1, <1>2 DEF Line, Rising
<1>6. Steps(r, q, {})
  BY <1>1, <1>2 DEF Steps
<1>7. Sound(q, n)
  BY <1>1, <1>2, <1>3, <1>4, <1>5, SensorAssumption DEF Sound
<1>8. QED  BY <1>2, <1>6, <1>7 DEF q

-----------------------------------------------------------------------------
(* The clients and the server after each step.                             *)

Traffic == /\ Clients /\ OneRuns /\ GotFirst /\ Apart /\ NumberedInOrder
           /\ StreamingIsVisible

LEMMA Typed ==
  ASSUME Inv, NEW c \in Ids
  PROVE  /\ Sound(cl[c], now) /\ cl[c] \in Client /\ cl = [b \in Ids |-> cl[b]]
         /\ cl[c].phase = "streaming" => visible
BY DEF Inv, Clients, Sound, StreamingIsVisible

LEMMA AllCalm ==
  ASSUME Inv, now' = now, got' = got, current' = current \/ \A c \in Ids : ~cl'[c].active,
         cl' = [c \in Ids |-> cl'[c]],
         \A c \in Ids : Sound(cl'[c], now) /\ Calm(cl[c], cl'[c])
  PROVE  Clients' /\ OneRuns' /\ GotFirst' /\ Apart' /\ NumberedInOrder'
<1> DEFINE new == [c \in Ids |-> {}]
<1>1. now \in Nat
  BY DEF Inv, Rest
<1>2. new \in [Ids -> SUBSET Nat] /\ \A c \in Ids : new[c] = {}
  OBVIOUS
<1> HIDE DEF new
<1>3. \A c \in Ids : Sound(cl'[c], now') /\ Steps(cl[c], cl'[c], new[c])
  BY <1>2 DEF Calm
<1>4. now' \in Nat /\ now <= now'
  BY <1>1
<1>5. /\ \A c \in Ids : \A s \in new[c] : now < s /\ s <= now'
      /\ \A b, c \in Ids : b # c /\ cl'[b].area # "bad" /\ cl'[c].area # "bad" => new[b] \cap new[c] = {}
  BY <1>2
<1>6. Clients' /\ GotFirst' /\ Apart' /\ NumberedInOrder'
  BY <1>2, <1>3, <1>4, <1>5, ManySteps
<1>7. OneRuns'
  BY DEF Inv, OneRuns, Calm
<1>8. QED  BY <1>6, <1>7

LEMMA OneCalm ==
  ASSUME Inv, NEW c \in Ids, NEW q, cl' = [cl EXCEPT ![c] = q], Sound(q, now), Calm(cl[c], q),
         now' = now, got' = got, current' = current, visible' = visible,
         q.phase = "streaming" => visible \/ cl[c].phase = "streaming"
  PROVE  Traffic'
<1>1. /\ cl' = [b \in Ids |-> cl'[b]] /\ cl'[c] = q
      /\ \A b \in Ids \ {c} : cl'[b] = cl[b]
  BY Typed
<1>2. now \in Nat
  BY DEF Inv, Rest
<1>3. ASSUME NEW b \in Ids
      PROVE  Sound(cl'[b], now) /\ Calm(cl[b], cl'[b])
  <2>1. CASE b = c
    BY <1>1, <2>1
  <2>2. CASE b # c
    <3>1. Sound(cl[b], now) /\ cl'[b] = cl[b]
      BY <1>1, <2>2, Typed
    <3>2. Steps(cl[b], cl[b], {})
      <4>1. now <= now
        BY <1>2
      <4>2. QED  BY <1>2, <3>1, <4>1, LaterSound
    <3>3. QED  BY <3>1, <3>2 DEF Calm
  <2>3. QED  BY <2>1, <2>2
<1>4. Clients' /\ OneRuns' /\ GotFirst' /\ Apart' /\ NumberedInOrder'
  BY <1>1, <1>3, AllCalm
<1>5. StreamingIsVisible'
  BY <1>1 DEF Inv, StreamingIsVisible
<1>6. QED  BY <1>4, <1>5 DEF Traffic

LEMMA TrafficSame ==
  ASSUME Inv, UNCHANGED <<cl, current, visible, now, got>>
  PROVE  Traffic'
BY DEF Inv, Traffic, Clients, OneRuns, GotFirst, Apart, NumberedInOrder, StreamingIsVisible, Secs

LEMMA OpenedTraffic ==
  ASSUME Inv, NEW c \in Ids, Opened(c)
  PROVE  Traffic'
<1> DEFINE q == [cl[c] EXCEPT !.ws = "open", !.up = <<Msg("hello")>>]
<1>1. /\ cl' = [cl EXCEPT ![c] = q] /\ cl[c].ws = "connecting"
      /\ UNCHANGED <<current, visible, now, got>>
  BY Typed DEF Opened
<1>2. Sound(q, now) /\ Calm(cl[c], q) /\ q.phase = cl[c].phase
  BY <1>1, Typed, OpenedSound
<1> HIDE DEF q
<1>3. QED  BY <1>1, <1>2, OneCalm

LEMMA CloseTraffic ==
  ASSUME Inv, NEW c \in Ids, OnClose(c), cl[c].ws \in {"connecting", "open"},
         UNCHANGED <<current, visible, now, got>>
  PROVE  Traffic'
<1> DEFINE p == IF Running(c) THEN "reconnecting" ELSE cl[c].phase
           t == IF Running(c) /\ cl[c].retry < 2 THEN cl[c].retry + 1 ELSE cl[c].retry
           d == cl[c].delayed \/ Running(c)
           q == Closed(cl[c], p, t, d)
<1>1. cl' = [cl EXCEPT ![c] = q]
  BY Typed DEF OnClose, Closed
<1>2. cl[c].retry \in 0..2 /\ cl[c].phase \in Phases /\ cl[c].delayed \in BOOLEAN
  BY Typed, ClientTypes
<1>3. p \in Phases /\ p \in {cl[c].phase, "reconnecting"}
  BY <1>2 DEF Phases
<1>4. t \in 0..2
  BY <1>2
<1>5. d \in BOOLEAN
  BY <1>2 DEF Running
<1> HIDE DEF p, t, d
<1>6. Sound(q, now) /\ Calm(cl[c], q) /\ q.phase = p
  BY <1>3, <1>4, <1>5, Typed, ClosedSound
<1> HIDE DEF q
<1>7. q.phase = "streaming" => cl[c].phase = "streaming"
  BY <1>3, <1>6
<1>8. QED  BY <1>1, <1>6, <1>7, OneCalm

LEMMA DelayedTraffic ==
  ASSUME Inv, NEW c \in Ids, DelayedConnect(c)
  PROVE  Traffic'
<1>1. UNCHANGED <<current, visible, now, got>>
  BY DEF DelayedConnect
<1>2. CASE cl[c].ws = "closed"
  <2> DEFINE q == Connect(cl[c])
  <2>1. cl' = [cl EXCEPT ![c] = q]
    BY <1>2, Typed DEF DelayedConnect
  <2>2. cl[c].active
    BY <1>2, Typed DEF Sound, Life
  <2>3. Sound(q, now) /\ Calm(cl[c], q) /\ q.phase = cl[c].phase
    BY <2>2, Typed, ConnectSound DEF Inv
  <2> HIDE DEF q
  <2>4. QED  BY <1>1, <2>1, <2>3, OneCalm
<1>3. CASE cl[c].ws # "closed"
  <2> DEFINE q == [cl[c] EXCEPT !.delayed = FALSE]
  <2>1. cl' = [cl EXCEPT ![c] = q]
    BY <1>3, Typed DEF DelayedConnect
  <2>2. Sound(q, now) /\ Calm(cl[c], q) /\ q.phase = cl[c].phase
    BY Typed, DelayedSound
  <2> HIDE DEF q
  <2>3. QED  BY <1>1, <2>1, <2>2, OneCalm
<1>4. QED  BY <1>2, <1>3

LEMMA ReceiveTraffic ==
  ASSUME Inv, NEW c \in Ids, Receive(c)
  PROVE  Traffic'
<1> DEFINE r == [cl[c] EXCEPT !.down = Tail(@)]
           m == Head(cl[c].down)
<1>1. /\ UNCHANGED <<current, visible, now, got>> /\ cl[c].ws = "open" /\ cl[c].down # <<>>
      /\ \/ m = "welcome" /\ cl' = [cl EXCEPT ![c] = Welcome(r)]
         \/ m = "sync" /\ cl' = [cl EXCEPT ![c] = Synced(r)]
         \/ m = "auth" /\ cl' = [cl EXCEPT ![c] = Stop(r)]
         \/ m = "location" /\ cl' = [cl EXCEPT ![c] = [r EXCEPT !.phase = "error"]]
  <2>1. m \in Answer
    BY Typed, TailSound DEF Receive
  <2>2. QED  BY <2>1 DEF Receive, Answer
<1>2. /\ Sound(r, now) /\ Calm(cl[c], r)
      /\ r.phase = cl[c].phase /\ r.ws = "open" /\ r.active = cl[c].active /\ r.area = cl[c].area
      /\ m = "sync" => r.area # "bad"
      /\ m = "location" => r.area = "bad"
  BY <1>1, Typed, TailSound
<1>3. r \in Client /\ cl[c] \in Client
  BY <1>2, Typed DEF Sound
<1> HIDE DEF r, m
<1>4. r.active /\ r.retry \in 0..2
  BY <1>2, <1>3, ClientTypes DEF Sound, Life
<1>5. ASSUME NEW q, cl' = [cl EXCEPT ![c] = q], Sound(q, now), Calm(r, q), q.area = r.area,
             q.phase = "streaming" => visible \/ r.phase = "streaming"
      PROVE  Traffic'
  <2>1. q \in Client
    BY <1>5 DEF Sound
  <2>2. Calm(cl[c], q)
    BY <1>2, <1>3, <1>5, <2>1, CalmTwice
  <2>3. QED  BY <1>1, <1>2, <1>5, <2>2, OneCalm
<1>6. CASE m = "welcome" /\ cl' = [cl EXCEPT ![c] = Welcome(r)]
  <2> DEFINE p == IF visible THEN "streaming" ELSE "paused"
             q == Phased(r, 0, p)
  <2>1. p \in Phases \ {"idle", "stopped"} /\ p # "error" /\ 0 \in 0..2 /\ (p = "streaming" => visible)
    BY DEF Phases
  <2>2. cl' = [cl EXCEPT ![c] = q]
    BY <1>6 DEF Welcome, Phased
  <2> HIDE DEF p
  <2>3. Sound(q, now) /\ Calm(r, q) /\ q.phase = p /\ q.area = r.area
    BY <1>2, <1>4, <2>1, PhaseSound
  <2> HIDE DEF q
  <2>4. QED  BY <1>5, <2>1, <2>2, <2>3
<1>7. CASE m = "sync" /\ cl' = [cl EXCEPT ![c] = Synced(r)]
  <2> DEFINE k == [r EXCEPT !.clock = TRUE]
             q == Drain(k)
  <2>1. Sound(k, now) /\ Calm(r, k) /\ k.phase = r.phase /\ k.area = r.area
    BY <1>2, <1>4, <1>7, ClockSound
  <2>2. cl' = [cl EXCEPT ![c] = q]
    BY <1>7 DEF Synced
  <2> HIDE DEF k
  <2>3. Sound(q, now) /\ Calm(k, q) /\ q.phase = k.phase /\ q.area = k.area
    BY <2>1, DrainSound
  <2> HIDE DEF q
  <2>4. Calm(r, q)
    BY <1>3, <2>1, <2>3, CalmTwice DEF Sound
  <2>5. QED  BY <1>5, <2>1, <2>2, <2>3, <2>4
<1>8. CASE m = "auth" /\ cl' = [cl EXCEPT ![c] = Stop(r)]
  <2> DEFINE q == Stop(r)
  <2>1. Sound(q, now) /\ Calm(r, q) /\ q.phase = "stopped"
    BY <1>2, StopSound
  <2>2. q.area = r.area
    BY <1>3 DEF Stop, Send, Client
  <2>3. cl' = [cl EXCEPT ![c] = q]
    BY <1>8
  <2> HIDE DEF q
  <2>4. QED  BY <1>5, <2>1, <2>2, <2>3
<1>9. CASE m = "location" /\ cl' = [cl EXCEPT ![c] = [r EXCEPT !.phase = "error"]]
  <2> DEFINE t == r.retry
             q == Phased(r, t, "error")
  <2>1. q = [r EXCEPT !.phase = "error"]
    BY <1>3 DEF Client, Phased
  <2>2. "error" \in Phases \ {"idle", "stopped"}
    BY DEF Phases
  <2>3. t \in 0..2
    BY <1>4
  <2>4. cl' = [cl EXCEPT ![c] = q]
    BY <1>9, <2>1
  <2> HIDE DEF t
  <2>5. Sound(q, now) /\ Calm(r, q) /\ q.phase = "error" /\ q.area = r.area
    BY <1>2, <1>4, <1>9, <2>2, <2>3, PhaseSound
  <2> HIDE DEF q
  <2>6. QED  BY <1>5, <2>4, <2>5
<1>10. QED  BY <1>1, <1>6, <1>7, <1>8, <1>9

LEMMA SyncTraffic ==
  ASSUME Inv, NEW c \in Ids, Sync(c)
  PROVE  Traffic'
<1> DEFINE q == Send(cl[c], Msg("sync"))
<1>1. /\ cl' = [cl EXCEPT ![c] = q] /\ UNCHANGED <<current, visible, now, got>>
      /\ cl[c].ws = "open" /\ cl[c].up = <<>>
  BY DEF Sync
<1>2. Sound(q, now) /\ Calm(cl[c], q) /\ q.phase = cl[c].phase
  BY <1>1, Typed, SyncSound
<1> HIDE DEF q
<1>3. QED  BY <1>1, <1>2, OneCalm

LEMMA WakeTraffic ==
  ASSUME Inv, NEW c \in Ids, WakeAnswer(c)
  PROVE  Traffic'
<1> DEFINE r == cl[c]
           a == r.asked - 1
<1>1. UNCHANGED <<current, visible, now, got>> /\ r.asked > 0
  BY DEF WakeAnswer
<1>2. r \in Client /\ r.asked \in Nat /\ r.locks \in Nat /\ r.wake \in BOOLEAN /\ Sound(r, now)
  BY Typed, ClientTypes
<1>3. a \in Nat
  BY <1>1, <1>2
<1> HIDE DEF a
<1>4. ASSUME NEW l \in Nat, NEW w \in BOOLEAN, NEW f \in BOOLEAN, w \/ f => l > 0,
             cl' = [cl EXCEPT ![c] = Locked(r, a, l, w, f)]
      PROVE  Traffic'
  <2> DEFINE q == Locked(r, a, l, w, f)
  <2>1. cl' = [cl EXCEPT ![c] = q]
    BY <1>4
  <2>2. Sound(r, now) /\ (w \/ f => l > 0)
    BY <1>2, <1>4
  <2> HIDE DEF r
  <2>3. Sound(q, now) /\ Calm(r, q) /\ q.phase = r.phase
    BY ONLY <1>3, <2>2, l \in Nat, w \in BOOLEAN, f \in BOOLEAN, LocksSound
  <2> USE DEF r
  <2> HIDE DEF q
  <2>4. QED  BY <1>1, <2>1, <2>3, OneCalm
<1>5. CASE cl' = [cl EXCEPT ![c].asked = @ - 1, ![c].locks = @ + 1, ![c].wake = TRUE, ![c].flag = TRUE]
  <2> DEFINE l == r.locks + 1
  <2>1. cl' = [cl EXCEPT ![c] = Locked(r, a, l, TRUE, TRUE)]
    BY <1>5, Typed DEF a, Locked
  <2>2. l \in Nat /\ l > 0
    BY <1>2
  <2> HIDE DEF l
  <2>3. QED  BY <1>4, <2>1, <2>2
<1>6. CASE cl' = [cl EXCEPT ![c].asked = @ - 1, ![c].flag = FALSE]
  <2> DEFINE l == r.locks
             w == r.wake
  <2>1. cl' = [cl EXCEPT ![c] = Locked(r, a, l, w, FALSE)]
    BY <1>2, <1>6, Typed DEF a, Client, Locked
  <2>2. l \in Nat /\ w \in BOOLEAN /\ (w \/ FALSE => l > 0)
    BY <1>2 DEF Sound, Wake
  <2> HIDE DEF l, w
  <2>3. QED  BY <1>4, <2>1, <2>2
<1>7. QED  BY <1>5, <1>6 DEF WakeAnswer

(* An answer other than a refusal is sent to no client whose place the     *)
(* server refuses, and nothing else takes it to be served.                 *)
LEMMA HelloTraffic ==
  ASSUME Inv, NEW c \in Ids, cl[c].up # <<>>, cl[c].srv # "closed", Hello(c),
         UNCHANGED <<current, visible, now, got>>
  PROVE  Traffic'
<1> DEFINE r == cl[c]
           m == IF registered[r.dev] # "live" THEN "auth"
                ELSE IF r.area = "bad" THEN "location" ELSE "welcome"
           s == IF m = "welcome" THEN "serving" ELSE "closed"
           d == Reply(c, m)
           q == Taken(r, d, s)
<1>1. cl' = [cl EXCEPT ![c] = q]
  BY Typed DEF Hello, Taken
<1>2. m \in Answer /\ (m = "location" => r.area = "bad") /\ m # "sync" /\ s \in {"serving", "closed"}
      /\ (r.area = "bad" => s # "serving")
  BY DEF Answer
<1>3. d \in {r.down, Append(r.down, m)}
  BY DEF Reply
<1> HIDE DEF m, s, d
<1>4. Sound(q, now) /\ Calm(r, q) /\ q.phase = r.phase
  BY <1>2, <1>3, Typed, TakenSound
<1> HIDE DEF q
<1>5. QED  BY <1>1, <1>4, OneCalm

(* A message that is not a batch.                                          *)
LEMMA TalkTraffic ==
  ASSUME Inv, NEW c \in Ids, ServerTakes(c), Head(cl[c].up).kind # "batch"
  PROVE  Traffic'
<1> DEFINE r == cl[c]
<1>1. /\ r.up # <<>> /\ r.srv # "closed" /\ UNCHANGED <<current, visible, now>>
      /\ got' = got
  BY DEF ServerTakes
<1>2. Sound(r, now) /\ r \in Client /\ r.up \in Seq(Message) /\ r.srv \in {"none", "serving", "closed"}
  BY Typed, ClientTypes
<1>3. Head(r.up).kind \in {"hello", "sync", "bye"}
  <2>1. Head(r.up) \in Message
    BY <1>1, <1>2, HeadTailProperties
  <2>2. QED  BY <2>1 DEF Message
<1>4. CASE Head(r.up).kind = "hello"
  <2>1. Hello(c)
    BY <1>4 DEF ServerTakes
  <2>2. QED  BY <1>1, <2>1, HelloTraffic
<1>5. CASE Head(r.up).kind = "sync"
  <2> DEFINE d == Reply(c, "sync")
             s == r.srv
             q == Taken(r, d, s)
  <2>1. cl' = [cl EXCEPT ![c].up = Tail(@), ![c].down = d]
    BY <1>5 DEF ServerTakes
  <2>2. cl' = [cl EXCEPT ![c] = q]
    <3>1. q = [r EXCEPT !.up = Tail(@), !.down = d]
      BY <1>2 DEF Client, Taken
    <3> HIDE DEF q, d
    <3>2. QED  BY <2>1, <3>1, Typed
  <2>3. s \in {"serving", "closed"} /\ (r.area = "bad" => s # "serving" /\ FALSE)
    BY <1>1, <1>2, <1>5 DEF Sound, Talk
  <2>4. d \in {r.down, Append(r.down, "sync")} /\ "sync" \in Answer
    BY DEF Reply, Answer
  <2> HIDE DEF d, s
  <2>5. Sound(q, now) /\ Calm(r, q) /\ q.phase = r.phase
    BY <1>1, <1>2, <2>3, <2>4, TakenSound
  <2> HIDE DEF q
  <2>6. QED  BY <1>1, <2>2, <2>5, OneCalm
<1>6. CASE Head(r.up).kind = "bye"
  <2> DEFINE q == [r EXCEPT !.up = <<>>, !.srv = "closed"]
  <2>1. cl' = [cl EXCEPT ![c] = q]
    BY <1>6, Typed DEF ServerTakes
  <2>2. Sound(q, now) /\ Calm(r, q) /\ q.phase = r.phase
    BY <1>2, ByeSound
  <2> HIDE DEF q
  <2>3. QED  BY <1>1, <2>1, <2>2, OneCalm
<1>7. QED  BY <1>3, <1>4, <1>5, <1>6

(* The server takes a batch: the first on its way, so all behind it have   *)
(* later numbers and seconds, and its second is of no other client.        *)
LEMMA BatchTraffic ==
  ASSUME Inv, NEW c \in Ids, ServerTakes(c), Head(cl[c].up).kind = "batch"
  PROVE  Traffic'
<1> DEFINE r == cl[c]
           m == Head(r.up)
           e == [from |-> c, seq |-> m.seq, sec |-> m.sec]
           d == r.down
           s == r.srv
           q == Taken(r, d, s)
<1>1. /\ r.up # <<>> /\ r.srv # "closed" /\ UNCHANGED <<current, visible, now>>
      /\ got' = Append(got, e) /\ cl' = [cl EXCEPT ![c].up = Tail(@)]
  BY DEF ServerTakes
<1>2. /\ Sound(r, now) /\ r \in Client /\ r.up \in Seq(Message) /\ Len(r.up) \in Nat
      /\ DOMAIN r.up = 1..Len(r.up) /\ Line(r, now) /\ Talk(r)
      /\ r.srv \in {"none", "serving", "closed"} /\ now \in Nat
  BY Typed, ClientTypes, UpTypes DEF Sound, Inv, Rest
<1>3. /\ m = r.up[1] /\ 1 \in DOMAIN r.up /\ m \in Message
      /\ Tail(r.up) \in Seq(Message) /\ Len(Tail(r.up)) = Len(r.up) - 1
      /\ \A k \in 1..Len(Tail(r.up)) : Tail(r.up)[k] = r.up[k + 1]
  <2>1. Len(r.up) \in Nat \ {0}
    BY <1>1, <1>2, EmptySeq
  <2>2. m = r.up[1] /\ 1 \in DOMAIN r.up
    BY <1>2, <2>1
  <2>3. QED  BY <1>1, <1>2, <2>2, HeadTailProperties
<1>4. /\ m.seq \in Nat /\ m.sec \in Nat /\ m.kind = "batch"
      /\ m.seq <= r.seq /\ m.sec <= now /\ \A i \in DOMAIN r.queue : m.sec < r.queue[i]
      /\ \A l \in DOMAIN r.up : 1 < l /\ r.up[l].kind = "batch" =>
           m.seq < r.up[l].seq /\ m.sec < r.up[l].sec
  <2>1. m.seq \in Nat /\ m.sec \in Nat
    BY <1>3 DEF Message
  <2>2. QED  BY <1>2, <1>3, <2>1 DEF Line
<1>5. r.area # "bad" /\ r.phase # "idle" /\ s = "serving"
  <2>1. r.area # "bad" /\ r.phase # "idle"
    BY <1>1, <1>2, <1>3 DEF Talk
  <2>2. r.srv # "none"
    BY <1>1, <1>2 DEF Talk
  <2>3. QED  BY <1>1, <1>2, <2>1, <2>2
<1>6. cl' = [cl EXCEPT ![c] = q]
  <2>1. q = [r EXCEPT !.up = Tail(@)]
    BY <1>2 DEF Client, Taken
  <2> HIDE DEF q
  <2>2. QED  BY <1>1, <2>1, Typed
<1>7. Sound(q, now) /\ Calm(r, q) /\ q.phase = r.phase
  <2>1. "auth" \in Answer
    BY DEF Answer
  <2> HIDE DEF d, s
  <2>2. d \in {r.down, Append(r.down, "auth")}
    BY DEF d
  <2>3. QED  BY <1>1, <1>2, <1>5, <2>1, <2>2, TakenSound
<1>8. /\ q.up = Tail(r.up) /\ q.queue = r.queue /\ q.seq = r.seq /\ q.area = r.area
      /\ q.phase = r.phase /\ q.active = r.active
  BY <1>2 DEF Client, Taken
<1> DEFINE u == Tail(r.up)
<1>9. DOMAIN u = 1..Len(u)
  BY <1>3, LenProperties
<1>10. \A k \in DOMAIN u : k + 1 \in DOMAIN r.up /\ u[k] = r.up[k + 1] /\ 1 < k + 1
  BY <1>2, <1>3, <1>9
<1> HIDE DEF q, m, u
<1>11. cl'[c] = q /\ (\A b \in Ids \ {c} : cl'[b] = cl[b]) /\ cl' = [b \in Ids |-> cl'[b]]
  BY <1>6, Typed
<1>12. /\ got \in Seq([from : Ids, seq : Nat, sec : Nat]) /\ e \in [from : Ids, seq : Nat, sec : Nat]
  BY <1>4 DEF Inv, Rest
<1>13. /\ got'[Len(got')] = e /\ DOMAIN got' = 1..Len(got') /\ Len(got') \in Nat
       /\ \A i \in DOMAIN got' : i # Len(got') => i \in DOMAIN got /\ got'[i] = got[i]
  <2> HIDE DEF e
  <2>1. QED  BY <1>1, <1>12, Appended
<1>14. e.from = c /\ e.seq = m.seq /\ e.sec = m.sec
  OBVIOUS
<1> HIDE DEF e
<1>15. Clients'
  <2>1. ASSUME NEW b \in Ids PROVE Sound(cl'[b], now)
    BY <1>7, <1>11, Typed
  <2>2. QED  BY <1>1, <1>11, <2>1 DEF Clients
<1>16. OneRuns'
  BY <1>1, <1>8, <1>11 DEF Inv, OneRuns
<1>17. StreamingIsVisible'
  BY <1>1, <1>8, <1>11 DEF Inv, StreamingIsVisible
<1>18. \A k \in DOMAIN q.up : q.up[k].kind = "batch" => m.seq < q.up[k].seq /\ m.sec < q.up[k].sec
  BY <1>4, <1>8, <1>10 DEF u
<1>19. GotFirst'
  <2> SUFFICES ASSUME NEW i \in DOMAIN got'
               PROVE  LET x == cl'[got'[i].from]
                      IN  /\ got'[i].seq <= x.seq /\ got'[i].sec <= now
                          /\ x.phase # "idle" /\ x.area # "bad"
                          /\ \A k \in DOMAIN x.up : x.up[k].kind = "batch" =>
                               got'[i].seq < x.up[k].seq /\ got'[i].sec < x.up[k].sec
                          /\ \A k \in DOMAIN x.queue : got'[i].sec < x.queue[k]
    BY <1>1 DEF GotFirst
  <2>1. CASE i = Len(got')
    BY <1>4, <1>5, <1>8, <1>11, <1>13, <1>14, <1>18, <2>1
  <2>2. CASE i # Len(got')
    <3>1. i \in DOMAIN got /\ got'[i] = got[i] /\ got[i].from \in Ids
      <4>1. DOMAIN got = 1..Len(got)
        BY <1>12, LenProperties
      <4>2. i \in DOMAIN got /\ got'[i] = got[i]
        BY <1>13, <2>2
      <4>3. got[i] \in [from : Ids, seq : Nat, sec : Nat]
        BY <1>12, <4>1, <4>2, ElementOfSeq
      <4>4. QED  BY <4>2, <4>3
    <3> DEFINE x == cl[got[i].from]
    <3>2. /\ got[i].seq <= x.seq /\ got[i].sec <= now
          /\ x.phase # "idle" /\ x.area # "bad"
          /\ \A k \in DOMAIN x.up : x.up[k].kind = "batch" =>
               got[i].seq < x.up[k].seq /\ got[i].sec < x.up[k].sec
          /\ \A k \in DOMAIN x.queue : got[i].sec < x.queue[k]
      BY <3>1 DEF Inv, GotFirst
    <3>3. CASE got[i].from = c
      <4>1. cl'[got'[i].from] = q /\ x = r
        BY <1>11, <3>1, <3>3
      <4>2. \A k \in DOMAIN q.up : k + 1 \in DOMAIN r.up /\ q.up[k] = r.up[k + 1]
        BY <1>8, <1>10 DEF u
      <4>3. QED  BY <1>8, <3>1, <3>2, <4>1, <4>2
    <3>4. CASE got[i].from # c
      BY <1>11, <3>1, <3>2, <3>4
    <3>5. QED  BY <3>3, <3>4
  <2>3. QED  BY <2>1, <2>2
<1>20. ASSUME NEW b \in Ids, NEW t, Secs(b, t)'
       PROVE  Secs(b, t)
  <2>1. CASE \E i \in DOMAIN got' : got'[i].from = b /\ got'[i].sec = t
    <3>1. PICK i \in DOMAIN got' : got'[i].from = b /\ got'[i].sec = t
      BY <2>1
    <3>2. CASE i = Len(got')
      <4>1. b = c /\ m.sec = t
        BY <1>13, <1>14, <3>1, <3>2
      <4>2. QED  BY <1>3, <1>4, <4>1 DEF Secs, Has
    <3>3. CASE i # Len(got')
      BY <1>13, <3>1, <3>3 DEF Secs
    <3>4. QED  BY <3>2, <3>3
  <2>2. CASE Has(cl'[b], t) /\ b = c
    <3>1. Has(q, t)
      BY <1>11, <2>2
    <3>2. \A k \in DOMAIN q.up : k + 1 \in DOMAIN r.up /\ q.up[k] = r.up[k + 1]
      BY <1>8, <1>10 DEF u
    <3>3. Has(r, t)
      BY <1>8, <3>1, <3>2 DEF Has
    <3>4. QED  BY <2>2, <3>3 DEF Secs
  <2>3. CASE Has(cl'[b], t) /\ b # c
    BY <1>11, <2>3 DEF Secs
  <2>4. QED  BY <1>20, <2>1, <2>2, <2>3 DEF Secs
<1>21. Apart'
  <2>1. \A b \in Ids : cl'[b].area = cl[b].area
    BY <1>8, <1>11
  <2>2. QED  BY <1>1, <1>20, <2>1 DEF Inv, Apart
<1>22. NumberedInOrder'
  <2> SUFFICES ASSUME NEW i \in DOMAIN got', NEW j \in DOMAIN got', i < j
               PROVE  /\ got'[i].sec # got'[j].sec
                      /\ got'[i].from = got'[j].from =>
                           got'[i].seq < got'[j].seq /\ got'[i].sec < got'[j].sec
    BY DEF NumberedInOrder
  <2>1. i # Len(got')
    BY <1>13
  <2>2. i \in DOMAIN got /\ got'[i] = got[i]
    BY <1>13, <2>1
  <2>3. CASE j # Len(got')
    BY <1>13, <2>2, <2>3 DEF Inv, NumberedInOrder
  <2>4. CASE j = Len(got')
    <3>1. got'[j].from = c /\ got'[j].seq = m.seq /\ got'[j].sec = m.sec
      BY <1>13, <1>14, <2>4
    <3>2. DOMAIN got = 1..Len(got)
      BY <1>12, LenProperties
    <3>3. got[i] \in [from : Ids, seq : Nat, sec : Nat]
      BY <1>12, <2>2, <3>2, ElementOfSeq
    <3>4. got[i].from \in Ids /\ got[i].seq \in Nat /\ got[i].sec \in Nat
      BY <3>3
    <3>5. CASE got[i].from = c
      <4>1. got[i].seq < m.seq /\ got[i].sec < m.sec
        BY <1>3, <1>4, <2>2, <3>5 DEF Inv, GotFirst
      <4>2. QED  BY <1>4, <2>2, <3>1, <3>4, <4>1
    <3>6. CASE got[i].from # c
      <4>1. Secs(c, m.sec) /\ Secs(got[i].from, got[i].sec)
        BY <1>3, <1>4, <2>2 DEF Secs, Has
      <4>2. cl[got[i].from].area # "bad"
        BY <2>2 DEF Inv, GotFirst
      <4>3. m.sec \in 0..now
        BY <1>2, <1>4
      <4>4. got[i].sec # m.sec
        BY <1>5, <3>4, <3>6, <4>1, <4>2, <4>3 DEF Inv, Apart
      <4>5. QED  BY <2>2, <3>1, <3>6, <4>4
    <3>7. QED  BY <3>5, <3>6
  <2>5. QED  BY <2>3, <2>4
<1>23. QED  BY <1>15, <1>16, <1>17, <1>19, <1>21, <1>22 DEF Traffic

(* Of the clients that were stopped none is active, so the new one is the  *)
(* only one that runs.                                                     *)
LEMMA StartTraffic ==
  ASSUME Inv, NEW c \in Ids, StartStreaming(c)
  PROVE  Traffic'
<1> DEFINE r == cl[c]
           q == Started(r)
           new == [b \in Ids |-> {}]
<1>1. /\ visible /\ ~(current # 0 /\ Running(current)) /\ r.phase = "idle"
      /\ current' = c /\ cl' = [cl EXCEPT ![c] = q] /\ UNCHANGED <<visible, now, got>>
  BY DEF StartStreaming, Idle
<1>2. Sound(q, now) /\ Steps(r, q, {}) /\ q.phase = "connecting"
  BY <1>1, Typed, StartedSound DEF Inv
<1> HIDE DEF q
<1>3. cl'[c] = q /\ (\A b \in Ids \ {c} : cl'[b] = cl[b]) /\ cl' = [b \in Ids |-> cl'[b]]
  BY <1>1, Typed
<1>4. new \in [Ids -> SUBSET Nat] /\ \A b \in Ids : new[b] = {}
  OBVIOUS
<1> HIDE DEF new
<1>5. now \in Nat /\ now <= now /\ current \in 0..MaxClients /\ MaxClients \in Nat \ {0}
  BY SensorAssumption DEF Inv, Rest
<1>6. ASSUME NEW b \in Ids
      PROVE  Sound(cl'[b], now') /\ Steps(cl[b], cl'[b], new[b])
  <2>1. Sound(cl[b], now) /\ Steps(cl[b], cl[b], {})
    BY <1>5, Typed, LaterSound
  <2>2. QED  BY <1>1, <1>2, <1>3, <1>4, <2>1
<1>7. /\ \A b \in Ids : \A s \in new[b] : now < s /\ s <= now'
      /\ \A a, b \in Ids : a # b /\ cl'[a].area # "bad" /\ cl'[b].area # "bad" => new[a] \cap new[b] = {}
  BY <1>4
<1>8. Clients' /\ GotFirst' /\ Apart' /\ NumberedInOrder'
  BY <1>1, <1>3, <1>4, <1>5, <1>6, <1>7, ManySteps
<1>9. OneRuns'
  <2> SUFFICES ASSUME NEW b \in Ids, cl'[b].active, cl'[b].area # "bad" PROVE b = c
    BY <1>1 DEF OneRuns
  <2>1. SUFFICES ASSUME b # c PROVE FALSE
    OBVIOUS
  <2>2. cl[b].active /\ cl[b].area # "bad" /\ Life(cl[b])
    BY <1>3, <2>1, Typed DEF Sound
  <2>3. b = current
    BY <2>2 DEF Inv, OneRuns
  <2>4. current # 0
    BY <1>5, <2>3 DEF Ids
  <2>5. cl[b].phase \in {"idle", "stopped", "error"}
    BY <1>1, <2>3, <2>4 DEF Running
  <2>6. QED  BY <2>2, <2>5 DEF Life
<1>10. StreamingIsVisible'
  BY <1>1 DEF StreamingIsVisible
<1>11. QED  BY <1>8, <1>9, <1>10 DEF Traffic

LEMMA StoppedTraffic ==
  ASSUME Inv, current # 0, cl' = Stopped(current), UNCHANGED <<current, visible, now, got>>
  PROVE  Traffic'
<1> DEFINE q == Stop(cl[current])
<1>1. current \in Ids
  BY SensorAssumption DEF Inv, Rest, Ids
<1>2. cl' = [cl EXCEPT ![current] = q]
  BY DEF Stopped
<1>3. Sound(q, now) /\ Calm(cl[current], q) /\ q.phase = "stopped"
  BY <1>1, Typed, StopSound
<1> HIDE DEF q
<1>4. q.phase # "streaming"
  BY <1>3
<1> DEFINE c == current
<1>5. c \in Ids /\ cl' = [cl EXCEPT ![c] = q] /\ Calm(cl[c], q) /\ c = current
  BY <1>1, <1>2, <1>3
<1> HIDE DEF c
<1>6. QED  BY <1>3, <1>4, <1>5, OneCalm

LEMMA CalmSame ==
  ASSUME Inv, NEW c \in Ids
  PROVE  Calm(cl[c], cl[c])
<1>1. now \in Nat /\ now <= now
  BY DEF Inv, Rest
<1>2. Steps(cl[c], cl[c], {})
  BY <1>1, Typed, LaterSound
<1>3. QED  BY <1>2 DEF Calm

LEMMA ServedTraffic ==
  ASSUME Inv, RequestServed
  PROVE  Traffic'
<1>1. UNCHANGED <<current, visible, now, got>>
  BY DEF RequestServed
<1>2. CASE cl' = cl
  BY <1>1, <1>2, TrafficSame
<1>3. CASE cl' = [c \in Ids |-> IF cl[c].dev = request.dev /\ cl[c].srv = "serving"
                                THEN [cl[c] EXCEPT !.srv = "closed"] ELSE cl[c]]
  <2>1. ASSUME NEW c \in Ids
        PROVE  Sound(cl'[c], now) /\ Calm(cl[c], cl'[c]) /\ cl'[c].phase = cl[c].phase
    <3> DEFINE q == [cl[c] EXCEPT !.srv = "closed"]
    <3>1. Sound(cl[c], now)
      BY Typed
    <3>2. Sound(q, now) /\ Calm(cl[c], q) /\ q.phase = cl[c].phase
      BY <3>1, EndedSound
    <3>3. cl'[c] = q \/ cl'[c] = cl[c]
      BY <1>3
    <3> HIDE DEF q
    <3>4. QED  BY <3>1, <3>2, <3>3, CalmSame
  <2>2. cl' = [c \in Ids |-> cl'[c]]
    BY <1>3
  <2>3. Clients' /\ OneRuns' /\ GotFirst' /\ Apart' /\ NumberedInOrder'
    BY <1>1, <2>1, <2>2, AllCalm
  <2>4. StreamingIsVisible'
    BY <1>1, <2>1 DEF Inv, StreamingIsVisible
  <2>5. QED  BY <2>3, <2>4 DEF Traffic
<1>4. QED  BY <1>2, <1>3 DEF RequestServed

LEMMA HideTraffic ==
  ASSUME Inv, Hide
  PROVE  Traffic'
<1>1. /\ UNCHANGED <<current, now, got>>
      /\ cl' = [c \in Ids |-> LET r == Released(cl[c])
                              IN  IF r.active THEN [r EXCEPT !.phase = "paused"] ELSE r]
  BY DEF Hide
<1>2. ASSUME NEW c \in Ids
      PROVE  Sound(cl'[c], now) /\ Calm(cl[c], cl'[c]) /\ cl'[c].phase # "streaming"
  <2> DEFINE r == cl[c]
             a == r.asked
             k == Locked(r, a, 0, FALSE, FALSE)
             t == k.retry
             q == Phased(k, t, "paused")
  <2>1. r \in Client /\ a \in Nat /\ Sound(r, now)
    BY Typed, ClientTypes
  <2>2. k = Released(r)
    BY <2>1 DEF Released, Client, Locked
  <2>3. Sound(k, now) /\ Calm(r, k) /\ k.phase = r.phase /\ k.active = r.active /\ k.area = r.area
    <3> HIDE DEF r, a
    <3>1. 0 \in Nat /\ FALSE \in BOOLEAN /\ ((FALSE \/ FALSE) => 0 > 0)
      OBVIOUS
    <3> DEFINE f == FALSE
               l == 0
    <3>2. k = Locked(r, a, l, f, f)
      OBVIOUS
    <3>3. l \in Nat /\ f \in BOOLEAN /\ (f \/ f => l > 0)
      BY <3>1
    <3> HIDE DEF f, l, k
    <3>4. QED  BY ONLY <2>1, <3>2, <3>3, LocksSound
  <2> HIDE DEF k, a
  <2>4. k \in Client /\ t \in 0..2
    BY <2>3, ClientTypes DEF Sound
  <2>5. cl'[c] = IF k.active THEN [k EXCEPT !.phase = "paused"] ELSE k
    BY <1>1, <2>2
  <2>6. CASE k.active
    <3>1. cl'[c] = q
      BY <2>4, <2>5, <2>6 DEF Phased, Client
    <3>2. "paused" \in Phases \ {"idle", "stopped"} /\ "paused" # "error"
      BY DEF Phases
    <3> HIDE DEF t
    <3>3. Sound(q, now) /\ Calm(k, q) /\ q.phase = "paused" /\ q.area = k.area
      BY <2>3, <2>4, <2>6, <3>2, PhaseSound
    <3> HIDE DEF q, r
    <3>4. Calm(r, q)
      BY <2>1, <2>3, <2>4, <3>3, CalmTwice DEF Sound
    <3>5. QED  BY <3>1, <3>3, <3>4 DEF r
  <2>7. CASE ~k.active
    <3>1. k.phase # "streaming"
      BY <2>3, <2>7 DEF Sound, Life
    <3>2. QED  BY <2>3, <2>5, <2>7, <3>1
  <2>8. QED  BY <2>6, <2>7
<1>3. cl' = [c \in Ids |-> cl'[c]]
  BY <1>1
<1>4. Clients' /\ OneRuns' /\ GotFirst' /\ Apart' /\ NumberedInOrder'
  BY <1>1, <1>2, <1>3, AllCalm
<1>5. StreamingIsVisible'
  BY <1>2 DEF StreamingIsVisible
<1>6. QED  BY <1>4, <1>5 DEF Traffic

LEMMA ShowTraffic ==
  ASSUME Inv, Show
  PROVE  Traffic'
<1>1. /\ UNCHANGED <<current, now, got>> /\ visible'
      /\ cl' = [c \in Ids |->
                  IF ~cl[c].active THEN cl[c]
                  ELSE [AcquireWake(cl[c], TRUE) EXCEPT
                          !.phase = IF cl[c].ws = "open" THEN "streaming" ELSE @]]
  BY DEF Show
<1>2. ASSUME NEW c \in Ids
      PROVE  Sound(cl'[c], now) /\ Calm(cl[c], cl'[c])
  <2> DEFINE r == cl[c]
             v == TRUE
             k == AcquireWake(r, v)
             t == k.retry
             p == IF r.ws = "open" THEN "streaming" ELSE k.phase
             q == Phased(k, t, p)
  <2>1. r \in Client /\ Sound(r, now)
    BY Typed
  <2>2. CASE ~r.active
    BY <1>1, <2>1, <2>2, CalmSame
  <2>3. CASE r.active
    <3>1. cl'[c] = [k EXCEPT !.phase = p]
      BY <1>1, <2>3
    <3> HIDE DEF v
    <3>2. Sound(k, now) /\ Calm(r, k) /\ k.phase = r.phase /\ k.active = r.active /\ k.area = r.area
      BY <2>1, AcquireSound
    <3> HIDE DEF k
    <3>3. k \in Client /\ t \in 0..2
      BY <3>2, ClientTypes DEF Sound
    <3>4. p \in Phases \ {"idle", "stopped"} /\ (p = "error" => k.area = "bad")
      BY <2>3, <3>2, <3>3, ClientTypes DEF Sound, Life, Phases
    <3>5. cl'[c] = q
      BY <3>1, <3>3 DEF Phased, Client
    <3> HIDE DEF t, p, r
    <3>6. Sound(q, now) /\ Calm(k, q) /\ q.area = k.area
      BY <2>3, <3>2, <3>3, <3>4, PhaseSound
    <3> HIDE DEF q
    <3>7. Calm(r, q)
      BY <2>1, <3>2, <3>3, <3>6, CalmTwice DEF Sound
    <3>8. QED  BY <3>5, <3>6, <3>7 DEF r
  <2>4. QED  BY <2>2, <2>3
<1>3. cl' = [c \in Ids |-> cl'[c]]
  BY <1>1
<1>4. Clients' /\ OneRuns' /\ GotFirst' /\ Apart' /\ NumberedInOrder'
  BY <1>1, <1>2, <1>3, AllCalm
<1>5. StreamingIsVisible'
  BY <1>1 DEF StreamingIsVisible
<1>6. QED  BY <1>4, <1>5 DEF Traffic

LEMMA ReloadTraffic ==
  ASSUME Inv, Reload
  PROVE  Traffic'
<1>1. /\ UNCHANGED <<now, got>> /\ visible' = TRUE
      /\ cl' = [c \in Ids |-> IF Idle(c) THEN cl[c]
                              ELSE [Unused EXCEPT !.phase = "stopped", !.dev = cl[c].dev, !.seq = cl[c].seq]]
  BY DEF Reload
<1>2. ASSUME NEW c \in Ids
      PROVE  Sound(cl'[c], now) /\ Calm(cl[c], cl'[c]) /\ ~cl'[c].active
  <2> DEFINE q == [Unused EXCEPT !.phase = "stopped", !.dev = cl[c].dev, !.seq = cl[c].seq]
  <2>1. Sound(cl[c], now)
    BY Typed
  <2>2. CASE Idle(c)
    BY <1>1, <2>1, <2>2, CalmSame DEF Idle, Sound, Life
  <2>3. CASE ~Idle(c)
    <3>1. Sound(q, now) /\ Steps(cl[c], q, {}) /\ ~q.active
      BY <2>1, ReloadedSound
    <3>2. cl'[c] = q
      BY <1>1, <2>3
    <3> HIDE DEF q
    <3>3. QED  BY <3>1, <3>2 DEF Calm
  <2>4. QED  BY <2>2, <2>3
<1>3. cl' = [c \in Ids |-> cl'[c]]
  BY <1>1
<1>4. Clients' /\ OneRuns' /\ GotFirst' /\ Apart' /\ NumberedInOrder'
  BY <1>1, <1>2, <1>3, AllCalm
<1>5. StreamingIsVisible'
  BY <1>1 DEF StreamingIsVisible
<1>6. QED  BY <1>4, <1>5 DEF Traffic

(* A second is of the one client that runs; those whose place is refused   *)
(* may queue it as well, and never send it.                                *)
LEMMA TickTraffic ==
  ASSUME Inv, NEW moved \in BOOLEAN, Tick(moved)
  PROVE  Traffic'
<1> DEFINE new == [c \in Ids |-> IF cl[c].active /\ moved THEN {now + 1} ELSE {}]
<1>1. /\ now' = now + 1 /\ UNCHANGED <<current, visible, got>>
      /\ cl' = [c \in Ids |-> IF cl[c].active THEN Flush(cl[c], moved) ELSE cl[c]]
  BY DEF Tick
<1>2. now \in Nat /\ now + 1 \in Nat /\ now <= now + 1 /\ now < now + 1
  BY DEF Inv, Rest
<1>3. new \in [Ids -> SUBSET Nat] /\ \A c \in Ids : new[c] = IF cl[c].active /\ moved THEN {now + 1} ELSE {}
  BY <1>2
<1> HIDE DEF new
<1>4. ASSUME NEW c \in Ids
      PROVE  /\ Sound(cl'[c], now') /\ Steps(cl[c], cl'[c], new[c]) /\ cl'[c].area = cl[c].area
             /\ cl'[c].active = cl[c].active /\ cl'[c].phase = cl[c].phase
  <2> DEFINE q == Flush(cl[c], moved)
             N == IF moved THEN {now + 1} ELSE {}
  <2>1. Sound(cl[c], now)
    BY Typed
  <2>2. CASE cl[c].active
    <3>1. Sound(q, now + 1) /\ Steps(cl[c], q, N) /\ q.area = cl[c].area
          /\ q.active = cl[c].active /\ q.phase = cl[c].phase
      BY <1>1, <1>2, <2>1, <2>2, FlushSound
    <3>2. cl'[c] = q /\ new[c] = N
      BY <1>1, <1>3, <2>2
    <3> HIDE DEF q, N
    <3>3. QED  BY <1>1, <3>1, <3>2
  <2>3. CASE ~cl[c].active
    <3>1. Sound(cl[c], now + 1) /\ Steps(cl[c], cl[c], {})
      BY <1>2, <2>1, LaterSound
    <3>2. cl'[c] = cl[c] /\ new[c] = {}
      BY <1>1, <1>3, <2>3
    <3>3. QED  BY <1>1, <3>1, <3>2
  <2>4. QED  BY <2>2, <2>3
<1>5. cl' = [c \in Ids |-> cl'[c]]
  BY <1>1
<1>6. \A c \in Ids : \A s \in new[c] : now < s /\ s <= now'
  BY <1>1, <1>2, <1>3
<1>7. \A b, c \in Ids : b # c /\ cl'[b].area # "bad" /\ cl'[c].area # "bad" => new[b] \cap new[c] = {}
  BY <1>3, <1>4 DEF Inv, OneRuns
<1>8. now' \in Nat /\ now <= now'
  BY <1>1, <1>2
<1>9. got' = got
  BY <1>1
<1>10. Clients' /\ GotFirst' /\ Apart' /\ NumberedInOrder'
  BY <1>3, <1>4, <1>5, <1>6, <1>7, <1>8, <1>9, ManySteps
<1>11. OneRuns'
  BY <1>1, <1>4 DEF Inv, OneRuns
<1>12. StreamingIsVisible'
  BY <1>1, <1>4 DEF Inv, StreamingIsVisible
<1>13. QED  BY <1>10, <1>11, <1>12 DEF Traffic

-----------------------------------------------------------------------------
(* The night log after each step.                                          *)

LEMMA EmptyLog ==
  ASSUME NEW n
  PROVE  LogOK(NoLog, n)
<1>1. NoLog \in Log /\ NoLog.rows = <<>> /\ DOMAIN <<>> = {} /\ Len(<<>>) = 0
  BY DEF NoLog, Log
<1>2. Len(NoLog.rows) <= MaxRows
  BY <1>1, SensorAssumption
<1>3. QED  BY <1>1, <1>2 DEF LogOK, Rising

LEMMA NewLog ==
  ASSUME Rest
  PROVE  LogOK([none |-> FALSE, start |-> now, rows |-> <<>>], now)
<1> DEFINE l == [none |-> FALSE, start |-> now, rows |-> <<>>]
<1>1. l \in Log /\ l.rows = <<>> /\ DOMAIN <<>> = {} /\ Len(<<>>) = 0
  BY DEF Rest, Log
<1>2. Len(l.rows) <= MaxRows
  BY <1>1, SensorAssumption
<1>3. QED  BY <1>1, <1>2 DEF LogOK, Rising

(* The row of a second goes behind all others, and the oldest goes.        *)
LEMMA RowsAdded ==
  ASSUME Rest, Logs, now' = now + 1, NEW k \in {0, 1}
  PROVE  LogOK(AddRows(k), now')
<1> DEFINE x == night.rows
           y == [i \in 1..k |-> now']
           a == x \o y
           L == Len(a)
           f == L - MaxRows + 1
           b == IF L > MaxRows THEN SubSeq(a, f, L) ELSE a
           N == now'
<1>1. /\ now \in Nat /\ N = now + 1 /\ N \in Nat /\ now < N
      /\ LogOK(night, now) /\ night \in Log /\ x \in Seq(Nat) /\ MaxRows \in Nat \ {0}
  BY SensorAssumption DEF Rest, Logs, LogOK, Log
<1>2. y \in Seq(Nat) /\ Len(y) = k /\ DOMAIN y = 1..k /\ \A i \in 1..k : y[i] = N
  <2>1. y \in [1..k -> Nat] /\ k \in Nat
    BY <1>1
  <2>2. DOMAIN y = 1..k /\ \A i \in 1..k : y[i] = N
    OBVIOUS
  <2> HIDE DEF y
  <2>3. QED  BY <2>1, <2>2, FunctionIsSeq
<1>3. /\ Len(x) \in Nat /\ DOMAIN x = 1..Len(x) /\ Len(x) <= MaxRows /\ Rising(x)
      /\ \A i \in DOMAIN x : x[i] <= now /\ x[i] \in Nat
  <2>1. DOMAIN x = 1..Len(x) /\ Len(x) \in Nat
    BY <1>1, LenProperties
  <2>2. \A i \in DOMAIN x : x[i] \in Nat
    BY <1>1, <2>1, ElementOfSeq
  <2>3. QED  BY <1>1, <2>1, <2>2 DEF LogOK
<1> HIDE DEF x, y, N
<1>4. /\ a \in Seq(Nat) /\ L = Len(x) + Len(y) /\ DOMAIN a = 1..L
      /\ \A i \in DOMAIN a : \/ i \in DOMAIN x /\ a[i] = x[i]
                             \/ i > Len(x) /\ i - Len(x) \in DOMAIN y /\ a[i] = y[i - Len(x)]
  BY <1>1, <1>2, Concatenated
<1> HIDE DEF a
<1>5. \A i \in DOMAIN a : \/ i \in DOMAIN x /\ a[i] = x[i]
                          \/ i = Len(x) + 1 /\ a[i] = N
  BY <1>2, <1>3, <1>4
<1>6. \A i \in DOMAIN a : a[i] \in Nat /\ a[i] <= N
  BY <1>1, <1>3, <1>5
<1>7. Rising(a)
  <2> SUFFICES ASSUME NEW i \in DOMAIN a, NEW j \in DOMAIN a, i < j PROVE a[i] < a[j]
    BY DEF Rising
  <2>1. CASE j \in DOMAIN x /\ a[j] = x[j]
    <3>1. i \in DOMAIN x /\ a[i] = x[i]
      BY <1>3, <1>4, <1>5, <2>1
    <3>2. QED  BY <1>3, <2>1, <3>1 DEF Rising
  <2>2. CASE j = Len(x) + 1 /\ a[j] = N
    <3>1. i \in DOMAIN x /\ a[i] = x[i]
      BY <1>5, <2>2
    <3>2. x[i] <= now /\ x[i] \in Nat
      BY <1>3, <3>1
    <3>3. QED  BY <1>1, <2>2, <3>1, <3>2
  <2>3. QED  BY <1>5, <2>1, <2>2
<1>8. /\ b \in Seq(Nat) /\ Len(b) <= MaxRows /\ Rising(b)
      /\ \A i \in DOMAIN b : b[i] <= N
  <2>1. CASE ~ (L > MaxRows)
    BY <1>1, <1>2, <1>3, <1>4, <1>6, <1>7, <2>1
  <2>2. CASE L > MaxRows
    <3>1. L \in Nat /\ f \in Int /\ f >= 1 /\ L \in Int /\ f <= L /\ L - f + 1 = MaxRows
      BY <1>1, <1>2, <1>3, <1>4, <2>2
    <3>2. b = SubSeq(a, f, L)
      BY <2>2
    <3>3. \A i \in f..L : a[i] \in Nat
      BY <1>4, <1>6, <3>1
    <3> HIDE DEF b, f, L
    <3>4. /\ b \in Seq(Nat) /\ Len(b) = MaxRows
          /\ \A i \in 1..MaxRows : b[i] = a[f + i - 1]
      BY <3>1, <3>2, <3>3, SubSeqProperties
    <3>5. DOMAIN b = 1..MaxRows
      BY <3>4, LenProperties
    <3>6. \A i \in DOMAIN b : f + i - 1 \in DOMAIN a /\ b[i] = a[f + i - 1]
      <4>1. \A i \in 1..MaxRows : f + i - 1 \in 1..L
        BY <1>1, <3>1
      <4>2. QED  BY <1>4, <3>4, <3>5, <4>1
    <3>7. \A i, j \in DOMAIN b : i < j => f + i - 1 < f + j - 1
      BY <1>1, <3>1, <3>5
    <3>8. Rising(b)
      BY <1>7, <3>6, <3>7 DEF Rising
    <3>9. \A i \in DOMAIN b : b[i] <= N
      BY <1>6, <3>6
    <3>10. Len(b) <= MaxRows
      BY <1>1, <3>4
    <3>11. QED  BY <3>4, <3>8, <3>9, <3>10
  <2>3. QED  BY <2>1, <2>2
<1>9. AddRows(k) = IF night.none THEN night ELSE [night EXCEPT !.rows = b]
  BY DEF AddRows, a, b, L, f, x, y
<1> HIDE DEF b
<1>10. CASE night.none
  <2>1. \A i \in DOMAIN x : x[i] <= N
    BY <1>1, <1>3
  <2>2. LogOK(night, N)
    BY <1>1, <2>1 DEF LogOK, x
  <2>3. QED  BY <1>9, <1>10, <2>2 DEF N
<1>11. CASE ~night.none
  <2> DEFINE l == [night EXCEPT !.rows = b]
  <2>1. l \in Log /\ l.rows = b
    BY <1>1, <1>8 DEF Log
  <2> HIDE DEF l
  <2>2. LogOK(l, N)
    BY <1>8, <2>1 DEF LogOK
  <2>3. QED  BY <1>9, <1>11, <2>2 DEF l, N
<1>12. QED  BY <1>10, <1>11

LEMMA DetachLogs ==
  ASSUME Inv, NEW keep, keep \subseteq Ids, \A b, c \in keep : b = c, DetachNightLog(keep),
         now' = now, LogOK(night', now)
  PROVE  Logs'
BY DEF Inv, Logs, DetachNightLog

LEMMA LogsSame ==
  ASSUME Inv, UNCHANGED <<night, saved, attached, now>>
  PROVE  Logs'
BY DEF Inv, Logs

LEMMA StartLogs ==
  ASSUME Inv, NEW c \in Ids, StartStreaming(c)
  PROVE  Logs'
<1>1. AttachNightLog(c) /\ now' = now
  BY DEF StartStreaming
<1>2. LogOK(NightLog, now)
  BY DEF Inv, Logs, NightLog
<1>3. LogOK(night', now)
  BY <1>1, <1>2, NewLog DEF Inv, AttachNightLog
<1>4. {c} \subseteq Ids /\ \A a, b \in {c} : a = b
  OBVIOUS
<1> DEFINE keep == {c}
<1>5. DetachNightLog(keep) /\ keep \subseteq Ids /\ \A a, b \in keep : a = b
  BY <1>1, <1>4 DEF AttachNightLog
<1> HIDE DEF keep
<1>6. QED  BY <1>1, <1>3, <1>5, DetachLogs

LEMMA TickLogs ==
  ASSUME Inv, NEW moved \in BOOLEAN, Tick(moved)
  PROVE  Logs'
<1> DEFINE S == {c \in attached : cl[c].active}
           k == IF moved THEN Cardinality(S) ELSE 0
<1>1. now' = now + 1 /\ night' = AddRows(k) /\ UNCHANGED <<saved, attached>>
  BY DEF Tick
<1>2. attached \subseteq Ids /\ \A b, c \in attached : b = c
  BY DEF Inv, Logs
<1>3. Cardinality(S) \in {0, 1}
  <2>1. CASE S = {}
    BY <2>1, FS_EmptySet
  <2>2. CASE S # {}
    <3>1. PICK c : c \in S
      BY <2>2
    <3>2. S = {c}
      BY <1>2, <3>1
    <3>3. QED  BY <3>2, FS_Singleton
  <2>3. QED  BY <2>1, <2>2
<1>4. k \in {0, 1}
  BY <1>3
<1> HIDE DEF k
<1>5. LogOK(night', now')
  BY <1>1, <1>4, RowsAdded DEF Inv
<1>6. LogOK(saved, now')
  <2>1. LogOK(saved, now) /\ now \in Nat
    BY DEF Inv, Logs, Rest
  <2>2. saved.rows \in Seq(Nat)
    BY <2>1 DEF LogOK, Log
  <2>3. \A i \in DOMAIN saved.rows : saved.rows[i] \in Nat
    <3>1. DOMAIN saved.rows = 1..Len(saved.rows)
      BY <2>2, LenProperties
    <3>2. QED  BY <2>2, <3>1, ElementOfSeq
  <2>4. \A i \in DOMAIN saved.rows : saved.rows[i] <= now'
    BY <1>1, <2>1, <2>3 DEF LogOK
  <2>5. QED  BY <2>1, <2>4 DEF LogOK
<1>7. QED  BY <1>1, <1>2, <1>5, <1>6 DEF Logs

LEMMA StopLogs ==
  ASSUME Inv, DetachNightLog({}), UNCHANGED <<night, now>>
  PROVE  Logs'
<1>1. LogOK(night', now)
  BY DEF Inv, Logs
<1> DEFINE keep == {}
<1>2. DetachNightLog(keep) /\ keep \subseteq Ids /\ \A a, b \in keep : a = b
  OBVIOUS
<1> HIDE DEF keep
<1>3. QED  BY <1>1, <1>2, DetachLogs

LEMMA ReloadLogs ==
  ASSUME Inv, Reload
  PROVE  Logs'
<1>1. night' = NoLog /\ attached' = {} /\ UNCHANGED <<saved, now>>
  BY DEF Reload
<1>2. LogOK(night', now')
  BY <1>1, EmptyLog
<1>3. QED  BY <1>1, <1>2 DEF Inv, Logs

LEMMA NightLogs ==
  ASSUME Inv, SaveNightLog \/ ClearNightLog \/ ShowNight
  PROVE  Logs'
<1>1. CASE SaveNightLog
  BY <1>1 DEF Inv, Logs, SaveNightLog
<1>2. CASE ClearNightLog
  <2>1. night' = NoLog /\ saved' = NoLog /\ UNCHANGED <<attached, now>>
    BY <1>2 DEF ClearNightLog
  <2>2. LogOK(night', now') /\ LogOK(saved', now')
    BY <2>1, EmptyLog
  <2>3. QED  BY <2>1, <2>2 DEF Inv, Logs
<1>3. CASE ShowNight
  BY <1>3 DEF Inv, Logs, ShowNight, NightLog
<1>4. QED  BY <1>1, <1>2, <1>3

-----------------------------------------------------------------------------
(* Enrolment and deletion after each step: the server's record of a        *)
(* device goes from unused to live, and from there to gone.                *)

Keys == Requests /\ ToldDeleted

LEMMA KeysSame ==
  ASSUME Inv, UNCHANGED <<creds, registered, request, told>>
  PROVE  Keys'
BY DEF Inv, Keys, Requests, ToldDeleted

LEMMA SentKeys ==
  ASSUME Inv, EnrollSend \/ DeleteSend
  PROVE  Keys'
<1>1. UNCHANGED <<creds, registered, told>> /\ creds \in Devices \cup {"none"}
  BY DEF EnrollSend, DeleteSend, Inv, Rest
<1>2. CASE EnrollSend
  BY <1>1, <1>2 DEF EnrollSend, Inv, Keys, Requests, ToldDeleted
<1>3. CASE DeleteSend
  BY <1>1, <1>3 DEF DeleteSend, Inv, Keys, Requests, ToldDeleted
<1>4. QED  BY <1>2, <1>3

LEMMA ServedKeys ==
  ASSUME Inv, RequestServed
  PROVE  Keys' /\ registered' \in [Devices -> {"unused", "live", "gone"}]
<1>1. /\ registered \in [Devices -> {"unused", "live", "gone"}] /\ told \subseteq Devices
      /\ \A d \in told : registered[d] = "gone" /\ creds # d
      /\ request \in [kind : {"none", "enroll", "delete"}, dev : Devices \cup {"none"},
                      stage : {"none", "sent", "answered"}]
      /\ request.kind = "delete" => request.dev \in Devices
  BY DEF Inv, Rest, ToldDeleted, Requests
<1>2. UNCHANGED <<creds, told>>
  BY DEF RequestServed
<1>3. CASE /\ request.kind = "enroll"
           /\ \E d \in Devices :
                /\ registered[d] = "unused"
                /\ registered' = [registered EXCEPT ![d] = "live"]
                /\ request' = [request EXCEPT !.stage = "answered", !.dev = d]
  <2>1. PICK d \in Devices : /\ registered[d] = "unused"
                             /\ registered' = [registered EXCEPT ![d] = "live"]
                             /\ request' = [request EXCEPT !.stage = "answered", !.dev = d]
    BY <1>3
  <2>2. /\ request'.kind = "enroll" /\ request'.stage = "answered" /\ request'.dev = d
        /\ request' \in [kind : {"none", "enroll", "delete"}, dev : Devices \cup {"none"},
                         stage : {"none", "sent", "answered"}]
    BY <1>1, <1>3, <2>1
  <2>3. registered'[d] = "live" /\ registered' \in [Devices -> {"unused", "live", "gone"}]
    BY <1>1, <2>1
  <2>4. Requests'
    BY <2>2, <2>3 DEF Requests
  <2>5. ToldDeleted'
    BY <1>1, <1>2, <2>1 DEF ToldDeleted
  <2>6. QED  BY <2>3, <2>4, <2>5 DEF Keys
<1>4. CASE /\ request.kind = "delete"
           /\ registered' = [registered EXCEPT ![request.dev] = "gone"]
           /\ request' = [request EXCEPT !.stage = "answered"]
  <2>1. request.dev \in Devices
    BY <1>1, <1>4
  <2>2. /\ request'.kind = "delete" /\ request'.stage = "answered" /\ request'.dev = request.dev
        /\ request' \in [kind : {"none", "enroll", "delete"}, dev : Devices \cup {"none"},
                         stage : {"none", "sent", "answered"}]
    BY <1>1, <1>4
  <2>3. registered'[request.dev] = "gone" /\ registered' \in [Devices -> {"unused", "live", "gone"}]
    BY <1>1, <1>4, <2>1
  <2>4. Requests'
    BY <2>1, <2>2, <2>3 DEF Requests
  <2>5. ToldDeleted'
    BY <1>1, <1>2, <1>4 DEF ToldDeleted
  <2>6. QED  BY <2>3, <2>4, <2>5 DEF Keys
<1>5. QED  BY <1>3, <1>4 DEF RequestServed

LEMMA NoRequestKeys ==
  ASSUME Inv, request' = NoRequest, UNCHANGED registered,
         told' = told /\ creds' \in {creds, "none"}
  PROVE  Keys'
<1>1. "none" \notin told
  BY SensorAssumption DEF Inv, Rest
<1>2. ToldDeleted'
  BY <1>1 DEF Inv, ToldDeleted
<1>3. Requests'
  BY DEF NoRequest, Requests
<1>4. QED  BY <1>2, <1>3 DEF Keys

LEMMA AnsweredKeys ==
  ASSUME Inv, RequestAnswered
  PROVE  Keys' /\ creds' \in Devices \cup {"none"} /\ told' \subseteq Devices /\ area' \in Areas
<1>1. request' = NoRequest /\ UNCHANGED registered /\ request.dev \in Devices
  BY DEF RequestAnswered, Inv, Requests
<1>2. Requests'
  BY <1>1 DEF NoRequest, Requests
<1>3. told \subseteq Devices /\ area \in Areas /\ "none" \notin Devices
      /\ \A d \in told : registered[d] = "gone" /\ creds # d
  BY SensorAssumption DEF Inv, Rest, ToldDeleted
<1>4. CASE request.kind = "enroll" /\ creds' = request.dev /\ UNCHANGED <<area, told>>
  <2>1. registered[request.dev] = "live"
    BY <1>4 DEF RequestAnswered, Inv, Requests
  <2>2. ToldDeleted'
    BY <1>1, <1>3, <1>4, <2>1 DEF ToldDeleted
  <2>3. QED  BY <1>1, <1>2, <1>3, <1>4, <2>2 DEF Keys
<1>5. CASE /\ request.kind = "delete" /\ creds' = "none" /\ area' = "none"
           /\ told' = told \cup {request.dev}
  <2>1. registered[request.dev] = "gone"
    BY <1>5 DEF RequestAnswered, Inv, Requests
  <2>2. ToldDeleted'
    BY <1>1, <1>3, <1>5, <2>1 DEF ToldDeleted
  <2>3. QED  BY <1>1, <1>2, <1>3, <1>5, <2>2 DEF Keys, Areas
<1>6. QED  BY <1>4, <1>5 DEF RequestAnswered

(* An answer that the device is unknown makes the phone forget it.         *)
LEMMA ReceiveKeys ==
  ASSUME Inv, NEW c \in Ids, Receive(c)
  PROVE  /\ Keys' /\ creds' \in Devices \cup {"none"} /\ area' \in Areas
         /\ UNCHANGED <<registered, told>>
<1>1. /\ UNCHANGED <<registered, request, told>>
      /\ \/ UNCHANGED <<creds, area>>
         \/ creds' = "none" /\ area' = "none"
  <2>1. Head(cl[c].down) \in Answer
    BY Typed, TailSound DEF Receive
  <2>2. QED  BY <2>1 DEF Receive, keys, Answer
<1>2. creds \in Devices \cup {"none"} /\ area \in Areas /\ "none" \notin told
  BY SensorAssumption DEF Inv, Rest
<1>3. ToldDeleted'
  BY <1>1, <1>2 DEF Inv, ToldDeleted
<1>4. Requests'
  BY <1>1 DEF Inv, Requests
<1>5. QED  BY <1>1, <1>2, <1>3, <1>4 DEF Keys, Areas

-----------------------------------------------------------------------------
(* The invariant.                                                          *)

LEMMA Parts ==
  ASSUME Traffic', Logs', Keys', Rest'
  PROVE  Inv'
BY DEF Traffic, Keys, Inv

LEMMA InitInv ==
  Init => Inv
<1> SUFFICES ASSUME Init PROVE Inv
  OBVIOUS
<1>1. /\ <<>> \in Seq(Message) /\ <<>> \in Seq(Answer) /\ <<>> \in Seq(Nat) /\ DOMAIN <<>> = {}
      /\ Len(<<>>) = 0 /\ now = 0 /\ got = <<>> /\ cl = [c \in Ids |-> Unused]
      /\ night = NoLog /\ saved = NoLog /\ attached = {} /\ told = {} /\ request = NoRequest
  BY DEF Init
<1>2. Sound(Unused, 0)
  <2>1. "idle" \in Phases /\ "none" \in Areas /\ 0 \in 0..2
    BY DEF Phases, Areas
  <2>2. Unused \in Client
    BY <1>1, <2>1 DEF Client, Message, Answer, Unused
  <2>3. Len(Unused.queue) <= MaxQueue
    BY <1>1, SensorAssumption DEF Unused
  <2>4. Life(Unused) /\ Wake(Unused) /\ Talk(Unused)
    BY <1>1 DEF Life, Wake, Talk, Unused
  <2>5. Line(Unused, 0)
    BY <1>1 DEF Line, Rising, Unused
  <2>6. QED  BY <2>2, <2>3, <2>4, <2>5 DEF Sound
<1>3. Clients
  BY <1>1, <1>2 DEF Clients
<1>4. OneRuns /\ StreamingIsVisible
  BY <1>1 DEF OneRuns, StreamingIsVisible, Unused
<1>5. GotFirst /\ NumberedInOrder
  BY <1>1 DEF GotFirst, NumberedInOrder
<1>6. Apart
  <2>1. \A c \in Ids : cl[c].up = <<>> /\ cl[c].queue = <<>>
    BY <1>1 DEF Unused
  <2>2. \A c \in Ids, s \in Nat : ~Secs(c, s)
    BY <1>1, <2>1 DEF Secs, Has
  <2>3. QED  BY <1>1, <2>2 DEF Apart
<1>7. Logs
  BY <1>1, EmptyLog DEF Logs
<1>8. Requests /\ ToldDeleted
  BY <1>1 DEF Requests, ToldDeleted, NoRequest
<1>9. Rest
  <2>1. current \in 0..MaxClients
    BY SensorAssumption DEF Init
  <2>2. creds \in Devices \cup {"none"}
    BY SensorAssumption DEF Init
  <2>3. got \in Seq([from : Ids, seq : Nat, sec : Nat])
    BY <1>1
  <2>4. fetching \in BOOLEAN /\ recent \in BOOLEAN
    BY DEF Init
  <2>5. QED  BY <2>1, <2>2, <2>3, <2>4 DEF Init, Rest
<1>10. QED  BY <1>3, <1>4, <1>5, <1>6, <1>7, <1>8, <1>9 DEF Inv

(* One step for each action, and under it one for each part of the         *)
(* invariant.                                                              *)
LEMMA NextInv ==
  Inv /\ [Next]_vars => Inv'
<1> SUFFICES ASSUME Inv, [Next]_vars PROVE Inv'
  OBVIOUS
<1>1. Rest
  BY DEF Inv
<1>2. ASSUME UNCHANGED <<cl, current, visible, now, got>> PROVE Traffic'
  BY <1>2, TrafficSame
<1>3. ASSUME UNCHANGED <<night, saved, attached, now>> PROVE Logs'
  BY <1>3, LogsSame
<1>4. ASSUME UNCHANGED <<creds, registered, request, told>> PROVE Keys'
  BY <1>4, KeysSame
<1>5. CASE UNCHANGED vars
  <2>1. Traffic' /\ Logs' /\ Keys'
    BY <1>2, <1>3, <1>4, <1>5 DEF vars, keys, log
  <2>2. Rest'
    BY <1>1, <1>5 DEF Rest, vars, keys, net
  <2>3. QED  BY <2>1, <2>2, Parts
<1>6. ASSUME NEW c \in Ids, Opened(c) PROVE Inv'
  <2>1. Traffic'
    BY <1>6, OpenedTraffic
  <2>2. Logs' /\ Keys'
    BY <1>3, <1>4, <1>6 DEF Opened, keys, log
  <2>3. Rest'
    BY <1>1, <1>6 DEF Rest, Opened, keys, net
  <2>4. QED  BY <2>1, <2>2, <2>3, Parts
<1>7. ASSUME NEW c \in Ids, ServerCloses(c) \/ ConnectionLost(c) PROVE Inv'
  <2>1. /\ OnClose(c) /\ cl[c].ws \in {"connecting", "open"}
        /\ UNCHANGED <<current, visible, keys, url, listed, now, log, got>>
    BY <1>7 DEF ServerCloses, ConnectionLost
  <2>2. Traffic'
    BY <2>1, CloseTraffic
  <2>3. Logs' /\ Keys'
    BY <1>3, <1>4, <2>1 DEF keys, log
  <2>4. Rest'
    BY <1>1, <2>1 DEF Rest, OnClose, RefreshBackend, keys
  <2>5. QED  BY <2>2, <2>3, <2>4, Parts
<1>8. ASSUME NEW c \in Ids, DelayedConnect(c) PROVE Inv'
  <2>1. Traffic'
    BY <1>8, DelayedTraffic
  <2>2. Logs' /\ Keys'
    BY <1>3, <1>4, <1>8 DEF DelayedConnect, keys, log
  <2>3. Rest'
    BY <1>1, <1>8 DEF Rest, DelayedConnect, keys, net
  <2>4. QED  BY <2>1, <2>2, <2>3, Parts
<1>9. ASSUME NEW c \in Ids, Receive(c) PROVE Inv'
  <2>1. Traffic'
    BY <1>9, ReceiveTraffic
  <2>2. UNCHANGED <<current, visible, net, now, log, got>>
    BY <1>9 DEF Receive
  <2>3. Logs'
    BY <1>3, <2>2 DEF log
  <2>4. Keys' /\ Rest'
    BY <1>1, <1>9, <2>2, ReceiveKeys DEF Rest, net
  <2>5. QED  BY <2>1, <2>3, <2>4, Parts
<1>10. ASSUME NEW c \in Ids, Sync(c) PROVE Inv'
  <2>1. Traffic'
    BY <1>10, SyncTraffic
  <2>2. Logs' /\ Keys'
    BY <1>3, <1>4, <1>10 DEF Sync, keys, log
  <2>3. Rest'
    BY <1>1, <1>10 DEF Rest, Sync, keys, net
  <2>4. QED  BY <2>1, <2>2, <2>3, Parts
<1>11. ASSUME NEW c \in Ids, WakeAnswer(c) PROVE Inv'
  <2>1. Traffic'
    BY <1>11, WakeTraffic
  <2>2. Logs' /\ Keys'
    BY <1>3, <1>4, <1>11 DEF WakeAnswer, keys, log
  <2>3. Rest'
    BY <1>1, <1>11 DEF Rest, WakeAnswer, keys, net
  <2>4. QED  BY <2>1, <2>2, <2>3, Parts
<1>12. ASSUME NEW c \in Ids, ServerTakes(c) PROVE Inv'
  <2>1. Traffic'
    BY <1>12, TalkTraffic, BatchTraffic
  <2>2. Logs' /\ Keys'
    BY <1>3, <1>4, <1>12 DEF ServerTakes, keys, log
  <2>3. got' \in Seq([from : Ids, seq : Nat, sec : Nat])
    <3> DEFINE m == Head(cl[c].up)
               e == [from |-> c, seq |-> m.seq, sec |-> m.sec]
               S == [from : Ids, seq : Nat, sec : Nat]
    <3>1. got' = Append(got, e) \/ got' = got
      BY <1>12 DEF ServerTakes
    <3>2. m \in Message
      BY <1>12, Typed, ClientTypes, HeadTailProperties DEF ServerTakes
    <3>3. e \in S
      BY <3>2 DEF Message
    <3>4. got \in Seq(S)
      BY <1>1 DEF Rest
    <3> HIDE DEF e, S
    <3>5. Append(got, e) \in Seq(S)
      BY <3>3, <3>4, AppendProperties
    <3>6. QED  BY <3>1, <3>4, <3>5 DEF S
  <2>4. Rest'
    BY <1>1, <1>12, <2>3 DEF Rest, ServerTakes, keys, net
  <2>5. QED  BY <2>1, <2>2, <2>4, Parts
<1>13. ASSUME NEW c \in Ids, StartStreaming(c) PROVE Inv'
  <2>1. Traffic' /\ Logs'
    BY <1>13, StartTraffic, StartLogs
  <2>2. Keys'
    BY <1>4, <1>13 DEF StartStreaming, keys
  <2>3. c \in 0..MaxClients
    BY SensorAssumption DEF Ids
  <2>4. Rest'
    BY <1>1, <1>13, <2>3 DEF Rest, StartStreaming, keys, net
  <2>5. QED  BY <2>1, <2>2, <2>4, Parts
<1>14. ASSUME NEW moved \in BOOLEAN, Tick(moved) PROVE Inv'
  <2>1. Traffic' /\ Logs'
    BY <1>14, TickTraffic, TickLogs
  <2>2. Keys'
    BY <1>4, <1>14 DEF Tick, keys
  <2>3. Rest'
    BY <1>1, <1>14 DEF Rest, Tick, keys, net
  <2>4. QED  BY <2>1, <2>2, <2>3, Parts
<1>15. ASSUME NEW a \in Areas, SetLocation(a) PROVE Inv'
  <2>1. Traffic' /\ Logs' /\ Keys'
    BY <1>2, <1>3, <1>4, <1>15 DEF SetLocation, log
  <2>2. Rest'
    BY <1>1, <1>15 DEF Rest, SetLocation, net
  <2>3. QED  BY <2>1, <2>2, Parts
<1>16. CASE Hide
  <2>1. Traffic'
    BY <1>16, HideTraffic
  <2>2. Logs' /\ Keys'
    BY <1>3, <1>4, <1>16 DEF Hide, keys, log
  <2>3. Rest'
    BY <1>1, <1>16 DEF Rest, Hide, keys, net
  <2>4. QED  BY <2>1, <2>2, <2>3, Parts
<1>17. CASE Show
  <2>1. Traffic'
    BY <1>17, ShowTraffic
  <2>2. Logs' /\ Keys'
    BY <1>3, <1>4, <1>17 DEF Show, keys, log
  <2>3. Rest'
    BY <1>1, <1>17 DEF Rest, Show, keys, net
  <2>4. QED  BY <2>1, <2>2, <2>3, Parts
<1>18. CASE StopStreaming
  <2>1. Traffic'
    BY <1>18, StoppedTraffic DEF StopStreaming
  <2>2. Logs'
    BY <1>18, StopLogs DEF StopStreaming
  <2>3. Keys'
    BY <1>4, <1>18 DEF StopStreaming, keys
  <2>4. Rest'
    BY <1>1, <1>18 DEF Rest, StopStreaming, keys, net
  <2>5. QED  BY <2>1, <2>2, <2>3, <2>4, Parts
<1>19. CASE EnrollSend
  <2>1. Traffic' /\ Logs'
    BY <1>2, <1>3, <1>19 DEF EnrollSend, log
  <2>2. Keys'
    BY <1>19, SentKeys
  <2>3. Rest'
    BY <1>1, <1>19 DEF Rest, EnrollSend, net
  <2>4. QED  BY <2>1, <2>2, <2>3, Parts
<1>20. CASE DeleteSend
  <2>1. /\ UNCHANGED <<current, visible, now, night, got>>
        /\ \/ UNCHANGED <<cl, saved, attached>>
           \/ current # 0 /\ cl' = Stopped(current) /\ DetachNightLog({})
    BY <1>20 DEF DeleteSend
  <2>2. Traffic'
    BY <1>2, <2>1, StoppedTraffic
  <2>3. Logs'
    BY <1>3, <2>1, StopLogs
  <2>4. Keys'
    BY <1>20, SentKeys
  <2>5. Rest'
    BY <1>1, <1>20 DEF Rest, DeleteSend, net
  <2>6. QED  BY <2>2, <2>3, <2>4, <2>5, Parts
<1>21. CASE RequestServed
  <2>1. Traffic' /\ Keys' /\ registered' \in [Devices -> {"unused", "live", "gone"}]
    BY <1>21, ServedTraffic, ServedKeys
  <2>2. UNCHANGED <<current, visible, creds, area, told, net, now, log, got>>
    BY <1>21 DEF RequestServed
  <2>3. Logs'
    BY <1>3, <2>2 DEF log
  <2>4. Rest'
    BY <1>1, <2>1, <2>2 DEF Rest, net
  <2>5. QED  BY <2>1, <2>3, <2>4, Parts
<1>22. CASE RequestFails
  <2>1. Traffic' /\ Logs'
    BY <1>2, <1>3, <1>22 DEF RequestFails, log
  <2>2. Keys'
    BY <1>22, NoRequestKeys DEF RequestFails
  <2>3. Rest'
    BY <1>1, <1>22 DEF Rest, RequestFails, net
  <2>4. QED  BY <2>1, <2>2, <2>3, Parts
<1>23. CASE RequestAnswered
  <2>1. UNCHANGED <<cl, current, visible, registered, net, now, log, got>>
    BY <1>23 DEF RequestAnswered
  <2>2. Traffic' /\ Logs'
    BY <1>2, <1>3, <2>1 DEF log
  <2>3. Keys' /\ Rest'
    BY <1>1, <1>23, <2>1, AnsweredKeys DEF Rest, net
  <2>4. QED  BY <2>2, <2>3, Parts
<1>24. CASE Reload
  <2>1. Traffic' /\ Logs'
    BY <1>24, ReloadTraffic, ReloadLogs
  <2>2. Keys'
    BY <1>24, NoRequestKeys DEF Reload
  <2>3. 0 \in 0..MaxClients
    BY SensorAssumption
  <2>4. Rest'
    BY <1>1, <1>24, <2>3 DEF Rest, Reload
  <2>5. QED  BY <2>1, <2>2, <2>4, Parts
<1>25. CASE RefreshAnswer \/ RefreshFails \/ RefreshAllowed \/ BackendMoves
  <2>1. UNCHANGED <<cl, current, visible, keys, now, log, got>>
    BY <1>25 DEF RefreshAnswer, RefreshFails, RefreshAllowed, BackendMoves
  <2>2. Traffic' /\ Logs' /\ Keys'
    BY <1>2, <1>3, <1>4, <2>1 DEF keys, log
  <2>3. url' \in {"old", "new"} /\ listed' \in {"old", "new"} /\ fetching' \in BOOLEAN /\ recent' \in BOOLEAN
    BY <1>1, <1>25 DEF Rest, RefreshAnswer, RefreshFails, RefreshAllowed, BackendMoves
  <2>4. Rest'
    BY <1>1, <2>1, <2>3 DEF Rest, keys
  <2>5. QED  BY <2>2, <2>4, Parts
<1>26. CASE SaveNightLog \/ ClearNightLog \/ ShowNight
  <2>1. UNCHANGED <<cl, current, visible, keys, net, now, got>>
    BY <1>26 DEF SaveNightLog, ClearNightLog, ShowNight
  <2>2. Traffic' /\ Keys'
    BY <1>2, <1>4, <2>1 DEF keys
  <2>3. Logs'
    BY <1>26, NightLogs
  <2>4. Rest'
    BY <1>1, <2>1 DEF Rest, keys, net
  <2>5. QED  BY <2>2, <2>3, <2>4, Parts
<1>27. QED
  BY <1>5, <1>6, <1>7, <1>8, <1>9, <1>10, <1>11, <1>12, <1>13, <1>14, <1>15, <1>16, <1>17, <1>18,
     <1>19, <1>20, <1>21, <1>22, <1>23, <1>24, <1>25, <1>26 DEF Next, Page

(* Every variable has its type, and neither the queue of a client nor the  *)
(* night log outgrows its bound (flush, the tap of attachNightLog).        *)
THEOREM TypeCorrect == Spec => []TypeOK
<1>1. Inv => TypeOK
  <2> SUFFICES ASSUME Inv PROVE TypeOK
    OBVIOUS
  <2>1. /\ cl \in [Ids -> Client] /\ \A c \in Ids : Len(cl[c].queue) <= MaxQueue
    BY DEF Inv, Clients, Sound
  <2>2. QED  BY <2>1 DEF Inv, Rest, Requests, Logs, LogOK, TypeOK
<1>2. QED  BY <1>1, InitInv, NextInv, PTL DEF Spec

(* The server gets the seconds of a phone in order, under rising numbers   *)
(* and none of them twice, over any connections, clients and reloads, and  *)
(* so does the night log (flush, drain, attachNightLog).                   *)
THEOREM OrderCorrect == Spec => []InOrder
<1>1. Inv => InOrder
  BY DEF Inv, InOrder, NightInOrder, Logs, LogOK
<1>2. QED  BY <1>1, InitInv, NextInv, PTL DEF Spec

(* The page does not say that it listens while it is hidden, that the      *)
(* screen stays on when no lock is held, or that a device is deleted which *)
(* is not (onVisibility, acquireWake, deleteDevice).                       *)
THEOREM HonestCorrect == Spec => []HonestPage
<1>1. Inv => HonestPage
  BY DEF Inv, HonestPage, NoSilentScreenOff, Clients, Sound, Wake
<1>2. QED  BY <1>1, InitInv, NextInv, PTL DEF Spec

===============================================================================
