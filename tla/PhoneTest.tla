------------------------------ MODULE PhoneTest -------------------------------
(***************************************************************************)
(* The test of one minute: the page /test (web/app/test/page.tsx), the     *)
(* routes of the website that take it (web/app/api/survey and volunteer)   *)
(* and its storage (web/lib/research/store.ts); the server of the network, *)
(* which takes it when the website cannot.  Wake locks are left out.       *)
(***************************************************************************)
EXTENDS Naturals, FiniteSets

CONSTANTS
  Seconds,  \* SECONDS, how long a recording is
  Early,    \* seconds in which a bump starts it over
  Bumps,    \* restarts at most
  Tests,    \* bound: 1..n, the recordings that are made
  Posts,    \* bound: 1..n, the requests under way at once
  Stories   \* bounds: how often each thing that comes from outside happens

\* Assumed of the constants by whoever instantiates the module.
PhoneTestAssumption ==
  /\ {Seconds, Early, Bumps} \subseteq Nat
  /\ IsFiniteSet(Tests) /\ Tests = 1..Cardinality(Tests)

VARIABLES
  phase,    \* the screen
  sensor,   \* the phone: does it give readings, is it an iPhone; is the page visible
  taps,     \* afterPerm: taps that wait for the permission
  listen,   \* the listener of listen()
  rec,      \* the seconds recorded, from the start of the recording
  test,     \* the test whose screens these are, 0 before its recording is complete
  said,     \* answers.overnight, joined and err
  posts,    \* the requests of postResearch
  pending,  \* local storage: the test that waits, or 0
  retries,  \* the intervals that try again, each set up by send() of a test
  stored,   \* tests the website or the server has; volunteers
  history,  \* tests that failed, that failed on this page, were abandoned, were refused
  left      \* what is left of the story

vars == <<phase, sensor, taps, listen, rec, test, said, posts, pending, retries, stored, history, left>>

Idle   == [on |-> FALSE, measuring |-> FALSE, got |-> FALSE, elapsed |-> 0, bumps |-> 0]
NoPost == [test |-> 0, by |-> "none", every |-> 0, at |-> "site", done |-> FALSE]
Fresh  == [team |-> FALSE, joined |-> FALSE, err |-> FALSE]

Spend(what) == left[what] > 0 /\ left' = [left EXCEPT ![what] = @ - 1]

\* The buttons of the screens up to the recording, and of those after it.
RecordOffers ==
  [intro |-> {"begin"}, perm |-> {"allow"}, place |-> {}, measure |-> {}, hidden |-> {"again"}]

SendOffers ==
  [questions |-> {"answer"}, send |-> IF said.err THEN {"resend"} ELSE {},
   team |-> {"join", "skip"}, result |-> {"restart"}]

Phases == DOMAIN RecordOffers \cup DOMAIN SendOffers

Offers(p) == IF p \in DOMAIN RecordOffers THEN RecordOffers[p] ELSE SendOffers[p]

Pressed(b) == sensor.visible /\ b \in Offers(phase)

(***************************************************************************)
(* The recording.                                                          *)
(***************************************************************************)
Recording == UNCHANGED <<test, said, posts, pending, retries, stored, history>>

Listen(bumps) ==
  /\ phase' = "place" /\ rec' = {}
  /\ listen' = [Idle EXCEPT !.on = TRUE, !.bumps = bumps]

\* begin; an iPhone asks for the permission first, by a tap on the next screen.
Begin ==
  /\ Spend("start") /\ Pressed("begin")
  /\ IF sensor.iphone THEN phase' = "perm" /\ UNCHANGED <<listen, rec>> ELSE Listen(listen.bumps)
  /\ said' = [said EXCEPT !.err = FALSE]
  /\ UNCHANGED <<sensor, taps, test, posts, pending, retries, stored, history>>

\* A button that stays while the permission is asked for can be tapped again.
Allow ==
  /\ Pressed("allow") \/ (sensor.iphone /\ Pressed("again"))
  /\ taps < 2 /\ taps' = taps + 1
  /\ UNCHANGED <<phase, sensor, listen, rec, left>> /\ Recording

\* The answer is for all taps at once; each of them listens, and records the same seconds.
Allowed(granted) ==
  /\ taps > 0 /\ taps' = 0
  /\ IF granted THEN Listen(listen.bumps) /\ UNCHANGED said
     ELSE phase' = "intro" /\ said' = [said EXCEPT !.err = TRUE] /\ UNCHANGED <<listen, rec>>
  /\ UNCHANGED <<sensor, test, posts, pending, retries, stored, history, left>>

Again ==
  /\ ~sensor.iphone /\ Pressed("again")
  /\ Listen(listen.bumps)
  /\ UNCHANGED <<sensor, taps, left>> /\ Recording

Reads == sensor.works /\ sensor.visible

\* A second passes before the recording: it starts when the phone lies still, or anyway.
Settle(starts) ==
  /\ listen.on /\ ~listen.measuring
  /\ listen' = [listen EXCEPT !.got = @ \/ Reads, !.measuring = Reads /\ starts]
  /\ phase' = IF Reads /\ starts THEN "measure" ELSE phase
  /\ UNCHANGED <<sensor, taps, rec, left>> /\ Recording

MutantMeasure(bumped) ==
  /\ listen.measuring /\ listen.elapsed < Seconds
  /\ IF Reads /\ bumped /\ listen.elapsed < Early
     THEN /\ listen' = [listen EXCEPT !.elapsed = 0, !.bumps = @ + 1] /\ rec' = {}
     ELSE /\ listen' = [listen EXCEPT !.elapsed = @ + 1]
          /\ rec' = IF Reads THEN rec \cup {listen.elapsed} ELSE rec
  /\ UNCHANGED <<phase, sensor, taps, left>> /\ Recording

\* A second of the recording; a bump starts it over.
Measure(bumped) ==
  /\ listen.measuring /\ listen.elapsed < Seconds
  /\ IF Reads /\ bumped /\ listen.elapsed < Early /\ listen.bumps < Bumps
     THEN /\ listen' = [listen EXCEPT !.elapsed = 0, !.bumps = @ + 1] /\ rec' = {}
     ELSE /\ listen' = [listen EXCEPT !.elapsed = @ + 1]
          /\ rec' = IF Reads THEN rec \cup {listen.elapsed} ELSE rec
  /\ UNCHANGED <<phase, sensor, taps, left>> /\ Recording

Stop == listen' = [Idle EXCEPT !.bumps = listen.bumps]

\* The timer: the recording is complete, and is that of the next test.
Complete ==
  /\ listen.measuring /\ listen.elapsed = Seconds
  /\ Stop
  /\ phase' = "questions"
  /\ UNCHANGED <<sensor, taps, rec, left>> /\ Recording

NoData ==
  /\ listen.on /\ ~listen.got
  /\ Stop
  /\ phase' = "intro" /\ said' = [said EXCEPT !.err = TRUE]
  /\ UNCHANGED <<sensor, taps, rec, test, posts, pending, retries, stored, history, left>>

\* onHidden: a page that is hidden gets no readings, so the recording ends.
MutantOnHidden == UNCHANGED <<listen, phase>>
OnHidden       == IF listen.on THEN Stop /\ phase' = "hidden" ELSE UNCHANGED <<listen, phase>>

Hide ==
  /\ Spend("hide")
  /\ sensor.visible
  /\ sensor' = [sensor EXCEPT !.visible = FALSE]
  /\ OnHidden
  /\ UNCHANGED <<taps, rec>> /\ Recording

Show ==
  /\ ~sensor.visible
  /\ sensor' = [sensor EXCEPT !.visible = TRUE]
  /\ UNCHANGED <<phase, taps, listen, rec, left>> /\ Recording

(***************************************************************************)
(* Sending.  postResearch asks the website, then the server.               *)
(***************************************************************************)
Post(t, by, every) ==
  \E q \in Posts : posts[q] = NoPost /\ (\A p \in Posts : posts[p] = NoPost => q <= p)
                   /\ posts' = [posts EXCEPT ![q].test = t, ![q].by = by, ![q].every = every]

\* keepPending: there is one place, and what was there is gone.
KeepPending(t) == pending' = t

\* The last question: send.
Answer(overnight) ==
  /\ Pressed("answer") /\ test < Cardinality(Tests)
  /\ test' = test + 1
  /\ phase' = "send" /\ said' = [said EXCEPT !.team = overnight, !.err = FALSE]
  /\ Post(test', "send", 0)
  /\ UNCHANGED <<sensor, taps, listen, rec, pending, retries, stored, history, left>>

Resend ==
  /\ Pressed("resend")
  /\ said' = [said EXCEPT !.err = FALSE]
  /\ Post(test, "send", 0)
  /\ UNCHANGED <<phase, sensor, taps, listen, rec, test, pending, retries, stored, history, left>>

SaveSurvey(t) == stored' = [stored EXCEPT !.tests = @ \cup {t}]
SaveVolunteer == stored' = [stored EXCEPT !.volunteer = TRUE]

\* The route, or the server, measures and stores the test, and answers with its rank.
Stored(q) ==
  /\ posts[q].test # 0 /\ ~posts[q].done
  /\ posts' = [posts EXCEPT ![q].done = TRUE]
  /\ SaveSurvey(posts[q].test)
  /\ UNCHANGED <<phase, sensor, taps, listen, rec, test, said, pending, retries, history, left>>

Done(q) == posts' = [posts EXCEPT ![q] = NoPost]

After == IF said.team /\ ~said.joined THEN "team" ELSE "result"

\* flushPending took a test that is stored now, or that the server refuses.
MutantFlushed(t) == pending' = 0
Flushed(t)       == pending' = IF t = 0 THEN pending ELSE 0

\* An answer that it is stored; of send() it may be one that cannot be read.
Answered(q) ==
  /\ posts[q].done
  /\ Done(q)
  /\ IF posts[q].by = "flush"
     THEN /\ Flushed(posts[q].test)
          /\ retries' = retries \ {posts[q].every}
          /\ UNCHANGED <<phase, said>>
     ELSE /\ \/ phase' = After /\ UNCHANGED said
             \/ said' = [said EXCEPT !.err = TRUE] /\ UNCHANGED phase
          /\ UNCHANGED <<pending, retries>>
  /\ UNCHANGED <<sensor, taps, listen, rec, test, stored, history, left>>

MutantGivenUp(q, refused) ==
  /\ Done(q)
  /\ IF posts[q].by = "send"
     THEN KeepPending(posts[q].test) /\ retries' = retries \cup {posts[q].test} /\ phase' = After
     ELSE Flushed(IF refused THEN posts[q].test ELSE 0) /\ retries' = retries \ {posts[q].every} /\ UNCHANGED phase
  /\ history' = IF posts[q].by = "send"
                THEN [history EXCEPT !.failed = @ \cup {posts[q].test}, !.here = @ \cup {posts[q].test}]
                ELSE history

\* Both failed, or the test was refused: send() keeps it and tries again every 20 s, and a test
\* that flushPending sent stays where it is unless it was refused.
GivenUp(q, refused) ==
  /\ Done(q)
  /\ IF posts[q].by = "send"
     THEN KeepPending(posts[q].test) /\ retries' = retries \cup {posts[q].test} /\ phase' = After
     ELSE Flushed(IF refused THEN posts[q].test ELSE 0) /\ UNCHANGED <<retries, phase>>
  /\ history' = IF posts[q].by = "send"
                THEN [history EXCEPT !.failed = @ \cup {posts[q].test}, !.here = @ \cup {posts[q].test},
                                     !.refused = IF refused THEN @ \cup {posts[q].test} ELSE @]
                ELSE history

\* The website does not answer, or cannot save; then the server does not.
PostFails(q) ==
  /\ Spend("fault") /\ posts[q].test # 0
  /\ IF posts[q].at = "site"
     THEN /\ posts' = [posts EXCEPT ![q].at = "network", ![q].done = FALSE]
          /\ UNCHANGED <<phase, pending, retries, history>>
     ELSE GivenUp(q, FALSE)
  /\ UNCHANGED <<sensor, taps, listen, rec, test, said, stored>>

Refused(q) ==
  /\ Spend("refusal") /\ posts[q].test # 0 /\ ~posts[q].done
  /\ posts[q].test \in history.refused \/ posts[q].by = "send"
  /\ GivenUp(q, TRUE)
  /\ UNCHANGED <<sensor, taps, listen, rec, test, said, stored>>

\* The interval: flushPending.
RetryRuns(t) ==
  /\ t \in retries /\ pending # 0
  /\ Post(pending, "flush", t)
  /\ UNCHANGED <<phase, sensor, taps, listen, rec, test, said, pending, retries, stored, history, left>>

\* The route, or the server, that takes a volunteer's name, or refuses it.
TakeVolunteer(ok) == IF ok THEN SaveVolunteer ELSE UNCHANGED stored

JoinTeam(ok) ==
  /\ Pressed("join")
  /\ IF ok THEN said' = [said EXCEPT !.joined = TRUE] /\ phase' = "result"
     ELSE UNCHANGED <<said, phase>>
  /\ TakeVolunteer(ok)
  /\ UNCHANGED <<sensor, taps, listen, rec, test, posts, pending, retries, history, left>>

SkipTeam ==
  /\ Pressed("skip")
  /\ phase' = "result"
  /\ UNCHANGED <<sensor, taps, listen, rec, left>> /\ Recording

Restart ==
  /\ Pressed("restart")
  /\ phase' = "intro" /\ listen' = Idle
  /\ said' = [said EXCEPT !.team = FALSE]
  /\ UNCHANGED <<sensor, taps, rec, test, posts, pending, retries, stored, history, left>>

\* The page is closed and opened again, and sends what is pending, once.
Reload ==
  /\ Spend("reload")
  /\ phase' = "intro" /\ taps' = 0 /\ listen' = Idle /\ rec' = {} /\ said' = Fresh /\ retries' = {}
  /\ history' = [history EXCEPT !.here = {}, !.abandoned = @ \cup
                 {posts[q].test : q \in {p \in Posts : posts[p].by = "send"}}]
  /\ posts' = [q \in Posts |-> IF q = 1 /\ pending # 0
                               THEN [NoPost EXCEPT !.test = pending, !.by = "flush"] ELSE NoPost]
  /\ sensor' = [sensor EXCEPT !.visible = TRUE]
  /\ UNCHANGED <<test, pending, stored>>

(***************************************************************************)
(* The specification.                                                      *)
(***************************************************************************)
Init ==
  /\ phase = "intro" /\ taps = 0 /\ listen = Idle /\ rec = {} /\ test = 0 /\ said = Fresh
  /\ sensor \in [works : BOOLEAN, iphone : BOOLEAN, visible : {TRUE}]
  /\ posts = [q \in Posts |-> NoPost] /\ pending = 0 /\ retries = {}
  /\ stored = [tests |-> {}, volunteer |-> FALSE]
  /\ history = [failed |-> {}, here |-> {}, abandoned |-> {}, refused |-> {}]
  /\ left \in Stories

Next ==
  \/ Begin \/ Allow \/ Again \/ Complete \/ NoData \/ Hide \/ Show \/ Resend 
  \/ SkipTeam \/ Restart \/ Reload
  \/ \E b \in BOOLEAN : Allowed(b) \/ Settle(b) \/ Measure(b) \/ Answer(b) \/ JoinTeam(b)
  \/ \E t \in Tests : RetryRuns(t)
  \/ \E q \in Posts : Stored(q) \/ Answered(q) \/ PostFails(q) \/ Refused(q)

Spec == Init /\ [][Next]_vars

(***************************************************************************)
(* Properties.                                                             *)
(***************************************************************************)
TypeOK ==
  /\ phase \in Phases /\ taps \in 0..2 /\ test \in Tests \cup {0}
  /\ sensor \in [works : BOOLEAN, iphone : BOOLEAN, visible : BOOLEAN]
  /\ listen \in [on : BOOLEAN, measuring : BOOLEAN, got : BOOLEAN, elapsed : 0..Seconds,
                 bumps : 0..Bumps]
  /\ rec \subseteq 0..(Seconds - 1)
  /\ said \in [team : BOOLEAN, joined : BOOLEAN, err : BOOLEAN]
  /\ posts \in [Posts -> [test : Tests \cup {0}, by : {"none", "send", "flush"},
                          every : Tests \cup {0},
                          at : {"site", "network"}, done : BOOLEAN]]
  /\ pending \in Tests \cup {0} /\ retries \subseteq Tests
  /\ stored.tests \subseteq Tests /\ stored.volunteer \in BOOLEAN
  /\ history \in [failed : SUBSET Tests, here : SUBSET Tests, abandoned : SUBSET (Tests \cup {0}), refused : SUBSET Tests]

\* What is asked about, and sent, is a recording without a gap, whatever was hidden or bumped
\* on the way (onMotion, onHidden, the timer).
Whole == phase \in {"questions", "send"} => rec = 0..(Seconds - 1)

UnderWay(t) == \E q \in Posts : posts[q].test = t

\* "A test that could not be sent waits on the phone and is sent again later": it is stored,
\* pending or being sent, unless the page was closed over it, it was refused, or a second test
\* failed, which takes the one place (keepPending, flushPending).
KeptUnlessReplaced ==
  Cardinality(history.failed) < 2 =>
    \A t \in 1..test : \/ t \in stored.tests \cup history.abandoned \cup history.refused
                       \/ UnderWay(t) \/ pending = t

\* "Keep trying while the page is open": a test that failed on this page is sent in the end
\* (send, flushPending).
Waits == pending \in history.here
===============================================================================
