-------------------------------- MODULE MCServer --------------------------------
(***************************************************************************)
(* Parts of the server that each have a state of their own, checked        *)
(* together.  A run is about one of them: the budget of alerts, or         *)
(* - a phone with two samples a second that is shaken, moved and dropped;  *)
(* - two phones in two units, which are alike, as the units are;           *)
(* - the bot with one chat and one phone;                                  *)
(* - the token bucket of one client;                                       *)
(* - the film of the website, which has a detector of its own, with a      *)
(*   phone that is shaken, carried, put down elsewhere and slowly tilted,  *)
(*   second by second, or that rests, tenth by tenth.                      *)
(* s1, s2, ... are the variables of that part, in the order that its       *)
(* module declares them; what it does not need stays 0.                    *)
(***************************************************************************)
EXTENDS Budget, TLC

CONSTANTS
  Dev, Unit, None,
  Chat, Owned,          \* the chats of the bot, and the phones they listen with
  NudgeApart, NudgeGone,   \* between two reminders; how long a phone is missed
  BotEnd, BotMessages, BotTimes, \* bounds of the bot
  TokenRate, TokenBurst, TokenTTL, Callers,  \* of the token bucket
  TokenEnd                                   \* bound of it

VARIABLES which, s1, s2, s3, s4, s5, s6, s7, s8, s9, s10, s11, s12, s13, s14

budgetVars == vars
partVars   == <<s1, s2, s3, s4, s5, s6, s7, s8, s9, s10, s11, s12, s13, s14>>
serverVars == <<which, budgetVars, partVars>>

\* Phones are alike, and so are units.
Alike == Permutations(Dev) \cup Permutations(Unit)

Lying  == [g |-> 0, strong |-> FALSE, ratio |-> "low", falls |-> FALSE]
Shaken == [g |-> 0, strong |-> TRUE, ratio |-> "high", falls |-> FALSE]
Leant  == [g |-> 1, strong |-> FALSE, ratio |-> "low", falls |-> FALSE]
Pushed == [g |-> 1, strong |-> TRUE, ratio |-> "mid", falls |-> FALSE]
Turned == [g |-> 2, strong |-> FALSE, ratio |-> "mid", falls |-> FALSE]
Thrown == [g |-> 0, strong |-> TRUE, ratio |-> "high", falls |-> TRUE]

\* Station and Units come with the facts that are proved of them, from which MCServer_proofs goes on.
St == INSTANCE Station_proofs WITH
  Samples <- {Lying, Shaken, Leant, Pushed, Turned, Thrown}, Rate <- 2,
  StillWindow <- 1, StillMaxTilt <- 0, Settle <- 2,
  ResumeSettle <- 1, ResumeMax <- 2, ResumeMaxTilt <- 1, NoiseEnough <- 1,
  EvalDelay <- 2, MaxTrigger <- 3, EndSettle <- 1, AICPre <- 1, MaxEventTilt <- 1, MaxPicks <- 2,
  p <- s1

Un == INSTANCE Units_proofs WITH
  UnitVote <- 2, PerSecond <- 2, Assoc <- 3, Grace <- 0, MaxLate <- 1, MaxPicks <- 3,
  MaxSessions <- 2, MaxMoves <- 1, End <- 4,
  now <- s1, phone <- s2, station <- s3, members <- s4, picks <- s5, deleted <- s6, made <- s7,
  moves <- s8, did <- s9

Bo == INSTANCE Bot WITH
  Dev <- Owned, Apart <- NudgeApart, Gone <- NudgeGone, End <- BotEnd, MaxMessages <- BotMessages,
  MaxTimes <- BotTimes,
  now <- s1, subs <- s2, phone <- s3, unlink <- s4, codes <- s5, inbox <- s6, polled <- s7,
  linking <- s8, blocked <- s9, worker <- s10, nudged <- s11, excused <- s12, wants <- s13,
  count <- s14

Ra == INSTANCE RateLimit WITH
  Rate <- TokenRate, Burst <- TokenBurst, StaleTTL <- TokenTTL, Handlers <- Callers,
  End <- TokenEnd,
  now <- s1, bucket <- s2, read <- s3, tick <- s4, allowed <- s5, refused <- s6

Resting == {[g |-> 0, rms |-> "still", ratio |-> "low"]}
Handled == Resting \cup {
  [g |-> 0, rms |-> "mid", ratio |-> "high"],
  [g |-> 0, rms |-> "strong", ratio |-> "mid"],
  [g |-> 1, rms |-> "still", ratio |-> "low"],
  [g |-> 3, rms |-> "mid", ratio |-> "low"],
  [g |-> 3, rms |-> "still", ratio |-> "low"]}

Fi == INSTANCE Film WITH Dt <- 10, Motions <- Handled, Starts <- {0, 400}, film <- s1, seen <- s2
Sr == INSTANCE Film WITH Dt <- 1, Motions <- Resting, Starts <- {0}, film <- s1, seen <- s2

ASSUME ServerAssumption ==
  /\ St!StationAssumption /\ Un!UnitsAssumption /\ Bo!BotAssumption
  /\ Ra!RateLimitAssumption /\ Ra!RefillsInTime
  /\ Fi!FilmAssumption /\ Sr!FilmAssumption

(***************************************************************************)
(* The specification.                                                      *)
(***************************************************************************)
\* The variables from one on are not needed.
No13 == s13 = 0 /\ s14 = 0
No10 == s10 = 0 /\ s11 = 0 /\ s12 = 0 /\ No13
No7  == s7 = 0 /\ s8 = 0 /\ s9 = 0 /\ No10
No3  == s3 = 0 /\ s4 = 0 /\ s5 = 0 /\ s6 = 0 /\ No7
No2  == s2 = 0 /\ No3

ServerInit ==
  /\ Init
  /\ \/ which = "budget" /\ s1 = 0 /\ No2
     \/ which = "station" /\ St!Init /\ No2
     \/ which = "units" /\ Un!Init /\ No10
     \/ which = "bot" /\ Bo!Init
     \/ which = "limit" /\ Ra!Init /\ No7
     \/ which = "film" /\ Fi!Init /\ No3
     \/ which = "script" /\ Sr!Init /\ No3

\* A step of the part that the run is about.
From10   == <<s10, s11, s12, s13, s14>>
From7    == <<s7, s8, s9, From10>>
From3    == <<s3, s4, s5, s6, From7>>
On(part) == which = part /\ UNCHANGED <<which, budgetVars>>

ServerNext ==
  \/ which = "budget" /\ Next /\ UNCHANGED <<which, partVars>>
  \/ On("station") /\ St!Next /\ UNCHANGED <<s2, From3>>
  \/ On("units") /\ Un!Next /\ UNCHANGED From10
  \/ On("bot") /\ Bo!Next
  \/ On("limit") /\ Ra!Next /\ UNCHANGED From7
  \/ On("film") /\ Fi!Next /\ UNCHANGED From3
  \/ On("script") /\ Sr!Next /\ UNCHANGED From3

ServerSpec == ServerInit /\ [][ServerNext]_serverVars

(***************************************************************************)
(* Properties of the parts, each said and explained in its own module;     *)
(* that of the budget is BudgetKept.                                       *)
(***************************************************************************)
\* The state of the part is of its type.
ServerTypeOK ==
  /\ TypeOK
  /\ which = "station" => St!TypeOK
  /\ which = "units" => Un!TypeOK
  /\ which = "bot" => Bo!TypeOK
  /\ which = "limit" => Ra!TypeOK
  /\ which = "film" => Fi!TypeOK
  /\ which = "script" => Sr!TypeOK

\* A token bucket lets through the burst and its rate, and refuses nobody who has not used that
\* up, in whatever order requests come to it and whenever it is swept (RateLimit).
TokensKept == which = "limit" => Ra!BudgetKept /\ Ra!RefusedOnlyIfSpent

\* The votes of a unit are apart and told apart, and a phone is a member of one unit (Units).
VotesApart == which = "units" => Un!VotesApart /\ Un!MembersAgree

\* The end of a pick takes back this pick (Units).
OwnEndFound == which = "units" => Un!OwnEndFound

\* The average behind a trigger stands still exactly as long as the trigger lasts, in the server
\* and in the film, whose phone does not vote when it was tilted, and whose script agrees with
\* itself (Station, Film).
FrozenWhileTriggered ==
  /\ which = "station" => St!FrozenWhileTriggered
  /\ which = "film" => Fi!FrozenWhileTriggered /\ Fi!NoVoteTilted

\* A phone listens again only after it lay still, and whoever lies still listens in the end, in
\* the server and in the film, whose tables agree on when its phone lies and when it is carried
\* (Station, Film).
ListensWhenStill ==
  /\ [](which = "station" => St!ListensWhenStill)
  /\ [](which = "film" => Fi!ListensAgain)
  /\ [](which = "script" => Sr!ScriptAgrees)
  /\ [][which = "station" => St!SettlesFirst]_serverVars
  /\ [][which = "film" => Fi!StillFirst]_serverVars

\* What the network is told of a phone is the life of a phone and its picks (Listening).
Heard == INSTANCE Listening WITH
  eligible <- which = "station" /\ St!Eligible(s1.told),
  open <- IF which = "station" THEN s1.open ELSE 0,
  seq <- IF which = "station" THEN s1.seq ELSE 0
LifeOfPicks == Heard!Spec

\* The bot writes to nobody who has stopped, and reminds nobody twice in six hours (Bot).
BotKeepsWord ==
  [][which = "bot" => Bo!ComesBackByMessage /\ Bo!RemindsApart]_serverVars

===============================================================================
