-------------------------------- MODULE MCSite ---------------------------------
(***************************************************************************)
(* The pages of the website, checked together: a tab shows one of them,    *)
(* and s1, s2, ... are the variables of the page it shows, in the order    *)
(* that its module declares them; what a page does not need stays 0.       *)
(***************************************************************************)
EXTENDS Naturals

CONSTANTS
  Devices, Kept, Classes, Typed, Starts, JoinClicks,             \* of Phone
  LinkValid, LinkRenew, LinkAsks, LinkKinds, LinkStories,        \* of Telegram
  Names, CreditAsks, CreditEdits,                                \* of Credit
  TestSeconds, Early, TestBumps, Tests, Posts, TestStories,      \* of PhoneTest
  Codes, ResearchLoads, ResearchMoves,                           \* of Research
  Tabs, ConsoleLoads, ConsoleMoves,                              \* of Console
  Versions, Room, Visits, LiveStories,                           \* of Live
  ReadingAsks, ReadingChanges,                                   \* of Reading
  Cap, Warm, Learn, Strong, Samples, ScopeMoves,                 \* of Scope
  MaxRows, Enough, NightGap, Apart, Columns, Narrow, Rests,      \* of NightCard
  Readings, NightSeconds, NightMoves,
  ReplayAreas, Before, Beyond, Empty, Times, Speeds, ReplayClicks, \* of Replay
  Steps, Opened, Selections,                                     \* of How
  Most, Motion, NetworkChanges, NetworkMoves,                    \* of Network
  Goal, TonightAsks, TonightChanges                              \* of Tonight

\* Values for the constants that are sets of records.
MCLinkStories == {[link |-> 3, rest |-> 0], [link |-> 0, rest |-> 2]}
MCTestStories ==
  {[start |-> 2, hide |-> 2, fault |-> 0, refusal |-> 0, reload |-> 0],
   [start |-> 1, hide |-> 0, fault |-> 5, refusal |-> 0, reload |-> 1],
   [start |-> 2, hide |-> 0, fault |-> 4, refusal |-> 0, reload |-> 0],
   [start |-> 1, hide |-> 0, fault |-> 1, refusal |-> 1, reload |-> 0]}
MCLiveStories == {[fault |-> 1, store |-> 0], [fault |-> 0, store |-> 2]}
MCReadings ==
  {[level |-> 1, state |-> "quiet"], [level |-> 6, state |-> "triggered"],
   [level |-> 6, state |-> "none"]}

VARIABLES which, s1, s2, s3, s4, s5, s6, s7, s8, s9, s10, s11, s12, s13

vars == <<which, s1, s2, s3, s4, s5, s6, s7, s8, s9, s10, s11, s12, s13>>

Ph == INSTANCE Phone WITH
  Clicks <- JoinClicks,
  page <- s1, visit <- s2, form <- s3, run <- s4, panel <- s5, deletion <- s6, creds <- s7,
  area <- s8, client <- s9, server <- s10, history <- s11, clicks <- s12

Te == INSTANCE Telegram WITH
  Valid <- LinkValid, Renew <- LinkRenew, Asks <- LinkAsks, Kinds <- LinkKinds,
  Stories <- LinkStories,
  me <- s1, url <- s2, pace <- s3, soon <- s4, asks <- s5, bot <- s6, pad <- s7, alerts <- s8,
  uses <- s9

Cr == INSTANCE Credit WITH
  Asks <- CreditAsks, Edits <- CreditEdits,
  card <- s1, asked <- s2, credit <- s3, edits <- s4

Ts == INSTANCE PhoneTest WITH
  Seconds <- TestSeconds, Bumps <- TestBumps, Stories <- TestStories,
  phase <- s1, sensor <- s2, taps <- s3, listen <- s4, rec <- s5, test <- s6, said <- s7,
  posts <- s8, pending <- s9, retries <- s10, stored <- s11, history <- s12, left <- s13

Re == INSTANCE Research WITH
  Loads <- ResearchLoads, Moves <- ResearchMoves,
  token <- s1, code <- s2, shown <- s3, loads <- s4, up <- s5, names <- s6, moves <- s7

Co == INSTANCE Console WITH
  Loads <- ConsoleLoads, Moves <- ConsoleMoves,
  token <- s1, tab <- s2, data <- s3, err <- s4, crashed <- s5, loads <- s6, event <- s7,
  moves <- s8

Li == INSTANCE Live WITH
  Last <- Versions, Stories <- LiveStories,
  event <- s1, feed <- s2, row <- s3, snapshot <- s4, socks <- s5, page <- s6, conn <- s7,
  http <- s8, field <- s9, left <- s10

Rd == INSTANCE Reading WITH
  Asks <- ReadingAsks, Changes <- ReadingChanges,
  at <- s1, shown <- s2, err <- s3, all <- s4, asks <- s5, server <- s6, changes <- s7

Sc == INSTANCE Scope WITH
  Moves <- ScopeMoves,
  on <- s1, buf <- s2, tapped <- s3, wire <- s4, work <- s5, back <- s6, ring <- s7,
  trigs <- s8, cfg <- s9, info <- s10, out <- s11, moves <- s12

Ni == INSTANCE NightCard WITH
  Seconds <- NightSeconds, Moves <- NightMoves,
  log <- s1, now <- s2, last <- s3, card <- s4, file <- s5, moves <- s6

Rp == INSTANCE Replay WITH
  Areas <- ReplayAreas, After <- Beyond, Clicks <- ReplayClicks,
  ev <- s1, clock <- s2, time <- s3, playing <- s4, speed <- s5, ended <- s6, clicks <- s7

Ho == INSTANCE How WITH
  s <- s1, dir <- s2, view <- s3, leaving <- s4, timer <- s5, url <- s6, left <- s7

Ne == INSTANCE Network WITH
  Changes <- NetworkChanges, Moves <- NetworkMoves,
  tab <- s1, reduce <- s2, data <- s3, drawn <- s4, raf <- s5, onScreen <- s6, observer <- s7,
  packets <- s8, moves <- s9

To == INSTANCE Tonight WITH
  Asks <- TonightAsks, Changes <- TonightChanges,
  mounted <- s1, shown <- s2, asks <- s3, server <- s4, phone <- s5, battery <- s6, changes <- s7

ASSUME SiteAssumption ==
  /\ Ho!HowAssumption /\ Ne!NetworkAssumption /\ Rp!ReplayAssumption /\ Ph!PhoneAssumption
  /\ Te!TelegramAssumption /\ Li!LiveAssumption /\ Sc!ScopeAssumption /\ Ni!NightCardAssumption
  /\ Cr!CreditAssumption /\ Re!ResearchAssumption /\ Co!ConsoleAssumption /\ Rd!ReadingAssumption
  /\ To!TonightAssumption /\ Ts!PhoneTestAssumption

(***************************************************************************)
(* The specification.                                                      *)
(***************************************************************************)
\* The variables from one on are not needed.
No13 == s13 = 0
No12 == s12 = 0 /\ No13
No11 == s11 = 0 /\ No12
No10 == s10 = 0 /\ No11
No9  == s9 = 0 /\ No10
No8  == s8 = 0 /\ No9
No7  == s7 = 0 /\ No8
No6  == s6 = 0 /\ No7
No5  == s5 = 0 /\ No6

Init ==
  \/ which = "phone" /\ Ph!Init /\ No13
  \/ which = "telegram" /\ Te!Init /\ No10
  \/ which = "credit" /\ Cr!Init /\ No5
  \/ which = "test" /\ Ts!Init
  \/ which = "research" /\ Re!Init /\ No8
  \/ which = "console" /\ Co!Init /\ No9
  \/ which = "live" /\ Li!Init /\ No11
  \/ which = "reading" /\ Rd!Init /\ No8
  \/ which = "scope" /\ Sc!Init /\ No13
  \/ which = "night" /\ Ni!Init /\ No7
  \/ which = "replay" /\ Rp!Init /\ No8
  \/ which = "tonight" /\ To!Init /\ No8
  \/ which = "how" /\ Ho!Init /\ No8
  \/ which = "network" /\ Ne!Init /\ No10

\* A step of the page that is shown.
OnPhone    == which = "phone" /\ UNCHANGED <<which, s13>>
OnTelegram == which = "telegram" /\ UNCHANGED <<which, s10, s11, s12, s13>>
OnCredit   == which = "credit" /\ UNCHANGED <<which, s5, s6, s7, s8, s9, s10, s11, s12, s13>>
OnTest     == which = "test" /\ UNCHANGED <<which>>
OnResearch == which = "research" /\ UNCHANGED <<which, s8, s9, s10, s11, s12, s13>>
OnConsole  == which = "console" /\ UNCHANGED <<which, s9, s10, s11, s12, s13>>
OnLive     == which = "live" /\ UNCHANGED <<which, s11, s12, s13>>
OnReading  == which = "reading" /\ UNCHANGED <<which, s8, s9, s10, s11, s12, s13>>
OnScope    == which = "scope" /\ UNCHANGED <<which, s13>>
OnNight    == which = "night" /\ UNCHANGED <<which, s7, s8, s9, s10, s11, s12, s13>>
OnReplay   == which = "replay" /\ UNCHANGED <<which, s8, s9, s10, s11, s12, s13>>
OnTonight  == which = "tonight" /\ UNCHANGED <<which, s8, s9, s10, s11, s12, s13>>
OnHow      == which = "how" /\ UNCHANGED <<which, s8, s9, s10, s11, s12, s13>>
OnNetwork  == which = "network" /\ UNCHANGED <<which, s10, s11, s12, s13>>

Next ==
  \/ OnPhone /\ Ph!Next
  \/ OnTelegram /\ Te!Next
  \/ OnCredit /\ Cr!Next
  \/ OnTest /\ Ts!Next
  \/ OnResearch /\ Re!Next
  \/ OnConsole /\ Co!Next
  \/ OnLive /\ Li!Next
  \/ OnReading /\ Rd!Next
  \/ OnScope /\ Sc!Next
  \/ OnNight /\ Ni!Next
  \/ OnReplay /\ Rp!Next
  \/ OnTonight /\ To!Next
  \/ OnHow /\ Ho!Next
  \/ OnNetwork /\ Ne!Next

\* What the pages, the browser and the servers do by themselves.
Fairness ==
  /\ WF_vars(OnCredit /\ \E i \in Cr!Slots : Cr!Load(i))
  /\ \A i \in Cr!Slots :
       WF_vars(OnCredit /\ Cr!Saved(i)) /\ WF_vars(OnCredit /\ Cr!Read(i)) /\ WF_vars(OnCredit /\ Cr!Answered(i))
  /\ \A t \in Tests : WF_vars(OnTest /\ Ts!RetryRuns(t))
  /\ \A q \in Posts : WF_vars(OnTest /\ Ts!Stored(q)) /\ WF_vars(OnTest /\ Ts!Answered(q))
  /\ WF_vars(OnResearch /\ Re!Poll)
  /\ \A i \in Re!Slots : WF_vars(OnResearch /\ Re!Answer(i))
  /\ WF_vars(OnConsole /\ Co!Poll)
  /\ \A i \in Co!Slots : WF_vars(OnConsole /\ Co!Loaded(i)) /\ WF_vars(OnConsole /\ Co!Unauthorized(i))
  /\ WF_vars(OnLive /\ Li!Publish) /\ WF_vars(OnLive /\ Li!TimerRuns) /\ WF_vars(OnLive /\ Li!Refreshed)
  /\ \A i \in Li!Slots :
       /\ WF_vars(OnLive /\ Li!Upgraded(i)) /\ WF_vars(OnLive /\ Li!ListedViewer(i))
       /\ WF_vars(OnLive /\ Li!OnOpen(i)) /\ WF_vars(OnLive /\ Li!OnMessage(i))
       /\ WF_vars(OnLive /\ Li!OnClose(i)) /\ WF_vars(OnLive /\ Li!Breaks(i))
  /\ WF_vars(OnReading /\ Rd!Poll)
  /\ \A i \in Rd!Slots : WF_vars(OnReading /\ Rd!Served(i)) /\ WF_vars(OnReading /\ Rd!Answered(i))
  /\ WF_vars(OnReplay /\ Rp!Frame)
  /\ WF_vars(OnHow /\ Ho!Swap)
  /\ WF_vars(OnNetwork /\ Ne!Observe) /\ WF_vars(OnNetwork /\ Ne!Frame)
  /\ WF_vars(OnTonight /\ \E i \in To!Slots : To!Load(i))
  /\ WF_vars(OnTonight /\ To!BatteryKnown) /\ WF_vars(OnTonight /\ To!ChargingChanges)
  /\ \A i \in To!Slots : WF_vars(OnTonight /\ To!Served(i)) /\ WF_vars(OnTonight /\ To!Answered(i))

Spec == Init /\ [][Next]_vars /\ Fairness

(***************************************************************************)
(* Properties of the pages, each said and explained in its own module.     *)
(***************************************************************************)
\* The state of the open page is of its type.
TypeOK ==
  /\ which = "phone" => Ph!TypeOK
  /\ which = "telegram" => Te!TypeOK
  /\ which = "credit" => Cr!TypeOK
  /\ which = "test" => Ts!TypeOK
  /\ which = "research" => Re!TypeOK
  /\ which = "console" => Co!TypeOK
  /\ which = "live" => Li!TypeOK
  /\ which = "reading" => Rd!TypeOK
  /\ which = "scope" => Sc!TypeOK
  /\ which = "night" => Ni!TypeOK
  /\ which = "replay" => Rp!TypeOK
  /\ which = "tonight" => To!TypeOK
  /\ which = "how" => Ho!TypeOK
  /\ which = "network" => Ne!TypeOK

\* A phone is enrolled by who agreed and felt it move, and its client listens for the device that
\* is stored, which its user can stop and delete (Phone).
EnrolledProperly == which = "phone" => Ph!EnrolledProperly /\ Ph!OwnDevice

\* The link to the bot that is offered works, and so does the address of a step that is passed on
\* (Telegram, How).
LinkWorks ==
  /\ which = "telegram" => Te!LinkWorks
  /\ which = "how" => Ho!AddressOpensStep

\* What is asked about in a test of the phone is a recording without a gap; a test that could not
\* be sent is kept (PhoneTest).
TestsKept == which = "test" => Ts!Whole /\ Ts!KeptUnlessReplaced

\* Pages that load again and again come to show what the server has, in whatever order answers
\* come and whichever server is off: the credited name, the survey and the class of the research
\* page, the tab of the console, the state of the network and the drawing of its areas, an event
\* and the names, the hours of the night, the clock of a replay, and the step that was selected; and a
\* test that could not be sent is sent while the page is open (Credit, Research, Console, Live,
\* Network, Reading, Tonight, Replay, How, PhoneTest).
CatchesUp ==
  /\ []<>(which = "credit" => Cr!Shows)
  /\ []<>(which = "research" => Re!SurveyLoaded)
  /\ []<>(which = "research" => Re!ClassShown)
  /\ []<>(which = "console" => Co!TabShown)
  /\ []<>(which = "live" => Li!NewestShown)
  /\ []<>(which = "network" => Ne!GraphIsLive)
  /\ []<>(which = "reading" => Rd!CurrentShown)
  /\ []<>(which = "tonight" => To!TonightShown)
  /\ []<>(which = "replay" => Rp!Settled)
  /\ []<>(which = "how" => Ho!StageShown)
  /\ []<>(which = "test" => ~Ts!Waits)

\* A connection never takes the page back to an older state, and who left the page is not
\* connected again (Live).
FollowsStream ==
  /\ [][which = "live" => Li!NotBack]_vars
  /\ [](which = "live" => Li!NothingAfterLeaving)

\* The oscilloscope shows what the phone measured, the card of the night what its log says, a
\* replay all of its event, and a drawing nothing of an area that is gone (Scope, NightCard,
\* Replay, Network).
ShowsMeasured ==
  /\ which = "scope" => Sc!ShowsMeasured
  /\ which = "night" => Ni!NightShown
  /\ which = "replay" => Rp!PlayedAll
  /\ which = "network" => Ne!PacketsHaveAreas
===============================================================================
