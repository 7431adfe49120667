SPECIFICATION Spec
CONSTANTS
  Devices = {"d1", "d2"}  Kept = {"none", "d1"}  Classes = {"A"}  Typed = {"", "A"}
  Starts = 2  JoinClicks = 4
  LinkValid = 3  LinkRenew = 2  LinkAsks = 2  LinkKinds = {"door"}
  LinkStories <- MCLinkStories
  Names = {"A"}  CreditAsks = 2  CreditEdits = 3
  TestSeconds = 3  Early = 2  TestBumps = 1  Tests = {1, 2}  Posts = {1, 2}
  TestStories <- MCTestStories
  Codes = {"A", "B"}  ResearchLoads = 2  ResearchMoves = 3
  Tabs = {"overview", "events", "catalog"}  ConsoleLoads = 2  ConsoleMoves = 4
  Versions = 2  Room = 2  Visits = 1
  LiveStories <- MCLiveStories
  ReadingAsks = 3  ReadingChanges = 3
  Cap = 3  Warm = 2  Learn = 1  Strong = {3, 5}  Samples = 5  ScopeMoves = 1
  MaxRows = 5  Enough = 2  NightGap = 2  Apart = 1  Columns = 3  Narrow = 3  Rests = 1
  Readings <- MCReadings
  NightSeconds = 7  NightMoves = 1
  ReplayAreas = {"a", "b"}  Before = 1  Beyond = 1  Empty = 1  Times = {1, 3}  Speeds = {1, 3}
  ReplayClicks = 2
  Steps = 3  Opened = {0, 1, 2, 3, 4}  Selections = 6
  Most = 2  Motion = {FALSE}  NetworkChanges = 2  NetworkMoves = 4
  Goal = 2  TonightAsks = 2  TonightChanges = 4
INVARIANTS TypeOK EnrolledProperly LinkWorks ShowsMeasured TestsKept
PROPERTIES CatchesUp FollowsStream
CHECK_DEADLOCK FALSE
