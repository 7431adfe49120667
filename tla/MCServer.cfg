SPECIFICATION ServerSpec
CONSTANTS
  Job = {j1, j2, j3}
  MaxPerHr = 2
  Hour = 3
  Deadline = 1
  MaxSent = 6
  MaxTime = 7
  MaxBoots = 2
  Dev = {d1, d2}
  Unit = {u1, u2}
  Chat = {c1}
  Owned = {d}
  NudgeApart = 2
  NudgeGone = 3
  BotEnd = 3
  BotMessages = 2
  BotTimes = 1
  TokenRate = 1
  TokenBurst = 2
  TokenTTL = 3
  Callers = {1, 2}
  TokenEnd = 7
  None = None
SYMMETRY Alike
INVARIANTS ServerTypeOK BudgetKept TokensKept VotesApart OwnEndFound FrozenWhileTriggered
PROPERTIES ListensWhenStill LifeOfPicks 
CHECK_DEADLOCK FALSE
