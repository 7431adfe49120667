SPECIFICATION FairSpec
CONSTANTS
  telegram = telegram  webhook = webhook
  Event = {e1}
  Channel = {telegram, webhook}
  MinLevel <- MCMinLevel
  Job = {j1, j2}
  MaxBoots = 2
INVARIANTS TypeOK AtMostOnce OutcomeTrue
PROPERTIES Attempted
CHECK_DEADLOCK FALSE
