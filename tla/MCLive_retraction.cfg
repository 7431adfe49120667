SPECIFICATION Spec
CONSTANTS
  Last = 2
  Room = 2
  Visits = 1
  Stories <- MCStories
PROPERTY RetractionSaid
CHECK_DEADLOCK FALSE
