SPECIFICATION Spec
CONSTANTS
  Devices = {"d1", "d2"}
  Kept = {"none", "d1"}
  Classes = {"A"}
  Typed <- MCTyped
  Starts = 2
  Clicks = 4
INVARIANT ClassConsented
CHECK_DEADLOCK FALSE
