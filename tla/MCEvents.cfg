SPECIFICATION Spec
CONSTANTS
  p1 = p1  s1 = s1  p2 = p2  p3 = p3  u1 = u1  u2 = u2  u3 = u3
  Vote <- MCVote
  Unit <- MCUnit
  UnitOf <- MCUnitOf
  PlaceOf <- MCPlaceOf
  Coherent <- MCCoherent
  Unsteady <- MCUnsteady
  Evidence <- MCEvidence
  MinUnits <- MCMinUnits
  HoldSec <- MCHoldSec
  MergeDist = 0
  ReachDist = 1
  Assoc = 3
  Quiet = 2
  MinAge = 3
  MergeSec = 1
  UnitVote = 1
  MaxDelay = 1
  MaxTime = 5
INVARIANTS TypeOK HeldLongEnough CountersAgree
PROPERTIES NoFailureInHold EvidenceUsedOnce LifeSpec
CHECK_DEADLOCK FALSE
