SPECIFICATION Spec
CONSTANTS
  MaxRelease = 2
  Pullers = {"timer"}
  ByHand = {}
  KillStages = {"probe"}
  MaxFaults = 1
INVARIANT GoodKept
