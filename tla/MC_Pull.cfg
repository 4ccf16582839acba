SPECIFICATION FairSpec
CONSTANTS
  MaxRelease = 3
  Pullers = {"timer", "hand"}
  ByHand = {"hand"}
  KillStages = {"idle", "listed", "lock", "staging", "stop"}
  MaxFaults = 1
INVARIANTS TypeOK NoMovedFile GoodKept RecordIsServed
PROPERTIES NewestServed ComesBack
