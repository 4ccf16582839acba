SPECIFICATION FairSpec
CONSTANTS
  Writers = {w1, w2, w3}
  Pids = {p1, p2, p3, p4}
  Commands = {embed}
  MaxHeld = 2
  MaxOthers = 1
  GarbageRow = FALSE
INVARIANTS TypeOK Exclusive RowIsHolders
PROPERTIES NoWedge Implements
