SPECIFICATION FairSpec
CONSTANTS
  Writers = {w1, w2}
  Pids = {p1, p2, p3}
  Commands = {embed}
  MaxHeld = 2
  MaxOthers = 1
  GarbageRow = TRUE
PROPERTY GarbageClears
