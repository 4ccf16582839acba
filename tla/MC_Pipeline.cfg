SPECIFICATION Spec
CONSTANTS
  Docs = {"a", "b"}
  Procs = {"s", "w"}
  Cmds <- MCCmds
  Sources = {"forum", "repo", "feed"}
  MaxRuns = 2
  Kills = TRUE
  None = None
INVARIANTS TypeOK RemovalHonoured UpdateDelivers CheckpointHonest ReleaseUsable
PROPERTIES PruneSound
CHECK_DEADLOCK FALSE
