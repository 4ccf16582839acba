SPECIFICATION Spec
CONSTANTS
  Docs = {"a", "b"}
  Procs = {"w"}
  Cmds <- MCCmds
  Sources = {"forum"}
  MaxRuns = 2
  Kills = FALSE
  None = None
PROPERTIES FullWalkLosesNothing
CHECK_DEADLOCK FALSE
