SPECIFICATION FairSpec
CONSTANTS
  main = main
  f = f
  main_file = main_file
  f_file = f_file
  Main = main
  Functions = {f}
  FileOf <- MCFileOf
  Lines = {1}
  Edits <- MCEdits
  DBG_CMD_QUEUE = 3
  DBG_MAX_STACK = 2
  DBG_MAX_BREAKPOINTS = 1
  MaxCalls = 3
  PipeBound = 1
  MaxCommands = 3
INVARIANTS StopCommandsMeetTheirStop BreakpointsAsAsked
PROPERTIES StepsLandWhereAsked ResumeCarriedOut DetachedRunsOn PauseTakesEffect
