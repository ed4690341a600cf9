\* Self (c1) and two other commands, in daemons with and without
\* BUCK2_ERROR_CONCURRENT; both values of reuse_current_config, any start
\* configs, and any interleaving of the other commands' registration,
\* updates and drop, evictions and edits with Self's steps.
CONSTANTS
  c1 = c1  c2 = c2  c3 = c3
  cfgOk = cfgOk  cfgNoRoot = cfgNoRoot  cfgNoPrelude = cfgNoPrelude
  ParseError = ParseError
  NoConfig = NoConfig
  NoSnapshot = NoSnapshot
  Configs <- MCConfigs
  DataFails <- MCDataFails
  UpdaterFails <- MCUpdaterFails
  Commands <- MCCommands
  TraceIds <- MCTraceIds
  TraceOf <- MCTraceOf
  Self = c1
SPECIFICATION Spec
SYMMETRY MCSymmetry
INVARIANTS
  ConfigsAgree
  HeartbeatStopsFirst
  ReuseRaceWarned
  DefaultModeActiveAreLive
PROPERTIES
  WarnsIffConcurrent
\* Every command ends (or the daemon aborts), so final states have no
\* successor.
CHECK_DEADLOCK FALSE
