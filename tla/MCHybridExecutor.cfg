\* One command dispatch ends once exec_cmd returns, so terminal states are
\* expected; a dispatch that gets stuck is caught by Termination instead.
\* ImplementsHybridExecution: exec_cmd refines HybridExecution under the
\* mapping of MCHybridExecutor.
CONSTANTS
  Levels <- MCLevels
  Preferences <- MCPreferences
  NoResult = NoResult
SPECIFICATION Spec
INVARIANTS
  NoSpuriousClaimCancelled
  NoSuccessDiscarded
  PolledAsConfigured
PROPERTIES
  RestoreNeverFails
  Termination
  ImplementsHybridExecution
CHECK_DEADLOCK FALSE
