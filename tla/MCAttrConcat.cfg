\* Every input of the universe is an initial state; the specification keeps
\* it, so each state is checked once and no state has a new successor.
CONSTANTS
  ConcatInputs <- MCConcatInputs
  CoerceInputs <- MCCoerceInputs
  DictInputs <- MCDictInputs
SPECIFICATION Spec
INVARIANTS
  ConcatMatchesReference
  CoerceCommutesWithConcat
