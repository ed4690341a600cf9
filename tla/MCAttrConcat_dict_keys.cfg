\* select(x) + select(y) of two attrs.any() dicts, one of whose keys is a
\* float with the same to_str as a string key.
CONSTANTS
  ConcatInputs <- MCConcatInputs
  CoerceInputs <- MCCoerceInputs
  DictInputs <- MCDictInputs
SPECIFICATION Spec
INVARIANT
  DictConcatKeepsEntries
