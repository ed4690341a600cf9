\* Up to six subscriber calls: both spans started and ended with a command
\* result or an error between them, and the live console's other calls.
\* The call budget runs out, so final states have no successor.
CONSTANTS
  s1 = s1
  s2 = s2
  NoSpan = NoSpan
  SpanIds <- MCSpanIds
  EventData <- MCEventData
  EventKinds <- MCEventKinds
  PrintAll = TRUE
  MaxCalls = 5
SYMMETRY MCSymmetry
SPECIFICATION Spec
INVARIANTS
  NoDrawAfterClose
CHECK_DEADLOCK FALSE
