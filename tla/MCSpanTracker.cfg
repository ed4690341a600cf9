\* SpanTracker fed by every event stream of three spans that keeps the
\* daemon's contract (unique ids, end under the start's parent).
CONSTANTS
  s1 = s1
  s2 = s2
  s3 = s3
  NoSpan = NoSpan
  SpanIds <- MCSpanIds
  EventData <- MCEventData
SYMMETRY MCSymmetry
SPECIFICATION Spec
INVARIANTS
  TypeOK
  RootsInAll
  ChildrenInAll
  RootsCompletedCounted
  WellNestedTracksOngoing
