---------------------------- MODULE MCSpanTracker ----------------------------
(* Three span ids: enough for a root with a child and a grandchild, for a  *)
(* child whose parent ends first, and for a span under an unknown parent.  *)
EXTENDS SpanTracker, TLC

CONSTANTS s1, s2, s3

MCSpanIds == {s1, s2, s3}

\* One variant rendered as a root, one not, and an event without data.
MCEventData == {"ActionExecution", "Command", "None"}

\* Span ids are opaque to the tracker, so any renaming of them is a symmetry.
MCSymmetry == Permutations(MCSpanIds)
=============================================================================
