------------------------- MODULE MCConsoleSpans -------------------------
(* Two span ids, each started with a Command (fallible start handler), an *)
(* ActionExecution (a root with a fallible end handler) or no data, under *)
(* no parent, an ongoing one or an unknown one; console messages as the   *)
(* instant event.                                                         *)
EXTENDS ConsoleSpans, TLC

CONSTANTS s1, s2

MCSpanIds == {s1, s2}
MCEventData == {"ActionExecution", "Command", "None"}
MCEventKinds == {"ActionExecutionEnd", "CommandStart", "ConsoleMessage"}

\* Span ids are opaque to the tracker and the console.
MCSymmetry == Permutations(MCSpanIds)
=============================================================================
