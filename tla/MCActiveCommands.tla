-------------------------- MODULE MCActiveCommands --------------------------
(* Three commands with distinct trace ids (TraceId is generated per        *)
(* command): enough for two running commands while a third registers, and  *)
(* for commands that start after one has panicked.                          *)
EXTENDS ActiveCommands

CONSTANTS c1, c2, c3, t1, t2, t3

MCCommands == {c1, c2, c3}
MCTraceIds == {t1, t2, t3}
MCTraceOf == [c \in MCCommands |-> CASE c = c1 -> t1 [] c = c2 -> t2 [] c = c3 -> t3]
=============================================================================
