------------------------------ MODULE ConsoleSpans ------------------------------
(***************************************************************************)
(* The client console and its span tracker together                        *)
(* (buck2_client_ctx/src/subscribers/superconsole.rs, span_tracker.rs).    *)
(*                                                                         *)
(* StatefulSuperConsole keeps the SpanTracker inside its SimpleConsole, so *)
(* that the tracked spans survive the switch from the live console to the  *)
(* SimpleConsole (lines 259-260, test_transfer_state_to_simpleconsole).    *)
(* handle_event runs the inner handler first and updates the tracker only *)
(* if that handler succeeded (the `?` at line 305); without a live console *)
(* the SimpleConsole's handle_event updates the tracker itself, as the     *)
(* test at lines 812-869 relies on.                                        *)
(*                                                                         *)
(* The inner handler an event reaches depends on its span data: the       *)
(* start of a Command span goes to handle_command_start, the end of an     *)
(* ActionExecution span to handle_action_execution_end; both may fail.     *)
(***************************************************************************)
EXTENDS Naturals, Sequences

CONSTANTS SpanIds, NoSpan, EventData, EventKinds, PrintAll, MaxCalls

VARIABLES
  roots, all, children, rootsCompleted, result,  \* the SpanTracker
  phase, parentOf, isRoot, nested,               \* the daemon's stream
  sc, log, enabled, calls,                       \* the StatefulSuperConsole
  dataOf    \* the span_start_event data each started span was sent with

ST == INSTANCE SpanTracker
SSC == INSTANCE StatefulSuperConsole

tracker == <<roots, all, children, rootsCompleted, result>>
history == <<phase, parentOf, isRoot, nested>>
console == <<sc, log, enabled, calls>>
vars == <<tracker, history, console, dataOf>>

\* The handler handle_inner_event picks for the start and the end of a span
\* with data d.
StartKind(d) == IF d = "Command" THEN "CommandStart" ELSE "Other"
EndKind(d) == IF d = "ActionExecution" THEN "ActionExecutionEnd" ELSE "Other"

\* The tracker part of handle_event: `update` is SpanTracker::handle_event
\* for the event and `seen` the same event arriving without it. A failed
\* inner handler skips the update (the `?` at line 305).
Track(ok, update, seen) ==
  IF ok THEN update ELSE seen /\ UNCHANGED tracker

\* handle_event for the start of span s under parent p with data d.
HandleSpanStart(s, p, d) ==
  /\ \E ok \in SSC!InnerOutcomes(StartKind(d)) :
       /\ SSC!HandleEventOutcome(StartKind(d), ok)
       /\ Track(ok, ST!StartAt(s, p, ST!SpanIsRoot(d)),
                phase[s] = "unstarted" /\ ST!StartHistory(s, p, ST!SpanIsRoot(d)))
  /\ dataOf' = [dataOf EXCEPT ![s] = d]

\* handle_event for the end of span s.
HandleSpanEnd(s) ==
  /\ \E ok \in SSC!InnerOutcomes(EndKind(dataOf[s])) :
       /\ SSC!HandleEventOutcome(EndKind(dataOf[s]), ok)
       /\ Track(ok, ST!End(s), phase[s] = "ongoing" /\ ST!EndHistory(s))
  /\ UNCHANGED dataOf

\* handle_event for an event that is not a span event: the tracker ignores
\* it (SpanTracker::handle_event returns Ok), the inner handler may fail.
HandleInstantEvent(k) ==
  /\ \E ok \in SSC!InnerOutcomes(k) :
       SSC!HandleEventOutcome(k, ok)
  /\ UNCHANGED <<tracker, history, dataOf>>

\* handle_command_result: the live console is finalized and later events go
\* to the SimpleConsole, which holds the same tracker.
CommandResult ==
  /\ SSC!HandleCommandResult
  /\ UNCHANGED <<tracker, history, dataOf>>

\* The console's other calls leave the tracker alone. Keys: one toggle
\* key, the help key and a key without a binding (the toggles are alike).
OtherConsoleCall ==
  /\ \/ SSC!HandleStderr
     \/ SSC!HandleOutput
     \/ \E key \in {"d", "h", "x"} : SSC!HandleConsoleInteraction(key)
     \/ SSC!Tick
     \/ SSC!HandleError
  /\ UNCHANGED <<tracker, history, dataOf>>

Init ==
  /\ ST!Init
  /\ SSC!Init
  /\ dataOf = [s \in SpanIds |-> "None"]

Next ==
  \/ \E s \in SpanIds, p \in SpanIds \cup {NoSpan}, d \in EventData :
       HandleSpanStart(s, p, d)
  \/ \E s \in SpanIds : HandleSpanEnd(s)
  \/ \E k \in EventKinds \ {"ActionExecutionEnd", "CommandStart"} : HandleInstantEvent(k)
  \/ CommandResult
  \/ OtherConsoleCall

Spec == Init /\ [][Next]_vars

(***************************************************************************)
(* Properties.                                                             *)
(***************************************************************************)

\* The console's own invariants in the composition (see
\* StatefulSuperConsole): nothing live is drawn after the final frame or
\* the command's output, however span events interleave with the calls
\* that take the console.
NoDrawAfterClose == SSC!NoDrawAfterClose
================================================================================
