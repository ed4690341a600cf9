------------------------- MODULE StatefulSuperConsole -------------------------
(***************************************************************************)
(* StatefulSuperConsole (buck2_client_ctx/src/subscribers/superconsole.rs): *)
(* the client's console, a live SuperConsole held in an Option, with the   *)
(* SimpleConsole beside it. Once the Option is taken (command result,      *)
(* error, raw output) everything goes through the SimpleConsole.           *)
(*                                                                         *)
(* The terminal is a log of what is written: "frame" (render), "emit"      *)
(* (lines printed above the live area), "final" (finalize), "simple"       *)
(* (through the SimpleConsole) and "stdout" (the command's raw output).    *)
(* Calls into SuperConsole, SimpleConsole and the display helpers, which   *)
(* live outside this repository, may fail; which ones may is read off the  *)
(* `?`s of each handler. The handlers' data (lines, counters, snapshots)   *)
(* is abstracted away.                                                     *)
(***************************************************************************)
EXTENDS Naturals, Sequences

CONSTANTS
  EventKinds,   \* the BuckEvent payloads the client receives
  PrintAll,     \* verbosity.print_all_commands()
  MaxCalls      \* bound on the number of subscriber calls

\* The event payloads handle_inner_event routes to a handler of this type.
Kinds == {"ActionExecutionEnd", "ConsoleMessage", "FileWatcherEnd",
          "TestResult", "TestDiscovery", "CommandStart", "ReSessionCreated",
          "DiceSnapshot", "Snapshot", "Other"}

ASSUME EventKinds \subseteq Kinds /\ PrintAll \in BOOLEAN /\ MaxCalls \in Nat

\* The keys handle_console_interaction toggles a component for: DICE,
\* debug events, two lines mode, detailed RE, I/O counters, commands. A
\* component is named by its key.
ToggleKeys == {"d", "e", "2", "r", "i", "c"}

VARIABLES
  sc,       \* super_console: "some" or "none"
  log,      \* what has been written to the terminal, in order
  enabled,  \* the components toggled on
  calls     \* subscriber calls so far

vars == <<sc, log, enabled, calls>>

Write(entries) == log' = log \o entries

\* Every handler is one subscriber call.
Call == calls < MaxCalls /\ calls' = calls + 1

\* The handler handle_inner_event runs for an event of kind k while the
\* console is live: whether it can fail (a `?` on a fallible call) and
\* whether it may print lines above the live area.
InnerMayFail(k) == k \in {"ActionExecutionEnd", "TestResult", "CommandStart", "Snapshot"}
InnerEmits(k) == k \in {"ActionExecutionEnd", "ConsoleMessage", "FileWatcherEnd", "TestResult"}

\* What the inner handler for an event of kind k may return.
InnerOutcomes(k) == IF InnerMayFail(k) THEN BOOLEAN ELSE {TRUE}

\* handle_event, given whether the inner handler succeeded (ok): with a
\* live console, the inner handler (a failing one returns before it
\* prints), then the span tracker update, the debug events and, with
\* print_all_commands, what_ran's lines for a relevant event; without one,
\* the SimpleConsole's handle_event, where no inner handler runs.
HandleEventOutcome(k, ok) ==
  /\ Call
  /\ \/ /\ sc = "some"
        /\ \E inner \in IF InnerEmits(k) THEN {<<>>, <<"emit">>} ELSE {<<>>},
              whatRan \in IF PrintAll THEN {<<>>, <<"emit">>} ELSE {<<>>} :
             Write(IF ok THEN inner \o whatRan ELSE <<>>)
     \/ sc = "none" /\ ok /\ Write(<<"simple">>)
  /\ UNCHANGED <<sc, enabled>>

\* handle_event for an event of kind k.
HandleEvent(k) == \E ok \in InnerOutcomes(k) : HandleEventOutcome(k, ok)

\* handle_stderr: above the live console, else through the SimpleConsole.
HandleStderr ==
  /\ Call
  /\ Write(IF sc = "some" THEN <<"emit">> ELSE <<"simple">>)
  /\ UNCHANGED <<sc, enabled>>

\* Mutant: the raw output is written while the console stays live.
HandleOutputNoTake ==
  /\ Call
  /\ Write(<<"stdout">>)
  /\ UNCHANGED <<sc, enabled>>

\* handle_output: take and finalize the console (an error returns before
\* the output is written), then the SimpleConsole writes the output.
HandleOutput ==
  /\ Call
  /\ sc' = "none"
  /\ IF sc = "some"
       THEN Write(<<"final", "stdout">>) \/ Write(<<>>)
       ELSE Write(<<"stdout">>)
  /\ UNCHANGED enabled

\* handle_console_interaction: a toggle key flips its component and says
\* so through handle_stderr; `?` and `h` print the help the same way; any
\* other key does nothing.
HandleConsoleInteraction(key) ==
  /\ Call
  /\ enabled' = IF key \in ToggleKeys
                  THEN (enabled \ {key}) \cup ({key} \ enabled)
                  ELSE enabled
  /\ IF key \in ToggleKeys \cup {"h"}
       THEN Write(IF sc = "some" THEN <<"emit">> ELSE <<"simple">>)
       ELSE UNCHANGED log
  /\ UNCHANGED sc

\* handle_command_result: take the console, print an error's messages
\* above it and finalize; without a console the SimpleConsole reports it.
HandleCommandResult ==
  /\ Call
  /\ sc' = "none"
  /\ IF sc = "some"
       THEN \E lines \in {<<>>, <<"emit">>} :
              \/ Write(lines \o <<"final">>)
              \/ Write(lines)
       ELSE Write(<<"simple">>)
  /\ UNCHANGED enabled

\* tick: detect hangs, then render a frame if the console is live.
Tick ==
  /\ Call
  /\ \/ sc = "some" /\ Write(<<"frame">>)
     \/ UNCHANGED log
  /\ UNCHANGED <<sc, enabled>>

\* handle_error: take and finalize the console.
HandleError ==
  /\ Call
  /\ sc' = "none"
  /\ IF sc = "some" THEN Write(<<"final">>) \/ Write(<<>>) ELSE UNCHANGED log
  /\ UNCHANGED enabled

\* new(): a live console; the DICE and debug events components start as the
\* SuperConsoleConfig says, the others off.
Init ==
  /\ sc = "some"
  /\ log = <<>>
  /\ enabled \in SUBSET {"d", "e"}
  /\ calls = 0

Next ==
  \/ \E k \in EventKinds : HandleEvent(k)
  \/ HandleStderr
  \/ HandleOutput
  \/ \E key \in ToggleKeys \cup {"h", "x"} : HandleConsoleInteraction(key)
  \/ HandleCommandResult
  \/ Tick
  \/ HandleError

Spec == Init /\ [][Next]_vars

(***************************************************************************)
(* Properties.                                                             *)
(***************************************************************************)

Live == {"frame", "emit", "final"}

\* Once the console has been finalized or the command's raw output has
\* been written, the live console never draws again: no later frame,
\* emitted line or second finalize can overwrite the final frame or the
\* output (handle_output, handle_command_result and handle_error take the
\* Option before anything else runs).
NoDrawAfterClose ==
  \A i, j \in 1..Len(log) :
    (i < j /\ log[i] \in {"final", "stdout"}) => log[j] \notin Live
====
