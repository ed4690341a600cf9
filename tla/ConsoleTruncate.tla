--------------------------- MODULE ConsoleTruncate ---------------------------
(***************************************************************************)
(* truncate (buck2_client_ctx/src/subscribers/superconsole.rs), which      *)
(* shortens the "Reproduce locally" command of a failed action before the  *)
(* console prints it, and its caller lines_for_command_details, reached    *)
(* from handle_action_execution_end. A &str is a sequence of               *)
(* UTF-8 characters, each given by its width in bytes (1 to 4): which      *)
(* characters they are does not matter to truncate, only where their bytes *)
(* start. str::len() is the byte length, and a slice &contents[a..b]       *)
(* panics unless a and b are character boundaries.                         *)
(***************************************************************************)
EXTENDS Naturals, Sequences, FiniteSets

CONSTANTS
  Inputs   \* the commands truncate is called with

ASSUME Inputs \subseteq Seq(1..4)

MAX_LENGTH == 200

\* " ...<omitted>... ".len(): the separator's length in bytes.
BUFFER == Len(" ...<omitted>... ")

\* The number of bytes of the first k characters of s: the byte offset at
\* which character k + 1 starts.
BytesBefore(s, k) ==
  LET Count(w) == Cardinality({i \in 1..k : s[i] = w})
  IN  Count(1) + 2 * Count(2) + 3 * Count(3) + 4 * Count(4)

\* str::len(): the number of bytes of s.
ByteLen(s) == BytesBefore(s, Len(s))

\* str::is_char_boundary: offset b is where a character starts or s ends.
IsCharBoundary(s, b) == \E k \in 0..Len(s) : BytesBefore(s, k) = b

\* &contents[a..b] is defined (does not panic) only between boundaries.
SliceOk(s, a, b) == IsCharBoundary(s, a) /\ IsCharBoundary(s, b)

\* contents.len() > MAX_LENGTH + BUFFER decides whether to truncate.
Fits(len) == ~(len > MAX_LENGTH + BUFFER)

\* The result of truncate(contents): None, Some(text) by its length, or the
\* panic of a slice. format! puts the separator between the two halves.
Truncate(contents) ==
  LET len == ByteLen(contents)
      cut == len - MAX_LENGTH \div 2
  IN  IF Fits(len) THEN [kind |-> "none"]
      ELSE IF ~SliceOk(contents, 0, MAX_LENGTH \div 2) \/ ~SliceOk(contents, cut, len)
        THEN [kind |-> "panic"]
      ELSE [kind |-> "some", bytes |-> MAX_LENGTH \div 2 + BUFFER + (len - cut)]

\* The command of a failed action's CommandExecutionDetails, as
\* lines_for_command_details matches on it: a local command (its rendered
\* command line), a remote one, an omitted local one, or none.
Commands(inputs) ==
  [kind : {"LocalCommand"}, line : inputs]
    \cup [kind : {"RemoteCommand", "OmittedLocalCommand", "None"}]

\* lines_for_command_details: a "Reproduce locally" line for a local
\* command, truncated unless the verbosity asks for the full command, or
\* for a remote one; then the stdout and stderr sections. The result says
\* which reproduce line was pushed (the local command's length in bytes),
\* or that truncate panicked.
LinesForCommandDetails(cmd, fullCommand) ==
  IF cmd.kind = "LocalCommand"
    THEN LET t == Truncate(cmd.line)
         IN  CASE fullCommand \/ t.kind = "none" ->
                    [kind |-> "local", bytes |-> ByteLen(cmd.line)]
               [] t.kind = "some" ->
                    [kind |-> "local", bytes |-> t.bytes]
               [] OTHER -> [kind |-> "panic"]
    ELSE [kind |-> IF cmd.kind = "RemoteCommand" THEN "remote" ELSE "none"]

VARIABLES
  command,      \* the failed action's command details
  fullCommand,  \* verbosity.print_failure_full_command()
  result        \* what lines_for_command_details did

vars == <<command, fullCommand, result>>

Init ==
  /\ command \in Commands(Inputs)
  /\ fullCommand \in BOOLEAN
  /\ result = [kind |-> "pending"]

\* handle_action_execution_end for an action that failed with command
\* details, on a live console: the details are rendered once.
Call ==
  /\ result.kind = "pending"
  /\ result' = LinesForCommandDetails(command, fullCommand)
  /\ UNCHANGED <<command, fullCommand>>

Spec == Init /\ [][Call]_vars

(***************************************************************************)
(* Properties.                                                             *)
(***************************************************************************)

\* Rendering the details of a failed action never panics the client:
\* truncate returns None or Some for every local command it is given.
TruncateNeverPanics == result.kind # "panic"
====
