---------------------------- MODULE ActiveCommands ----------------------------
(***************************************************************************)
(* The daemon's registry of running commands (buck2_server/src/            *)
(* active_commands.rs): a process-wide Mutex<HashSet<TraceId>>. Each       *)
(* command's ServerCommandContext holds an ActiveCommandDropGuard: new()   *)
(* inserts the trace id and, if other ids are present, warns (or, with     *)
(* BUCK2_ERROR_CONCURRENT=true, panics); Drop removes the id.              *)
(*                                                                         *)
(* Each critical section under the mutex is one step. The warning and the  *)
(* panic happen after the lock is released, in a step of their own. The    *)
(* panic's effect is decided outside this repository (panic strategy and   *)
(* the runtime's handling of a panicking task), so it is a choice between  *)
(* unwinding the command's task and aborting the daemon.                   *)
(***************************************************************************)
EXTENDS Naturals, FiniteSets

CONSTANTS
  Commands,        \* concurrent command invocations; model values
  TraceIds,        \* trace ids; model values
  TraceOf,         \* the trace id each command is started with
  NoSnapshot       \* `result` is None: no other command was registered

ASSUME TraceOf \in [Commands -> TraceIds]

VARIABLES
  active,   \* ACTIVE_COMMANDS
  pc,       \* per command: idle, registered (inside new, after the lock),
            \* running (guard held), unwound, done, killed
  snapshot, \* per command: the clone taken in new(), or NoSnapshot
  errorConcurrent  \* the daemon's BUCK2_ERROR_CONCURRENT is true (a static
                   \* EnvHelper: fixed for the daemon's life)

vars == <<active, pc, snapshot, errorConcurrent>>

\* Commands whose guard exists or is being built: their id should be listed.
Live == {c \in Commands : pc[c] \in {"registered", "running"}}

\* Mutant: the concurrency check looks at the set before the insert.
RegisterCheckBeforeInsert(c) ==
  /\ pc[c] = "idle"
  /\ active' = active \cup {TraceOf[c]}
  /\ snapshot' = [snapshot EXCEPT ![c] =
                    IF Cardinality(active) > 1 THEN active ELSE NoSnapshot]
  /\ pc' = [pc EXCEPT ![c] = "registered"]
  /\ UNCHANGED errorConcurrent

\* new(), the locked scope: insert the id; clone the set if it now has more
\* than one entry.
Register(c) ==
  /\ pc[c] = "idle"
  /\ active' = active \cup {TraceOf[c]}
  /\ snapshot' = [snapshot EXCEPT ![c] =
                    IF Cardinality(active') > 1 THEN active' ELSE NoSnapshot]
  /\ pc' = [pc EXCEPT ![c] = "registered"]
  /\ UNCHANGED errorConcurrent

\* new(), after the lock: print the warning and return the guard.
Report(c) ==
  /\ pc[c] = "registered"
  /\ (snapshot[c] = NoSnapshot \/ ~errorConcurrent)
  /\ pc' = [pc EXCEPT ![c] = "running"]
  /\ UNCHANGED <<active, snapshot, errorConcurrent>>

\* new() panics with the message when BUCK2_ERROR_CONCURRENT is true; the
\* guard is never built, and the command's task unwinds.
PanicUnwind(c) ==
  /\ pc[c] = "registered"
  /\ snapshot[c] # NoSnapshot /\ errorConcurrent
  /\ pc' = [pc EXCEPT ![c] = "unwound"]
  /\ UNCHANGED <<active, snapshot, errorConcurrent>>

\* The same panic, when it aborts the daemon: the process-wide set goes with
\* it and every command in flight is killed.
PanicAbort(c) ==
  /\ pc[c] = "registered"
  /\ snapshot[c] # NoSnapshot /\ errorConcurrent
  /\ active' = {}
  /\ pc' = [d \in Commands |->
              IF pc[d] \in {"registered", "running"} THEN "killed" ELSE pc[d]]
  /\ UNCHANGED <<snapshot, errorConcurrent>>

\* Mutant: the guard is leaked (mem::forget) and its Drop never runs.
DropGuardForgotten(c) ==
  /\ pc[c] = "running"
  /\ pc' = [pc EXCEPT ![c] = "done"]
  /\ UNCHANGED <<active, snapshot, errorConcurrent>>

\* Drop for ActiveCommandDropGuard: the command ends and removes its id.
DropGuard(c) ==
  /\ pc[c] = "running"
  /\ active' = active \ {TraceOf[c]}
  /\ pc' = [pc EXCEPT ![c] = "done"]
  /\ UNCHANGED <<snapshot, errorConcurrent>>

\* The static set starts empty; no command has been started; the daemon was
\* started with or without BUCK2_ERROR_CONCURRENT=true.
Init ==
  /\ active = {}
  /\ errorConcurrent \in BOOLEAN
  /\ pc = [c \in Commands |-> "idle"]
  /\ snapshot = [c \in Commands |-> NoSnapshot]

Next ==
  \E c \in Commands :
    Register(c) \/ Report(c) \/ PanicUnwind(c) \/ PanicAbort(c) \/ DropGuard(c)

Spec == Init /\ [][Next]_vars

(***************************************************************************)
(* Properties.                                                             *)
(***************************************************************************)

\* Every id in ACTIVE_COMMANDS belongs to a command still running, so the
\* warning's "Currently running commands are ..." names running commands.
ActiveAreLive == \A t \in active : \E c \in Live : TraceOf[c] = t

\* With BUCK2_ERROR_CONCURRENT unset (the default), ACTIVE_COMMANDS never
\* holds a stale id: the warning only names commands still running.
DefaultModeActiveAreLive == ~errorConcurrent => ActiveAreLive

\* new() warns exactly when another command was live as it registered (in
\* the default mode; with BUCK2_ERROR_CONCURRENT the ids a panicking new()
\* leaks make later warnings spurious).
WarnsIffConcurrent ==
  [][~errorConcurrent =>
       \A c \in Commands :
         Register(c) => ((snapshot'[c] # NoSnapshot) <=> (Live # {}))]_vars
=============================================================================
