---------------------------- MODULE DaemonCommand ----------------------------
(***************************************************************************)
(* One command's ServerCommandContext (buck2_server/src/ctx.rs) composed   *)
(* with the daemon's registry of running commands (active_commands.rs).    *)
(* The command Self's BaseServerCommandContext holds its                   *)
(* ActiveCommandDropGuard (ctx.rs 131-132): the guard is built, with its   *)
(* concurrency check, before ServerCommandContext::new takes the base      *)
(* context, and it is removed when the base context is dropped: by new()'s *)
(* working-dir error, or as a field after Drop for ServerCommandContext.   *)
(* The other commands are full ActiveCommands participants; the DICE       *)
(* updates that ServerCommandContext leaves to its environment come from   *)
(* them, and only while they run.                                          *)
(***************************************************************************)
EXTENDS Sequences

CONSTANTS
  Configs, ParseError, NoConfig, DataFails, UpdaterFails,
  Commands, TraceIds, TraceOf, NoSnapshot,
  Self          \* the command whose context is modelled

ASSUME Self \in Commands

VARIABLES
  reuse, diceCurrent, disk, previous, ctx, cell, got, accessor, dataOk,
  heartbeat, fields, dropping,                 \* ServerCommandContext
  active, pc, snapshot, errorConcurrent,       \* ActiveCommands
  writer,  \* history: who made DICE's current configs current since Self
           \* started ("previous", "evict" or another command)
  source   \* history: the writer of the configs Self's once-cell took from
           \* DICE, "disk" if it parsed them, "none" before the first call

SC == INSTANCE ServerCommandContext
AC == INSTANCE ActiveCommands

scVars == <<reuse, diceCurrent, disk, previous, ctx, cell, got, accessor,
            dataOk, heartbeat, fields, dropping>>
acVars == <<active, pc, snapshot, errorConcurrent>>
vars == <<scVars, acVars, writer, source>>

Others == Commands \ {Self}

\* The daemon has not aborted on a BUCK2_ERROR_CONCURRENT panic; after an
\* abort nothing of it runs.
DaemonUp == \A c \in Commands : pc[c] # "killed"

\* Self's guard is held: its base context exists and the daemon is up.
GuardHeld == pc[Self] = "running"

\* Self starts: its guard registers, and the configs current in DICE are
\* the previous invocation's.
SelfRegister ==
  /\ AC!Register(Self)
  /\ previous' = diceCurrent
  /\ writer' = "previous"
  /\ UNCHANGED <<reuse, diceCurrent, disk, ctx, cell, got, accessor, dataOk,
                 heartbeat, fields, dropping, source>>

\* The registry's steps that do not touch Self's context: every step of the
\* other commands, and Self's own report or panic inside new().
Registry ==
  /\ \/ \E c \in Others : AC!Register(c) \/ AC!DropGuard(c)
     \/ \E c \in Commands : AC!Report(c) \/ AC!PanicUnwind(c) \/ AC!PanicAbort(c)
  /\ UNCHANGED <<scVars, writer, source>>

\* ServerCommandContext::new with the base context holding the guard; the
\* working-dir error drops the base context and with it the guard.
New ==
  /\ GuardHeld
  /\ SC!New
  /\ IF ctx' = "failed" THEN AC!DropGuard(Self) ELSE UNCHANGED acVars
  /\ UNCHANGED <<writer, source>>

\* Where the once-cell's value comes from when a call fills it.
Fill ==
  source' = IF cell # NoConfig THEN source
            ELSE IF reuse /\ diceCurrent # NoConfig THEN writer
            ELSE "disk"

\* Self's calls of cells_and_configs, while its context lives.
Calls ==
  /\ GuardHeld
  /\ SC!DataConstructor \/ SC!DiceUpdater \/ SC!ConfigMetadata
  /\ Fill
  /\ UNCHANGED <<acVars, writer>>

StartDrop ==
  /\ GuardHeld
  /\ SC!StartDrop
  /\ UNCHANGED <<acVars, writer, source>>

\* The drops of Self's fields; dropping base_context drops the guard.
DropNext ==
  /\ DaemonUp
  /\ SC!DropNext
  /\ IF Head(dropping) = "base_context" THEN AC!DropGuard(Self)
                                        ELSE UNCHANGED acVars
  /\ UNCHANGED <<writer, source>>

\* A running command's DICE updater makes its configs current.
OtherCommandUpdate ==
  /\ \E d \in Others, c \in Configs :
       /\ pc[d] = "running"
       /\ SC!OtherCommandUpdate(c)
       /\ writer' = d
  /\ UNCHANGED <<acVars, source>>

Evict ==
  /\ DaemonUp
  /\ SC!Evict
  /\ writer' = "evict"
  /\ UNCHANGED <<acVars, source>>

EditConfig ==
  /\ DaemonUp
  /\ \E c \in Configs \cup {ParseError} : SC!EditConfig(c)
  /\ UNCHANGED <<acVars, writer, source>>

Init ==
  /\ SC!Init
  /\ AC!Init
  /\ writer = "previous"
  /\ source = "none"

Next ==
  \/ SelfRegister \/ Registry
  \/ New \/ Calls \/ StartDrop \/ DropNext
  \/ OtherCommandUpdate \/ Evict \/ EditConfig

Spec == Init /\ [][Next]_vars

(***************************************************************************)
(* Properties.                                                             *)
(***************************************************************************)

\* c and d were both listed when one of them registered: the concurrency
\* warning (or panic) of active_commands.rs named the other.
Warned(c, d) ==
  \/ snapshot[c] # NoSnapshot /\ TraceOf[d] \in snapshot[c]
  \/ snapshot[d] # NoSnapshot /\ TraceOf[c] \in snapshot[d]

ConfigsAgree == SC!ConfigsAgree
HeartbeatStopsFirst == SC!HeartbeatStopsFirst

\* The registry's own properties (see ActiveCommands), with Self's guard
\* built and dropped by its ServerCommandContext: in the default mode every
\* listed id is a live command's, and new() warns exactly when another
\* command is live.
DefaultModeActiveAreLive == AC!DefaultModeActiveAreLive
WarnsIffConcurrent == AC!WarnsIffConcurrent

\* The reuse race of cells_and_configs (the TODO at ctx.rs 312) only bites
\* next to a concurrency warning: if Self's configs are ones another
\* command's updater made current after Self started, then the warning of
\* one of the two named the other.
ReuseRaceWarned == source \in Others => Warned(Self, source)
=============================================================================
