------------------------- MODULE ServerCommandContext -------------------------
(***************************************************************************)
(* One command's ServerCommandContext (buck2_server/src/ctx.rs): new(),    *)
(* the per-command cells_and_configs once-cell and its callers, the DICE   *)
(* accessor built from it, and Drop.                                       *)
(*                                                                         *)
(* Configs are model values standing for a (CellResolver,                  *)
(* LegacyBuckConfigs) pair; ParseError stands for a failed                 *)
(* parse_legacy_cells. The rest of the daemon is the environment: other    *)
(* commands make their configs current in DICE, the dice manager evicts    *)
(* the current context, and the user edits the buckconfig files on disk.  *)
(*                                                                         *)
(* Each await that reads shared state is one step. The reads of the        *)
(* reuse_current_config branch are made on one DICE transaction           *)
(* (unsafe_dice().ctx()), which is a snapshot, so they form one step.      *)
(***************************************************************************)
EXTENDS Naturals, Sequences

CONSTANTS
  Configs,      \* configs a parse or a DICE context may hold; model values
  ParseError,   \* parse_legacy_cells failed
  NoConfig,     \* no configs set in the current DICE context; also an
                \* uninitialised once-cell
  DataFails,    \* configs construct_dice_data rejects after reading them
                \* (no root cell config, bad build.threads)
  UpdaterFails  \* configs dice_updater rejects (prelude_path fails)

ASSUME DataFails \subseteq Configs /\ UpdaterFails \subseteq Configs

\* The callers of cells_and_configs: construct_dice_data and dice_updater
\* (both from dice_accessor) and config_metadata.
Callers == {"data", "updater", "metadata"}

VARIABLES
  reuse,        \* client_context.reuse_current_config
  diceCurrent,  \* the configs of the dice manager's current context
  disk,         \* what parse_legacy_cells would return now
  previous,     \* the configs current when the command started
  ctx,          \* new, failed, alive, dropping, dropped
  cell,         \* the cells_and_configs AsyncOnceCell
  got,          \* per caller: what cells_and_configs returned it
  accessor,     \* dice_accessor: idle, data (provider built), ok, err
  dataOk,       \* DiceCommandDataProvider.data is Ok
  heartbeat,    \* HeartbeatGuard: none, running, stopped
  fields,       \* fields of the context not yet dropped
  dropping      \* the drops still to run, in order

vars == <<reuse, diceCurrent, disk, previous, ctx, cell, got, accessor,
          dataOk, heartbeat, fields, dropping>>
env == <<diceCurrent, disk>>

\* The context's fields with a Drop that matters here.
Fields == {"heartbeat", "base_context", "re_connection"}

\* Mutant: Drop does not take the heartbeat first; the Option is dropped in
\* declaration order, after base_context and _re_connection_handle.
DropOrderFieldsOnly == <<"base_context", "re_connection", "heartbeat">>

\* Drop for ServerCommandContext takes the heartbeat guard, then the fields
\* are dropped in declaration order.
DropOrder == <<"heartbeat", "base_context", "re_connection">>

\* The init future of cells_and_configs: the current DICE context's configs
\* if reuse_current_config and both keys are set, else parse_legacy_cells.
ReadConfigs ==
  IF reuse /\ diceCurrent # NoConfig THEN diceCurrent ELSE disk

\* Mutant: no once-cell; every call runs the init future again.
CellsAndConfigsUncached == ReadConfigs

\* cells_and_configs: get_or_init, then clone the SharedResult.
CellsAndConfigs == IF cell = NoConfig THEN ReadConfigs ELSE cell

\* One call of cells_and_configs by caller t.
Call(t) ==
  /\ got' = [got EXCEPT ![t] = CellsAndConfigs]
  /\ cell' = CellsAndConfigs

\* new(): reject a working dir outside the project root (base_context is
\* dropped with the error), else get the RE connection and start the
\* heartbeat.
New ==
  /\ ctx = "new"
  /\ \/ /\ ctx' = "failed"
        /\ fields' = {}
        /\ UNCHANGED heartbeat
     \/ /\ ctx' = "alive"
        /\ fields' = Fields
        /\ heartbeat' = "running"
  /\ UNCHANGED <<reuse, env, previous, cell, got, accessor, dataOk, dropping>>

\* dice_accessor, first await: dice_data_constructor. An error of
\* construct_dice_data is kept in the provider, not returned.
DataConstructor ==
  /\ ctx = "alive" /\ accessor = "idle"
  /\ Call("data")
  /\ dataOk' = (CellsAndConfigs \in Configs \ DataFails)
  /\ accessor' = "data"
  /\ UNCHANGED <<reuse, env, previous, ctx, heartbeat, fields, dropping>>

\* dice_accessor, second await: dice_updater()?, which fails the accessor.
DiceUpdater ==
  /\ ctx = "alive" /\ accessor = "data"
  /\ Call("updater")
  /\ accessor' = IF CellsAndConfigs \in Configs \ UpdaterFails THEN "ok" ELSE "err"
  /\ UNCHANGED <<reuse, env, previous, ctx, dataOk, heartbeat, fields, dropping>>

\* config_metadata, called for the command's events at any time.
ConfigMetadata ==
  /\ ctx = "alive" /\ got["metadata"] = NoConfig
  /\ Call("metadata")
  /\ UNCHANGED <<reuse, env, previous, ctx, accessor, dataOk, heartbeat, fields, dropping>>

\* The command is done with its context: Drop starts.
StartDrop ==
  /\ ctx = "alive"
  /\ ctx' = "dropping"
  /\ dropping' = DropOrder
  /\ UNCHANGED <<reuse, env, previous, cell, got, accessor, dataOk, heartbeat, fields>>

\* The next drop of the sequence; dropping the guard stops the heartbeat.
DropNext ==
  /\ ctx = "dropping"
  /\ LET f == Head(dropping) IN
       /\ fields' = fields \ {f}
       /\ heartbeat' = IF f = "heartbeat" THEN "stopped" ELSE heartbeat
  /\ dropping' = Tail(dropping)
  /\ ctx' = IF Tail(dropping) = <<>> THEN "dropped" ELSE ctx
  /\ UNCHANGED <<reuse, env, previous, cell, got, accessor, dataOk>>

\* Another command's updater makes its configs current in DICE.
OtherCommandUpdate(c) ==
  /\ diceCurrent' = c
  /\ UNCHANGED <<disk, reuse, previous, ctx, cell, got, accessor, dataOk, heartbeat, fields, dropping>>

\* The dice manager evicts its current context.
Evict ==
  /\ diceCurrent # NoConfig
  /\ diceCurrent' = NoConfig
  /\ UNCHANGED <<disk, reuse, previous, ctx, cell, got, accessor, dataOk, heartbeat, fields, dropping>>

\* The buckconfig files change on disk.
EditConfig(c) ==
  /\ disk' = c
  /\ UNCHANGED <<diceCurrent, reuse, previous, ctx, cell, got, accessor, dataOk, heartbeat, fields, dropping>>

Init ==
  /\ reuse \in BOOLEAN
  /\ diceCurrent \in Configs \cup {NoConfig}
  /\ disk \in Configs \cup {ParseError}
  /\ previous = diceCurrent
  /\ ctx = "new"
  /\ cell = NoConfig
  /\ got = [t \in Callers |-> NoConfig]
  /\ accessor = "idle"
  /\ dataOk = FALSE
  /\ heartbeat = "none"
  /\ fields = {}
  /\ dropping = <<>>

Next ==
  \/ New \/ DataConstructor \/ DiceUpdater \/ ConfigMetadata
  \/ StartDrop \/ DropNext
  \/ \E c \in Configs : OtherCommandUpdate(c)
  \/ Evict
  \/ \E c \in Configs \cup {ParseError} : EditConfig(c)

Spec == Init /\ [][Next]_vars

(***************************************************************************)
(* Properties.                                                             *)
(***************************************************************************)

\* Every caller of cells_and_configs in one command gets the same result,
\* error included, however other commands and disk edits interleave
\* between its calls: the DICE data provider and the DICE updater of an
\* accessor are built from the same cells and configs, and the configs
\* logged in the command's metadata are those it builds with.
ConfigsAgree ==
  \A t, u \in Callers :
    got[t] # NoConfig /\ got[u] # NoConfig => got[t] = got[u]

\* While the heartbeat guard emits events, the base context (the events
\* dispatcher and the active-command guard) and the RE connection handle
\* are alive: Drop stops the heartbeat before any field goes.
HeartbeatStopsFirst ==
  heartbeat = "running" => fields = Fields
=============================================================================
