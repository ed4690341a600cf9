# TLA+ models of buck2's hybrid executor and its neighbours

This directory holds TLA+ specifications of the parts of this buck2 snapshot that
have concurrent or stateful control flow. It also holds the TLC configurations
that check them. Every definition is translated from the Rust source under
`src/`. `PROJECT.json` maps each definition to the source lines it models.

The collaborators that this repository only uses are the claim manager, the
liveliness guard and the local and remote executors. They are modelled from
`spec.md` (sections 4.1, 4.2 and 6), and PROJECT.json marks those definitions
`spec_modelled`.

## 1. Inventory of the system

| Part | Source | State | Operations | Status |
|------|--------|-------|------------|--------|
| HybridExecutor | `buck2_execute_impl/src/executors/hybrid.rs` | per command: a fresh claim manager, a local liveliness guard, two futures | `exec_cmd`: short-circuit, choose primary, Limited / Fallback / Full dispatch, retry decision, claim release, fallback await | modelled |
| ReClaimManager / ReClaim | same file | the cancelled local guard, the inner claim | `claim` (cancel local, then claim), `release` (restore guard, then release), `Drop` (forget guard) | modelled |
| MutexClaimManager, LivelinessGuard | outside `src/` (spec 4.1, 4.2) | the holder; alive / cancelled / forgotten | claim, release; cancel, restore, forget | modelled from the spec |
| Local / remote executors | outside `src/` (spec 6) | running, claiming, committing, cancelling, done | fail early, claim, commit, observe cancellation | modelled from the spec, abstracted to the claim protocol |
| LowPassFilter | `buck2_execute_impl/src/low_pass_filter.rs` | `accessors`, condvar waiters | `access` (count, wait loop), guard `Drop` | modelled |
| Executor config | `buck2_common/src/executor_config.rs` | `HybridExecutionLevel` with its fields | `CommandExecutorKind::new` | partly: the level type drives HybridExecutor; `new` only picks the executor kind |
| SpanTracker | `buck2_client_ctx/src/subscribers/span_tracker.rs` | `roots`, `all`, children, `roots_completed` | `start_at`, `end`, `handle_event`, `span_is_root`, the unwraps of `iter_roots` and `children` | modelled |
| ActiveCommandDropGuard | `buck2_server/src/active_commands.rs` | global set of trace ids | `new` (insert, check, warn or panic), `drop` | modelled |
| ConfiguredAttr::concat | `buck2_node/src/attrs/configured_attr.rs` | none (pure) | list, dict, string and arg concatenation | modelled (operators) |
| AnyAttrType coercion | `buck2_interpreter_for_build/.../attr_type/any.rs` | none (pure) | `to_literal`, `coerce_item` | modelled (operators) |
| CoercedPath, nodes::hacks | `buck2_node/...`, `buck2_build_api/...` | none | pure conversions and formatting | not modelled |
| ServerCommandContext | `buck2_server/src/ctx.rs` | the `cells_and_configs` once-cell, heartbeat guard, fields | `new`, `cells_and_configs`, `construct_dice_data`, `dice_updater`, `dice_accessor`, `config_metadata`, `Drop` | partly |
| StatefulSuperConsole | `buck2_client_ctx/src/subscribers/superconsole.rs` | `Option<SuperConsole>`, toggled components, what reaches the terminal | every subscriber handler, `truncate` | partly (rendered contents not modelled) |

How the parts interact:

- `HybridExecutor` composes the two executors through one `MutexClaimManager`.
  Only one side may commit its outputs.
- Local's liveliness is the command's manager AND a fresh guard.
- Remote's claim manager is a `ReClaimManager`. Claiming with it first cancels
  local through that guard.
- `LowPassFilter` is meant to bound concurrent races (spec 4.3 and the
  `low_pass_filter` flag of `HybridExecutionLevel::Full`). Nothing in `src/`
  connects it to `hybrid.rs`, so it is modelled on its own (see the hazards).
- Each command's `ServerCommandContext` holds the command's
  `ActiveCommandDropGuard` in its `base_context`. Dropping the context
  removes the command's trace id from the daemon's set.
- The client's console (`StatefulSuperConsole`) receives the daemon's
  events, ticks, raw output and the command result. `SpanTracker` indexes
  the span start and end events among them. The console hands itself over
  to the `SimpleConsole` once the command's output, result or error
  arrives. The tracker lives inside the `SimpleConsole`, so it survives
  that switch. `handle_event` runs the event's inner handler first and
  updates the tracker only if that handler succeeded. For a failed local
  action, the console prints the reproduce command, cut down by
  `truncate`.
- Concat and coercion are pure functions of the attribute layer. They share
  no state with the rest.

## 2. Modules

### HybridExecutor.tla (with MCHybridExecutor.tla)

The dispatch of one command, `exec_cmd`.

**Configuration:** the level, the executor preference and `too_large`. These
are chosen nondeterministically in `Init`, so a single run covers every
configuration.
- `level` is a `HybridExecutionLevel` (executor_config.rs 125-139),
  written as records tagged by variant: Limited; Fallback with
  `fallback_on_failure`; Full with `fallback_on_failure` and
  `low_pass_filter`.
- `FallbackOnFailure` is the match at hybrid.rs 137-144.
- That match binds `Full { fallback_on_failure }` without `..`, so it
  names no `low_pass_filter`. Against this snapshot's executor_config.rs,
  the pattern would not compile. The two files come from different
  revisions, and in neither is the flag read by `exec_cmd`.

**State:**
- `pc`: the orchestrator's position in `exec_cmd`;
- `st` and `result`: each executor's progress and its `CommandExecutionResult`,
  abstracted to a status and whether it carries the claim;
- `claimHolder`: the claim mutex;
- `guard`: the local `LivelinessGuard`;
- `reclaimed`: whether `ReClaimManager::claim` ran;
- `outerAlive`: the caller's liveliness manager;
- `first` and `final`: what the orchestrator returns.

**Actions:**
- Orchestrator actions:
  - `Dispatch` (lines 118-145);
  - `ReturnOnly`;
  - `FirstReady` (the `select` or the primary await, 165-175);
  - `ReturnFirst`;
  - `FallBack` (release the claim, then await the second, 177-190);
  - `ReturnSecond`.
- The `manager.error` exit (180-186) has no action. It is taken only when
  `ReClaim::release` fails to restore the local guard, which spec 4.2 says
  happens once local has observed the cancellation and exited.
  `RestoreNeverFails` checks that local has never exited at a release.
- Executor actions: `FinishUnclaimed`, `LocalRequestClaim`,
  `ReClaimManagerClaim` (238-255), `AcquireClaim`, `Commit`, `ObserveCancel`
  and `CancelDone`.
- `OuterCancel`: the caller cancels.

**Polling:** a future makes progress only while it is polled (`Polled`).
- `select` polls both sides until one resolves, then stops polling the loser.
- The Limited and Fallback levels poll only the awaited future.
- Spec 5 makes the futures cold: they do no work until polled. So local
  can be mid-teardown when RE resolves, but it cannot finish until it is
  awaited again, after the release.

### HybridExecution.tla (the abstract specification)

What one hybrid dispatch promises, with no futures, polling or guards:
- the claim is a mutex, handed back only by a side that did not succeed;
- a side writes outputs (Success or Failure) only while it holds the claim;
- `exec_cmd` answers once, with a resolved side's status, and Success
  whenever a side succeeded;
- it answers ClaimCancelled to a live caller only as local's answer after
  remote has failed, the case documented at hybrid.rs 268-276 and in
  spec 4.5;
- every dispatch is eventually answered (weak fairness on answering).

`MCHybridExecutor` defines `Abs == INSTANCE HybridExecution WITH ...`:
- `holder` is `claimHolder`;
- `outcome` is each side's result status;
- `answer` is `final` without the claim flag;
- `alive` is `outerAlive`.

`ImplementsHybridExecution == Abs!Spec` is checked as a PROPERTY. Beyond
the invariants of the run, it states the claim discipline: a side commits
only under the claim, and hands it back only after a non-Success. Its
mutant, a `ReClaimManager::claim` that cancels local but never awaits the
inner claim, lets remote commit without the mutex. No invariant of the run
notices that; the refinement does.

### LowPassFilter.tla (with MCLowPassFilter.tla)

**State:**
- `accessors`;
- each client's phase: idle, sleeping in the condvar, woken, holding;
- the condvar's FIFO of sleepers, since `async_condvar_fair` is fair.

**Actions:**
- `Access`: lines 32-46 up to the first check.
- `Recheck`: a woken waiter's next loop iteration.
- `DropGuard`: `Drop` (53-61). It covers both a holder finishing and a
  pending `access()` future being cancelled. The guard exists from line 38
  on, so both decrement.

### SpanTracker.tla (with MCSpanTracker.tla)

The console's index of ongoing spans.

**State:** `roots`, `all`, each span's `children` and `roots_completed`,
as in the struct. `result` is what the last `handle_event` returned. Four
history variables record the stream so far: `phase`, `parentOf`, `isRoot`
and `nested`.

**Actions:**
- `StartAt` is `start_at` (119-158). It inserts into `all` and, if
  `span_is_root`, into `roots` before the parent lookup can fail.
- `End` is `end` (160-203). It takes the span out of `roots` and counts it
  before `EndUnlink` can return `InvalidParent` or `InvalidRemoval`.
- `NonSpanEvent` is the early return for an event without a span id.

**Environment:** the daemon. It keeps the contract of lines 91-93: unique
ids, and an end carries its start's parent. Nothing else is assumed, so
parents may be unknown or may end before their children.

### ActiveCommands.tla (with MCActiveCommands.tla)

**State:** the process-wide `ACTIVE_COMMANDS` set, each command's position
(idle, registered, running, unwound, done, killed), and the snapshot that
`new()` takes. `errorConcurrent` is the daemon's `BUCK2_ERROR_CONCURRENT`.
It is a static `EnvHelper`, so it is chosen in `Init` and never changes;
one run covers both kinds of daemon.

**Actions:**
- `Register` is the locked scope of `new()`: insert, then clone if more
  than one id is present.
- `Report` returns the guard after the warning.
- `PanicUnwind` and `PanicAbort` are the two outcomes of the
  `BUCK2_ERROR_CONCURRENT` panic. Which one happens depends on the build's
  panic strategy, so both are possible.
- `DropGuard` removes the command's id.

Its properties other than the leak are checked in the daemon_command run,
where Self's guard is built and dropped by its ServerCommandContext.

### AttrConcat.tla (with MCAttrConcat.tla)

The pure functions `ConfiguredAttr::concat` and `to_literal`, written as
RECURSIVE operators that follow the code's loops.
- `ReferenceConcat` states the intended result declaratively, with
  `SelectInSeq` for the first offending item.
- The specification picks one input from a finite universe in `Init` and
  keeps it. Each property is therefore checked on every input.

### ServerCommandContext.tla

One command's context. It is checked through DaemonCommand, below.

**State:**
- `cell`: the `cells_and_configs` `AsyncOnceCell`;
- `got`: what each caller received;
- `accessor` and `dataOk`: the progress of `dice_accessor`;
- `heartbeat`, `fields` and `dropping`: the drop sequence.

**Actions:**
- `New` covers both the working-dir error and the success path (RE handle,
  then heartbeat).
- `DataConstructor` and `DiceUpdater` are the two awaits of
  `dice_accessor`. A `construct_dice_data` error is stored in the provider;
  a `dice_updater` error fails the accessor.
- `ConfigMetadata` is the third caller.
- `StartDrop` and `DropNext` run `Drop` and then the field drops, in order.

**Environment:** other commands making their configs current in DICE
(`OtherCommandUpdate`), the dice manager evicting its context (`Evict`),
and buckconfig edits (`EditConfig`). The `reuse_current_config` branch reads
one DICE transaction, a snapshot, so it is one step.

### DaemonCommand.tla (with MCDaemonCommand.tla)

Composes `SC == INSTANCE ServerCommandContext` for the command `Self` with
`AC == INSTANCE ActiveCommands` for all commands. The two components meet
at three points:
- **Registration:** Self's `ActiveCommandDropGuard` is built, and its
  concurrency check made, before `new()` takes the base context holding
  it (ctx.rs 131-132). `SelfRegister` is the command's start, so
  `previous` is recorded there.
- **Guard drops:** `new()`'s working-dir error and the `base_context`
  field drop both drop the guard (`AC!DropGuard(Self)`).
- **DICE updates:** the other commands' updates are
  ServerCommandContext's `OtherCommandUpdate`, allowed only while that
  command runs.

Two history variables record where the once-cell's configs came from:
- `writer`: who last made DICE's configs current;
- `source`: what the first `cells_and_configs` call took.

A `PanicAbort` stops the whole daemon, so nothing runs after it.

### StatefulSuperConsole.tla

The client's console. It is checked through ConsoleSpans, below.

**State:**
- `sc`: whether the `Option<SuperConsole>` still holds the live console;
- `log`: what has been written to the terminal, in order;
- `enabled`: the components toggled on;
- `calls`: a bound on subscriber calls.

The log's entries:
- `frame`: render;
- `emit`: lines printed above the live area;
- `final`: finalize;
- `simple`: SimpleConsole output;
- `stdout`: raw output.

**Actions:** one per subscriber handler.
- `HandleEvent` routes to `handle_inner_event`'s handlers. `InnerMayFail`
  and `InnerEmits` are read off their `?`s and `emit` calls. A failing
  handler returns before it prints. With `print_all_commands`, `what_ran`
  emits afterwards. `HandleEventOutcome` is the same step with the inner
  handler's outcome passed in, so a composition can tie it to the
  tracker.
- `HandleStderr` writes the message.
- `HandleOutput`: finalize, then the raw output. A finalize error returns
  before the output is written.
- `HandleConsoleInteraction` (374-413): a toggle key flips its component
  and reports it through `handle_stderr`; `?` and `h` print the help;
  other keys do nothing.
- `HandleCommandResult`: take the console, emit the error messages, then
  finalize.
- `Tick`: `detect_hangs`, then render.
- `HandleError`: take the console and finalize.

SuperConsole's render, emit and finalize live outside this repository.
Each may fail, and the model lets each fail wherever the code has a `?`.

### ConsoleSpans.tla (with MCConsoleSpans.tla)

This module composes `SSC == INSTANCE StatefulSuperConsole` with
`ST == INSTANCE SpanTracker`.

- Each span event is one `handle_event` call. The console part is
  `SSC!HandleEventOutcome`. The tracker part (`Track`) is `ST!StartAt` or
  `ST!End` when the inner handler succeeded. When it failed, the tracker
  is unchanged while the daemon's stream advances.
- The inner handler depends on the span's data:
  - a Command start goes to `handle_command_start`, which may fail;
  - an ActionExecution end goes to `handle_action_execution_end`, which
    may fail;
  - `dataOf` remembers each span's data for its end.
- Without a live console, the `SimpleConsole`'s `handle_event` updates the
  tracker. That code is outside this repository.
  `test_transfer_state_to_simpleconsole` (812-869) relies on it: a span
  started before the command result ends cleanly after it.
- The console's other calls leave the tracker alone.

### ConsoleTruncate.tla (with MCConsoleTruncate.tla)

`truncate` (702-714) and its caller `lines_for_command_details`
(641-699), which shorten a failed local action's reproduce command.
- A `&str` is a sequence of UTF-8 character widths (1-4 bytes).
- `str::len` is the byte count.
- A slice panics unless both ends are character boundaries, which is
  Rust's `str` indexing rule.
- `MAX_LENGTH` is 200, and `BUFFER` is the separator's length, 17.
- `lines_for_command_details` truncates only a local command, and only
  when the verbosity does not ask for the full command. A remote command,
  an omitted command, or none is printed without it.
- The specification picks the command details and the verbosity in
  `Init`, then renders them once, as `handle_action_execution_end` does
  for a failed action.

## 3. Runs

| Run | Config | Expect | What it shows |
|-----|--------|--------|---------------|
| hybrid_dispatch | MCHybridExecutor.cfg | pass | See the notes below. |
| lpf_safety | MCLowPassFilter.cfg | pass | See the notes below. |
| lpf_starvation | MCLowPassFilter_starvation.cfg | violation | Pending callers can wait forever with nobody holding the filter. |
| span_tracker | MCSpanTracker.cfg | pass | Over every stream of three spans, the unwraps of `iter_roots` and `children` cannot fail; `roots_completed` counts every ended root, including ends that then fail; while the stream is well nested, the tracker mirrors it exactly. |
| active_commands_leak | MCActiveCommands_leak.cfg | violation | With the panic enabled, an unwinding panic leaves a dead command's trace id listed. |
| attr_concat | MCAttrConcat.cfg | pass | `concat` agrees with the reference on every input of the universe, and coercion commutes with concatenation for `attrs.any()`. |
| attr_dict_keys | MCAttrConcat_dict_keys.cfg | violation | `select(x) + select(y)` of `attrs.any()` dicts silently drops an entry when two keys of the left dict have the same `to_str`. |
| daemon_command | MCDaemonCommand.cfg | pass | See the notes below. |
| console_spans | MCConsoleSpans.cfg | pass | See the notes below. |
| truncate_utf8 | MCConsoleTruncate_utf8.cfg | violation | `truncate` panics on a command over 217 bytes with a multi-byte character across byte 100. |

**hybrid_dispatch** covers all 7 `HybridExecutionLevel` values (each
variant with each value of its fields), 3 preferences and both `too_large`
values, with every interleaving and caller
cancellation. It shows:
- ClaimCancelled reaches a live caller only in the documented case: RE
  claimed, which cancelled local, then failed, and local had already
  acted on the cancellation (`NoSpuriousClaimCancelled`). A
  `ReClaim::release` that does not restore the guard adds other cases;
- no Success is discarded;
- only the configured futures are polled;
- `ReClaim::release` never finds local exited, so the release error of
  180-186 is never returned (`RestoreNeverFails`). A `select` that kept
  polling the loser would break this;
- every dispatch returns;
- `exec_cmd` implements `HybridExecution` (`ImplementsHybridExecution`).

**daemon_command** runs one command's context next to two other
commands, in both `BUCK2_ERROR_CONCURRENT` modes. It also checks the
registry's own properties (ActiveCommands), with Self's guard built and
dropped by its context. It shows:
- the DICE data provider, the updater and the metadata see the same
  configs, or the same error, whatever runs between the calls;
- `Drop` stops the heartbeat before any field goes, so the events
  dispatcher and the registry entry outlive it;
- `reuse_current_config` reads DICE's current context lazily, at the
  first `cells_and_configs` call (the TODO at ctx.rs 312-313). The configs
  it takes can be ones another command made current after this one
  started. That happens only when the two commands overlap in the
  registry, so one of them printed the concurrency warning naming the
  other (`ReuseRaceWarned`). A concurrency check made before the insert
  would break this;
- without `BUCK2_ERROR_CONCURRENT` only live commands are listed
  (`DefaultModeActiveAreLive`), and `new()` warns exactly when another
  command is live (`WarnsIffConcurrent`).

**console_spans** runs the console and its tracker over every order of up
to five subscriber calls. The calls include the starts and ends of two
spans, failing handlers wherever a `?` allows them, and the switch to the
`SimpleConsole`. It shows:
- nothing draws on the live console after the final frame or the raw
  output, however span events interleave with the calls that take the
  console (`NoDrawAfterClose`).

The run also reaches the two partial failures of the console, a finalize
error that loses the raw output and a failing inner handler that skips
the tracker update. Each returns its error to the subscriber loop, and what
the loop does next is outside this repository, so no property is stated
about them.

**lpf_safety** uses capacity 2 and five callers that arrive, wake and are
cancelled in any order. It shows:
- no more than capacity holders at once;
- the counter is exact;
- no waiter is stranded once nobody holds the filter.

**Findings.**

1. *LowPassFilter starvation (low_pass_filter.rs:11).* `dispatch_more` counts
   waiters against the capacity. With capacity 1, a holder and two waiters, the
   release leaves `accessors = 2 > 1`. Nobody is admitted until a waiter is
   cancelled. The crate's own `test_release_cancel` asserts exactly this. Spec
   4.3 and 8 describe a semaphore.
2. *Leaked trace id (active_commands.rs:57).* With
   `BUCK2_ERROR_CONCURRENT=true`, `new()` panics after the insert and before
   the guard exists. If the panic unwinds only the command's task, the id
   stays listed for good. Every later command is then reported as
   concurrent, and in this mode every later command panics too.
3. *truncate panics on UTF-8 (superconsole.rs:708).* `truncate` slices
   `&contents[0..100]` and `&contents[len-100..len]` by byte offset. A
   reproduce command over 217 bytes with a non-ASCII character (a path or
   argument) across either offset makes the slice panic. The client then
   crashes while it prints the failed action. TLC finds a 218-character
   command with a multi-byte character at position 100; depending on the
   search order the trace shows a 2-byte or a 3-byte one. The help message has a
   smaller gap: `c` toggles the commands component (line 396), but the help
   printed on `h` (401-409) does not list it. No run checks that gap.
4. *Dict keys that share a `to_str` (configured_attr.rs:122).* `to_literal`
   (any.rs:49) turns every key that is not None, a bool, an int, a dict, a
   tuple or a list into `String(to_str)`. The Starlark dict
   `{"1.5": 1, 1.5: 1}` therefore becomes a dict literal with two
   `String("1.5")` keys. `concat` rebuilds the left dict with
   `OrderedMap::insert`, which overwrites, so `select(x) + select({})`
   returns one entry and no error. The same dict on the right fails with
   `DictConcatDuplicateKeys` through the entry API. TLC finds it in an
   initial state.

**Bounds.**

- *HybridExecutor:* one command has a fixed shape. Each executor resolves at
  most once, and the orchestrator moves forward only. The state space is
  finite without any cap, about 4.4k states.
- *LowPassFilter:* capacity 2 with five clients gives 1.6k states. This is
  enough for two holders and three waiters, and for a newcomer arriving while
  a woken waiter re-checks. With capacity 1 and three clients, the starvation
  shows up already.
- No symmetry is declared. It would cut the filter's state space below what is
  needed to fire every path.
- *SpanTracker:* three span ids, under symmetry, since ids are opaque.
  This is enough for a root with a child and a grandchild, a parent that
  ends first, and an unknown parent. There are three data variants: a
  root, a non-root, and an event without data. 4.8k states.
- *ActiveCommands:* three commands with distinct trace ids. This is enough
  for two running commands while a third registers. The leak run uses it
  alone; its other properties are checked in DaemonCommand, with the same
  three commands.
- *AttrConcat:* 13 literals covering each kind, two list item types, dicts
  with shared keys, and errors. Item sequences have up to 2 items. The
  Starlark values are lists of at most one element of 8 kinds, and the
  strings "", "a" and "b". The dicts given to `select(x) + select(y)`
  have at most two distinct keys out of "1.5", "b" and the float 1.5,
  whose `to_str` is "1.5". 2.9k inputs.
- *ServerCommandContext:* one context. There are three configs: one that
  builds, one that `construct_dice_data` rejects, and one that
  `dice_updater` rejects. A parse error is also possible. The environment
  may act any number of times, since its values are finite.
- *DaemonCommand:* that context plus two other commands and both daemon
  modes. Two others give two running commands while a third registers,
  and one other command updating DICE after the other has registered or
  ended. Each command's trace id is named after it, so the two other
  commands are a symmetry set. 1.9M states, about a minute.
- *ConsoleSpans:* two span ids under symmetry, and three kinds of span
  data: a Command, with a fallible start handler; an ActionExecution, a
  root with a fallible end handler; and no data. Console messages are the
  instant events. There are up to five subscriber calls. That is enough
  for both spans to start and end with the command result in between,
  as in `test_transfer_state_to_simpleconsole`, or for output followed by
  a frame and a second finalize attempt. The console-interaction keys are
  one toggle, the help key and an unbound key, since the toggles behave
  alike. 672k states.
- *ConsoleTruncate:* 218-220 character commands with one 2-4 byte character
  at positions 99-101. The first cut (byte 100) then falls inside, at the
  start of, or just after that character. The commands are local, remote,
  omitted or none, with either verbosity.

## 4. Fairness

- **HybridExecutor:** the orchestrator and each executor are weakly fair. A
  polled future that can progress is eventually polled; tokio drives the task
  and the executors' work completes. `LocalRequestClaim` and
  `ReClaimManagerClaim` are weakly fair for the same reason. Caller
  cancellation (`OuterCancel`) is not fair: it may never happen.
- **LowPassFilter:** a woken waiter is eventually re-polled, and a holder
  eventually drops its guard. New arrivals and cancellations of pending callers
  are left to the environment and are not fair.
- **HybridExecution:** weak fairness on answering. The detailed spec's
  fairness implies it, and the refinement check verifies that.
- **SpanTracker, ActiveCommands, AttrConcat, ServerCommandContext,
  StatefulSuperConsole, ConsoleSpans, ConsoleTruncate:** safety only, with no fairness. Their properties are invariants and action
  properties.

## 5. Hazards covered

PROJECT.json lists each hazard at its line. In summary:
- the select race between RE claiming and local observing the cancellation,
  and the stale cancelled guard at release (`RestoreNeverFails`);
- the order of restore and release, and the documented unsound case
  (`NoSpuriousClaimCancelled`);
- the claim release before `second.await`, which would otherwise deadlock;
- the level's polling discipline;
- the retry classification;
- counting cancelled waiters;
- lost wakeups;
- re-check races;
- usize underflow;
- starvation.

Hazards listed without a property:
- **notify_one under-admission while holders remain.** This only costs
  throughput.
- **Unused `low_pass_filter` flag.** There is no composed behaviour to check.
- **A parent span ending before its child** (span_tracker.rs:173). The
  code answers `InvalidParent` and keeps the child; that is what it means
  to do, and `WellNestedTracksOngoing` only speaks of well-nested streams.
- **Raw output lost by a failing finalize** (superconsole.rs:368) and the
  **tracker update skipped by a failing inner handler**
  (superconsole.rs:305). Both return the error; what the subscriber loop
  then does is outside this repository.
- **Deferred `construct_dice_data` error** (ctx.rs:341). When `provide()`
  runs is decided outside this repository.
- **`active_commands()` returns None under contention**
  (active_commands.rs:24). It uses `try_lock`, and each locked section is
  one atomic step of the model.
- **Update steps after `sync`** (ctx.rs:494). If `set_buck_out_path` or
  `setup_interpreter` fails, the synced transaction is dropped. What the
  file watcher then offers again is outside this repository.

The hazards that properties cover also include:
- early returns of `start_at` and `end` that leave partial updates;
- the panic between insert and guard;
- the concurrency check made after the insert;
- the first-offender order of `concat`'s errors;
- the two awaits of `cells_and_configs` around other commands' updates;
- the heartbeat's drop order;
- the reuse race (`ReuseRaceWarned`);
- the console taken once by output, result or error (`NoDrawAfterClose`);
- truncate's byte cuts (`TruncateNeverPanics`);
- dict keys that share a `to_str` after `to_literal`
  (`DictConcatKeepsEntries`, finding 4).

## 6. Plan for further work (in order)

Done: SpanTracker, ActiveCommands, AttrConcat, ServerCommandContext, the
HybridExecution refinement, StatefulSuperConsole, `truncate` with
`lines_for_command_details`, `HybridExecutionLevel` as HybridExecutor's
configuration, the DaemonCommand composition and the ConsoleSpans
composition. Left:

1. **DICE side of the context:** `DiceCommandDataProvider::provide` and
   `DiceCommandUpdater::update` run by the concurrency handler, which is
   outside this repository, in an order it chooses. Then a stored
   `construct_dice_data` error could be related to the configs the update
   makes current.
2. **SpanTracker refinement.** This is not planned. The tracker diverges
   from any abstract span forest once the stream breaks nesting, because
   its early returns leave partial updates. While the stream is well
   nested, the mapping is the identity on ongoing spans, and
   `WellNestedTracksOngoing` already checks exactly that.

## 7. Not modelled

- Layout, formatting and Starlark value conversion. These are pure data
  transformations with no control-flow hazards beyond what unit tests reach.
- In `ctx.rs`: `request_metadata`, `stdout` and `log_target_pattern`
  (formatting), and what the DICE updater and provider do once the
  concurrency handler runs them (outside this repository).
- `StatefulSuperConsole`: what is rendered (`SuperConsoleState::state`,
  the components, the lines of `lines_for_command_details`, `TimeSpeed`).
  The `SimpleConsole` and `what_ran` are outside this repository.
  This is layout. The model keeps only which kind of write happens, and
  when.
- Real executors' internals: upload, download, process spawning.
- `CoercedPath` (coerced_path.rs): two accessors of a data type, with no
  state and no branch a property could tell from the `match` itself.
- `nodes::hacks` (nodes/mod.rs): `value_to_string` fails unless
  `CoercedAttr::to_json` gives a JSON string. `to_json` is outside this
  repository, so there is nothing to translate but that one branch.
- `executor_config.rs` beyond `HybridExecutionLevel`: option structs,
  `PathSeparatorKind`, `CacheUploadBehavior` and the use-case interner
  are plain data. `CommandExecutorKind::new` only chooses Local, Remote or
  Hybrid from the options present, and only Hybrid reaches the modelled
  `exec_cmd`.
- `TimeSpeed::new` accepts a NaN replay speed (`speed <= 0.0` is false
  for NaN), but the speed is only used outside this repository, so what a
  NaN would do cannot be checked here.
