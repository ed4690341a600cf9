--------------------------- MODULE HybridExecutor ---------------------------
(***************************************************************************)
(* One dispatch of a prepared command through HybridExecutor::exec_cmd     *)
(* (buck2_execute_impl/src/executors/hybrid.rs).                           *)
(*                                                                         *)
(* Three actors share one task:                                            *)
(*   - the orchestrator (exec_cmd itself): chooses primary/secondary,      *)
(*     awaits or races them, releases the claim of a retryable first       *)
(*     result and awaits the other side;                                   *)
(*   - the local executor future, whose liveliness is the caller's         *)
(*     liveliness AND the hybrid-local guard;                              *)
(*   - the remote executor future, whose claim manager is a ReClaimManager *)
(*     that cancels the local guard before it asks for the claim.          *)
(* The two executors, the MutexClaimManager and the LivelinessGuard are    *)
(* not in this repository: they are modelled from spec.md (4.1, 4.2, 6).   *)
(* An executor finishes with an infra error before it claims, or claims    *)
(* and then commits its outputs; it observes a dead liveliness manager at  *)
(* any point it still runs and answers ClaimCancelled.                     *)
(***************************************************************************)
EXTENDS FiniteSets

CONSTANTS
  Levels,        \* HybridExecutionLevel variants (kinds) enumerated
  Preferences,   \* combined ExecutorPreference values enumerated
  NoResult       \* model value: a future that has not resolved

Sides == {"local", "remote"}
Statuses == {"Success", "Failure", "Error", "TimedOut", "ClaimCancelled"}

ASSUME Levels \subseteq {"Limited", "Fallback", "Full"} /\ Levels # {}
ASSUME Preferences \subseteq {"NoPreference", "PrefersLocal", "PrefersRemote",
                              "RequiresLocal", "RequiresRemote"}

\* executor_config.rs 125-139: HybridExecutionLevel, an enum with fields,
\* as records tagged by their variant. Full's low_pass_filter is never read
\* by exec_cmd.
HybridExecutionLevel ==
  {[kind |-> "Limited"]}
    \cup [kind : {"Fallback"}, fallback_on_failure : BOOLEAN]
    \cup [kind : {"Full"}, fallback_on_failure : BOOLEAN, low_pass_filter : BOOLEAN]

VARIABLES
  level,             \* self.level
  preference,        \* self.executor_preference.and(request preference)
  tooLarge,          \* self.remote.is_action_too_large(..)
  pc,                \* where exec_cmd is
  st,                \* phase of each executor future ("idle" = never polled)
  result,            \* the CommandExecutionResult each future resolved to
  claimHolder,       \* the side holding the MutexClaimManager lock
  guard,             \* state of local_execution_liveliness_guard
  reclaimed,         \* ReClaimManager::claim has taken `inner`
  outerAlive,        \* manager.liveliness_manager (caller cancellation)
  first,             \* history: the side whose result was first_res
  final              \* history: what exec_cmd returned

configVars == <<level, preference, tooLarge>>
vars == <<level, preference, tooLarge, pc, st, result,
          claimHolder, guard, reclaimed, outerAlive, first, final>>

Other(s) == IF s = "local" THEN "remote" ELSE "local"

Result == [status : Statuses, claim : BOOLEAN]

\* ExecutorPreference::requires_local / prefers_local (not in src/).
RequiresLocal == preference = "RequiresLocal"
PrefersLocal == preference \in {"PrefersLocal", "RequiresLocal"}

\* hybrid.rs 131-135: (primary, secondary).
Primary == IF PrefersLocal THEN "local" ELSE "remote"
Secondary == Other(Primary)

\* Local runs under manager.liveliness_manager.and(local manager); remote
\* under manager.liveliness_manager only.
Alive(s) == outerAlive /\ (s = "local" => guard # "cancelled")

Resolved(s) == st[s] = "done"

\* Mutant: the race keeps polling the losing future after select returned.
PolledSelectKeepsLoser(s) ==
  \/ pc \in {"limited", "await_primary"} /\ s = Primary
  \/ pc = "local_only" /\ s = "local"
  \/ pc = "race"
  \/ pc = "await_second" /\ s = Other(first)

\* A future only makes progress while exec_cmd polls it: the awaited one, or
\* both inside futures::select until one of them resolves.
Polled(s) ==
  \/ pc \in {"limited", "await_primary"} /\ s = Primary
  \/ pc = "local_only" /\ s = "local"
  \/ pc = "race" /\ ~Resolved(Other(s))
  \/ pc = "await_second" /\ s = Other(first)

Running(s) == Polled(s) /\ st[s] \in {"running", "claiming", "committing"}

(***************************************************************************)
(* Executors (spec-modelled).                                              *)
(***************************************************************************)

Resolve(s, status, hasClaim) ==
  /\ st' = [st EXCEPT ![s] = "done"]
  /\ result' = [result EXCEPT ![s] = [status |-> status, claim |-> hasClaim]]

\* The execution fails on infrastructure before it ever asks for the claim.
FinishUnclaimed(s) ==
  /\ Running(s) /\ st[s] = "running" /\ Alive(s)
  /\ \E status \in {"Error", "TimedOut"} : Resolve(s, status, FALSE)
  /\ UNCHANGED <<configVars, pc, claimHolder, guard, reclaimed, outerAlive,
                 first, final>>

\* Local asks the MutexClaimManager directly.
LocalRequestClaim ==
  /\ Running("local") /\ st["local"] = "running" /\ Alive("local")
  /\ st' = [st EXCEPT !["local"] = "claiming"]
  /\ UNCHANGED <<configVars, pc, result, claimHolder, guard, reclaimed,
                 outerAlive, first, final>>

\* Mutant: the guard is cancelled but the inner claim is never awaited;
\* remote goes on to commit as if it held the claim.
ReClaimManagerClaimSkipsMutex ==
  /\ Running("remote") /\ st["remote"] = "running" /\ Alive("remote")
  /\ ~reclaimed
  /\ reclaimed' = TRUE
  /\ guard' = "cancelled"
  /\ st' = [st EXCEPT !["remote"] = "committing"]
  /\ UNCHANGED <<configVars, pc, result, claimHolder, outerAlive, first, final>>

\* ReClaimManager::claim: take inner, cancel the local liveliness guard,
\* then await the inner claim.
ReClaimManagerClaim ==
  /\ Running("remote") /\ st["remote"] = "running" /\ Alive("remote")
  /\ ~reclaimed
  /\ reclaimed' = TRUE
  /\ guard' = "cancelled"
  /\ st' = [st EXCEPT !["remote"] = "claiming"]
  /\ UNCHANGED <<configVars, pc, result, claimHolder, outerAlive, first, final>>

\* MutexClaimManager::claim completes once the lock is free.
AcquireClaim(s) ==
  /\ Running(s) /\ st[s] = "claiming" /\ Alive(s)
  /\ claimHolder = "none"
  /\ claimHolder' = s
  /\ st' = [st EXCEPT ![s] = "committing"]
  /\ UNCHANGED <<configVars, pc, result, guard, reclaimed, outerAlive,
                 first, final>>

\* Holding the claim the executor writes its outputs and resolves; a
\* remote download can still fail with an infra error.
CommitStatuses(s) ==
  IF s = "local" THEN {"Success", "Failure"} ELSE {"Success", "Failure", "Error"}

Commit(s) ==
  /\ Running(s) /\ st[s] = "committing"
  /\ \E status \in CommitStatuses(s) : Resolve(s, status, TRUE)
  /\ UNCHANGED <<configVars, pc, claimHolder, guard, reclaimed, outerAlive,
                 first, final>>

\* A running execution sees its liveliness manager dead and starts to tear
\* down (kill the process, wait for it to exit) ...
ObserveCancel(s) ==
  /\ Running(s) /\ ~Alive(s)
  /\ st' = [st EXCEPT ![s] = "cancelling"]
  /\ UNCHANGED <<configVars, pc, result, claimHolder, guard, reclaimed,
                 outerAlive, first, final>>

\* ... then resolves ClaimCancelled, handing back the claim if it holds one.
CancelDone(s) ==
  /\ Polled(s) /\ st[s] = "cancelling"
  /\ Resolve(s, "ClaimCancelled", claimHolder = s)
  /\ UNCHANGED <<configVars, pc, claimHolder, guard, reclaimed, outerAlive,
                 first, final>>

\* The caller (e.g. Ctrl-C) kills manager.liveliness_manager.
OuterCancel ==
  /\ pc # "done" /\ outerAlive
  /\ outerAlive' = FALSE
  /\ UNCHANGED <<configVars, pc, st, result, claimHolder, guard, reclaimed,
                 first, final>>

(***************************************************************************)
(* The orchestrator: HybridExecutor::exec_cmd.                             *)
(***************************************************************************)

\* hybrid.rs 137-144: the fallback_on_failure of a Fallback or Full level
\* (Limited returns before it is read).
FallbackOnFailure == level.kind # "Limited" /\ level.fallback_on_failure

\* Mutant: the Success and Failure arms swapped.
IsRetryableStatusArmsSwapped(status) ==
  \/ status \in {"ClaimCancelled", "Error", "TimedOut"}
  \/ status = "Success" /\ FallbackOnFailure

\* hybrid.rs 147-163: is_retryable_status.
IsRetryableStatus(status) ==
  \/ status \in {"ClaimCancelled", "Error", "TimedOut"}
  \/ status = "Failure" /\ FallbackOnFailure

\* Mutant: Fallback yields fallback_only = false and races both sides.
DispatchPlanFallbackRaces ==
  CASE level.kind = "Limited"  -> [pc |-> "limited", start |-> {Primary}]
    [] level.kind \in {"Fallback", "Full"} -> [pc |-> "race", start |-> Sides]

\* hybrid.rs 137-145 and 168-175: Limited awaits only the primary,
\* Fallback awaits the primary first, Full races both futures.
DispatchPlan ==
  CASE level.kind = "Limited"  -> [pc |-> "limited",       start |-> {Primary}]
    [] level.kind = "Fallback" -> [pc |-> "await_primary", start |-> {Primary}]
    [] level.kind = "Full"     -> [pc |-> "race",          start |-> Sides]

Start(S) == st' = [s \in Sides |-> IF s \in S THEN "running" ELSE st[s]]

\* hybrid.rs 93-145: build the claim manager and the guard, then either
\* await local alone (122-126) or dispatch per level.
Dispatch ==
  /\ pc = "start"
  /\ \/ /\ RequiresLocal \/ tooLarge
        /\ pc' = "local_only"
        /\ Start({"local"})
     \/ /\ ~(RequiresLocal \/ tooLarge)
        /\ pc' = DispatchPlan.pc
        /\ Start(DispatchPlan.start)
  /\ UNCHANGED <<configVars, result, claimHolder, guard, reclaimed,
                 outerAlive, first, final>>

\* Returning drops both futures; the Drop of a ReClaimManager whose claim
\* was never called forgets the local guard (hybrid.rs 224-231).
Finish(f) ==
  /\ final' = f
  /\ pc' = "done"
  /\ guard' = IF reclaimed THEN guard ELSE "forgotten"

Returned(s, rejected) ==
  [status |-> result[s].status, side |-> s, rejected |-> rejected]

\* hybrid.rs 125 and 138: a single awaited future is the answer.
ReturnOnly ==
  /\ \/ pc = "local_only" /\ Resolved("local") /\ Finish(Returned("local", "none"))
     \/ pc = "limited" /\ Resolved(Primary) /\ Finish(Returned(Primary, "none"))
  /\ UNCHANGED <<configVars, st, result, claimHolder, reclaimed, outerAlive,
                 first>>

\* hybrid.rs 168-175: first_res, the awaited primary or the side select
\* saw resolve.
FirstReady(f) ==
  /\ Resolved(f)
  /\ \/ pc = "await_primary" /\ f = Primary
     \/ pc = "race"

\* hybrid.rs 191-193: a non-retryable first result is returned as is.
ReturnFirst(f) ==
  /\ FirstReady(f)
  /\ ~IsRetryableStatus(result[f].status)
  /\ first' = f
  /\ Finish(Returned(f, "none"))
  /\ UNCHANGED <<configVars, st, result, claimHolder, reclaimed, outerAlive>>

\* Mutant: ReClaim::release releases the inner claim but never restores.
ReClaimReleaseNoRestore ==
  /\ claimHolder' = "none"
  /\ UNCHANGED guard

\* ReClaim::release (hybrid.rs 277-287): restore the local guard and forget
\* it, then release the inner mutex claim.
ReClaimRelease ==
  /\ guard' = "forgotten"
  /\ claimHolder' = "none"

\* Mutant: the taken claim is never released.
MutexClaimReleaseDropped == UNCHANGED <<claimHolder, guard>>

\* MutexClaim::release (spec 4.1).
MutexClaimRelease ==
  /\ claimHolder' = "none"
  /\ UNCHANGED guard

ReleaseClaim(f) == IF f = "remote" THEN ReClaimRelease ELSE MutexClaimRelease

\* hybrid.rs 177-190: release the first result's claim, then await the
\* other future and attach first_res as its rejected_execution.
FallBack(f) ==
  /\ FirstReady(f)
  /\ IsRetryableStatus(result[f].status)
  /\ first' = f
  /\ IF result[f].claim THEN ReleaseClaim(f) ELSE UNCHANGED <<claimHolder, guard>>
  /\ result' = [result EXCEPT ![f].claim = FALSE]
  /\ pc' = "await_second"
  /\ st' = IF st[Other(f)] = "idle" THEN [st EXCEPT ![Other(f)] = "running"] ELSE st
  /\ UNCHANGED <<configVars, reclaimed, outerAlive, final>>

\* hybrid.rs 188-190: second.await.
ReturnSecond ==
  /\ pc = "await_second"
  /\ Resolved(Other(first))
  /\ Finish(Returned(Other(first), first))
  /\ UNCHANGED <<configVars, st, result, claimHolder, reclaimed, outerAlive,
                 first>>

(***************************************************************************)
(* Specification.                                                          *)
(***************************************************************************)

Init ==
  /\ level \in {l \in HybridExecutionLevel : l.kind \in Levels}
  /\ preference \in Preferences
  /\ tooLarge \in BOOLEAN
  /\ pc = "start"
  /\ st = [s \in Sides |-> "idle"]
  /\ result = [s \in Sides |-> NoResult]
  /\ claimHolder = "none"
  /\ guard = "alive"
  /\ reclaimed = FALSE
  /\ outerAlive = TRUE
  /\ first = "none"
  /\ final = NoResult

Executor(s) ==
  \/ FinishUnclaimed(s)
  \/ AcquireClaim(s)
  \/ Commit(s)
  \/ ObserveCancel(s)
  \/ CancelDone(s)

Orchestrator ==
  \/ Dispatch
  \/ ReturnOnly
  \/ \E f \in Sides : ReturnFirst(f) \/ FallBack(f)
  \/ ReturnSecond

Next ==
  \/ Orchestrator
  \/ \E s \in Sides : Executor(s)
  \/ LocalRequestClaim
  \/ ReClaimManagerClaim
  \/ OuterCancel

\* The orchestrator and the futures it polls make progress; the caller's
\* cancellation may never come.
Fairness ==
  /\ WF_vars(Orchestrator)
  /\ \A s \in Sides : WF_vars(Executor(s))
  /\ WF_vars(LocalRequestClaim)
  /\ WF_vars(ReClaimManagerClaim)

Spec == Init /\ [][Next]_vars /\ Fairness

(***************************************************************************)
(* Properties.                                                             *)
(***************************************************************************)

\* ClaimCancelled is always retried so that the other side's answer is
\* returned (hybrid.rs 149-152): while the caller has not cancelled,
\* exec_cmd returns ClaimCancelled only in the case documented at hybrid.rs
\* 268-276 and spec 4.5. RE claimed, which cancelled local, and then failed;
\* local had already acted on the cancellation, so its answer is
\* ClaimCancelled although ReClaim::release restored the guard before local
\* was awaited. A release that leaves the guard cancelled adds other cases.
NoSpuriousClaimCancelled ==
  (pc = "done" /\ outerAlive /\ final.status = "ClaimCancelled") =>
    /\ final.side = "local" /\ first = "remote"
    /\ guard = "forgotten"

\* A successful execution is never thrown away (hybrid.rs 154, 191-194):
\* once some side resolved Success and exec_cmd returned a result of a
\* side, that result is a Success.
NoSuccessDiscarded ==
  (pc = "done" /\ \E s \in Sides : Resolved(s) /\ result[s].status = "Success")
    => final.status = "Success"

\* ReClaim::release never finds the local side exited (hybrid.rs 277-283:
\* "an error here should only occur if local execution had started without
\* the claim"; spec 4.2: restore fails once local observed the cancellation
\* and exited). It holds because select stops polling the loser: when RE's
\* claim is released local is still running, tearing down or unstarted, so
\* the release error of hybrid.rs 180-186 is never returned.
RestoreNeverFails ==
  [][(first' = "remote" /\ pc' = "await_second" /\ result["remote"].claim)
        => ~Resolved("local")]_vars

\* Which futures are ever polled (spec 8): remote never when local is
\* required or the action is too large; the secondary never under Limited;
\* under Fallback only after the primary resolved with a retryable status.
PolledAsConfigured ==
  IF RequiresLocal \/ tooLarge
    THEN st["remote"] = "idle"
    ELSE /\ level.kind = "Limited" => st[Secondary] = "idle"
         /\ (level.kind = "Fallback" /\ st[Secondary] # "idle")
              => first = Primary /\ IsRetryableStatus(result[Primary].status)

\* Every dispatch returns: a claim handed back by a retryable first
\* result is released so the other side's pending claim() completes.
Termination == <>(pc = "done")

=============================================================================
