-------------------------- MODULE MCHybridExecutor --------------------------
(***************************************************************************)
(* Model-checking instance of HybridExecutor: every execution level, and   *)
(* one preference of each kind hybrid.rs tells apart (requires local,      *)
(* prefers local, neither).                                                *)
(***************************************************************************)
EXTENDS HybridExecutor

MCLevels == {"Limited", "Fallback", "Full"}
MCPreferences == {"NoPreference", "PrefersLocal", "RequiresLocal"}

(***************************************************************************)
(* Refinement mapping onto HybridExecution: the claim holder is the mutex  *)
(* holder, an executor's outcome is the status of the result its future    *)
(* resolved to, the answer is what exec_cmd returned.                      *)
(***************************************************************************)
Abs == INSTANCE HybridExecution WITH
  holder  <- claimHolder,
  outcome <- [s \in Sides |-> IF result[s] = NoResult THEN NoResult ELSE result[s].status],
  answer  <- IF final = NoResult THEN NoResult
             ELSE [status |-> final.status, side |-> final.side],
  alive   <- outerAlive

\* exec_cmd with its executors implements the abstract dispatch: the claim
\* is only handed back after a non-Success result, outputs are produced
\* only under the claim, and the one answer is a resolved side's status
\* (Success if any side succeeded, ClaimCancelled to a live caller only in
\* the case hybrid.rs 268-276 documents), given eventually. Unlike the
\* invariants it also catches a remote side that commits without holding
\* the mutex claim.
ImplementsHybridExecution == Abs!Spec
=============================================================================
