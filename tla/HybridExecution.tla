--------------------------- MODULE HybridExecution ---------------------------
(***************************************************************************)
(* What one hybrid dispatch promises, without futures, polling or guards:  *)
(*   - the claim is a mutex: a side takes it when it is free, and hands it *)
(*     back only after resolving with something other than Success;        *)
(*   - a side produces outputs (Success or Failure) only while it holds    *)
(*     the claim;                                                          *)
(*   - exec_cmd answers once, with the status of a side that resolved:     *)
(*     Success whenever some side succeeded, and ClaimCancelled while the  *)
(*     caller is alive only as local's answer once remote has failed       *)
(*     (hybrid.rs 268-276);                                                *)
(*   - nothing happens after the answer.                                   *)
(* HybridExecutor refines this specification (see MCHybridExecutor).       *)
(***************************************************************************)
CONSTANTS NoResult

Sides == {"local", "remote"}
Statuses == {"Success", "Failure", "Error", "TimedOut", "ClaimCancelled"}

VARIABLES
  holder,   \* the side holding the claim, or "none"
  outcome,  \* per side: the status it resolved with, or NoResult
  answer,   \* what exec_cmd returned: [status, side], or NoResult
  alive     \* the caller's liveliness

avars == <<holder, outcome, answer, alive>>

Open == answer = NoResult

Claim(s) ==
  /\ Open /\ holder = "none" /\ outcome[s] = NoResult
  /\ holder' = s
  /\ UNCHANGED <<outcome, answer, alive>>

\* Outputs are written under the claim; infra errors and cancellation need
\* none.
Resolve(s, status) ==
  /\ Open /\ outcome[s] = NoResult
  /\ status \in {"Success", "Failure"} => holder = s
  /\ outcome' = [outcome EXCEPT ![s] = status]
  /\ UNCHANGED <<holder, answer, alive>>

HandBack(s) ==
  /\ Open /\ holder = s
  /\ outcome[s] \notin {NoResult, "Success"}
  /\ holder' = "none"
  /\ UNCHANGED <<outcome, answer, alive>>

Answer(s) ==
  /\ Open /\ outcome[s] # NoResult
  /\ (outcome[s] = "ClaimCancelled" /\ alive) =>
        s = "local" /\ outcome["remote"] \notin {NoResult, "Success"}
  /\ (\E t \in Sides : outcome[t] = "Success") => outcome[s] = "Success"
  /\ answer' = [status |-> outcome[s], side |-> s]
  /\ UNCHANGED <<holder, outcome, alive>>

Cancel ==
  /\ Open /\ alive
  /\ alive' = FALSE
  /\ UNCHANGED <<holder, outcome, answer>>

Init ==
  /\ holder = "none"
  /\ outcome = [s \in Sides |-> NoResult]
  /\ answer = NoResult
  /\ alive = TRUE

Next ==
  \/ \E s \in Sides : Claim(s) \/ HandBack(s) \/ Answer(s)
  \/ \E s \in Sides, status \in Statuses : Resolve(s, status)
  \/ Cancel

\* Every dispatch is eventually answered.
Spec == Init /\ [][Next]_avars /\ WF_avars(\E s \in Sides : Answer(s))
=============================================================================
