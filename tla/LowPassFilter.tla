---------------------------- MODULE LowPassFilter ----------------------------
(***************************************************************************)
(* LowPassFilter (buck2_execute_impl/src/low_pass_filter.rs): a counter of *)
(* accessors under a mutex and a fair async condition variable.            *)
(*                                                                         *)
(* access() counts the caller as an accessor *before* it may wait, and     *)
(* creates its guard at that point, so the count covers holders and        *)
(* waiters alike; dropping the guard (after use, or by cancelling a        *)
(* pending access() future) decrements it and wakes one waiter if the     *)
(* count now admits more.                                                  *)
(*                                                                         *)
(* The condvar (async_condvar_fair) is modelled as a FIFO of sleeping      *)
(* waiters: wait() releases the mutex and enqueues, notify_one() moves the *)
(* head to "woken"; a woken waiter re-takes the mutex and re-checks. A     *)
(* woken waiter that is dropped takes its notification with it.            *)
(***************************************************************************)
EXTENDS Naturals, Sequences, FiniteSets

CONSTANTS
  Clients,   \* tasks calling access(); model values
  Capacity   \* LowPassFilter::new(capacity)

ASSUME Capacity \in Nat /\ Clients # {}

VARIABLES
  accessors, \* LowPassFilterState.accessors
  phase,     \* per client: idle, sleeping (in the condvar), woken, holding
  queue      \* the condvar's waiters in FIFO order

vars == <<accessors, phase, queue>>

Holders == {c \in Clients : phase[c] = "holding"}
Waiting == {c \in Clients : phase[c] \in {"sleeping", "woken"}}

\* Mutant: the comparison made strict.
DispatchMoreStrict(n) == n < Capacity

\* LowPassFilterState::dispatch_more.
DispatchMore(n) == n <= Capacity

\* Condvar::notify_one applied to a wait queue and a phase map.
Notified(q, ph) ==
  IF q = <<>> THEN [queue |-> q, phase |-> ph]
  ELSE [queue |-> Tail(q), phase |-> [ph EXCEPT ![Head(q)] = "woken"]]

\* Mutant: dispatch_more checked before the caller is counted.
AccessCheckBeforeIncrement(c) ==
  /\ phase[c] = "idle"
  /\ accessors' = accessors + 1
  /\ IF DispatchMore(accessors)
       THEN phase' = [phase EXCEPT ![c] = "holding"] /\ UNCHANGED queue
       ELSE phase' = [phase EXCEPT ![c] = "sleeping"] /\ queue' = Append(queue, c)

\* access(): count the caller, then return the guard or wait on the condvar.
Access(c) ==
  /\ phase[c] = "idle"
  /\ accessors' = accessors + 1
  /\ IF DispatchMore(accessors + 1)
       THEN phase' = [phase EXCEPT ![c] = "holding"] /\ UNCHANGED queue
       ELSE phase' = [phase EXCEPT ![c] = "sleeping"] /\ queue' = Append(queue, c)

\* The loop in access() after cv.wait returns: re-check under the mutex.
Recheck(c) ==
  /\ phase[c] = "woken"
  /\ IF DispatchMore(accessors)
       THEN phase' = [phase EXCEPT ![c] = "holding"] /\ UNCHANGED queue
       ELSE phase' = [phase EXCEPT ![c] = "sleeping"] /\ queue' = Append(queue, c)
  /\ UNCHANGED accessors

\* Mutant: the guard is created after the wait loop, so a cancelled waiter
\* runs no Drop.
DropGuardWaiterLeaks(c) ==
  /\ phase[c] \in {"holding", "sleeping", "woken"}
  /\ LET q == SelectSeq(queue, LAMBDA x : x # c)
         ph == [phase EXCEPT ![c] = "idle"]
         n == accessors - 1
     IN IF phase[c] = "holding"
          THEN /\ accessors' = n
               /\ IF DispatchMore(n)
                    THEN queue' = Notified(q, ph).queue /\ phase' = Notified(q, ph).phase
                    ELSE queue' = q /\ phase' = ph
          ELSE queue' = q /\ phase' = ph /\ UNCHANGED accessors

\* Mutant: the count given back twice (an explicit release plus Drop).
DropGuardDecrementTwice(c) ==
  /\ phase[c] \in {"holding", "sleeping", "woken"}
  /\ accessors' = accessors - 2
  /\ queue' = SelectSeq(queue, LAMBDA x : x # c)
  /\ phase' = [phase EXCEPT ![c] = "idle"]

\* Drop for LowPassFilterGuard: the holder is done, or a pending access()
\* future is cancelled (which also leaves the condvar's queue).
DropGuard(c) ==
  /\ phase[c] \in {"holding", "sleeping", "woken"}
  /\ LET q == SelectSeq(queue, LAMBDA x : x # c)
         ph == [phase EXCEPT ![c] = "idle"]
         n == accessors - 1
     IN /\ accessors' = n
        /\ IF DispatchMore(n)
             THEN queue' = Notified(q, ph).queue /\ phase' = Notified(q, ph).phase
             ELSE queue' = q /\ phase' = ph

Init ==
  /\ accessors = 0
  /\ phase = [c \in Clients |-> "idle"]
  /\ queue = <<>>

Next == \E c \in Clients : Access(c) \/ Recheck(c) \/ DropGuard(c)

\* A woken task is polled again and a holder eventually drops its guard;
\* new callers and cancellations of pending callers are up to the user.
Fairness ==
  \A c \in Clients :
    /\ WF_vars(Recheck(c))
    /\ WF_vars(phase[c] = "holding" /\ DropGuard(c))

Spec == Init /\ [][Next]_vars /\ Fairness

(***************************************************************************)
(* Properties.                                                             *)
(***************************************************************************)

\* accessors is a usize: it never goes below zero.
TypeOK ==
  /\ accessors \in Nat
  /\ phase \in [Clients -> {"idle", "sleeping", "woken", "holding"}]
  /\ queue \in Seq(Clients)

\* Never more than `capacity` guards handed out at once, however callers
\* arrive, wake and are cancelled (spec 4.3, 8).
NoOverAdmission == Cardinality(Holders) <= Capacity

\* The counter is exactly the holders plus the pending access() futures:
\* cancelling a waiter gives its count back (low_pass_filter.rs 36-38).
AccessorsCounted == accessors = Cardinality(Holders) + Cardinality(Waiting)

\* No stranded waiter: when nobody holds the filter and the count admits
\* another accessor, some sleeper has been notified, for no holder is left
\* whose Drop would notify later. (With holders left, a counted waiter may
\* sleep until the next Drop: notify_one wakes one waiter per Drop.)
NoLostWakeup ==
  (Holders = {} /\ accessors <= Capacity /\ queue # <<>>)
    => \E c \in Clients : phase[c] = "woken"

\* Spec 4.3 and 8: the filter is a semaphore; every pending access() that
\* is not cancelled is eventually admitted, one waiter per release.
WaiterEventuallyAdmitted ==
  \A c \in Clients :
    (phase[c] \in {"sleeping", "woken"}) ~> (phase[c] \in {"holding", "idle"})
=============================================================================
