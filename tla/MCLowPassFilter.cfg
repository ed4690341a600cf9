\* Capacity 2 with five callers: two holders, three waiters, and
\* cancellation of holders, sleepers and woken waiters in every order.
CONSTANTS
  c1 = c1
  c2 = c2
  c3 = c3
  c4 = c4
  c5 = c5
  Clients <- MCClients5
  Capacity = 2
SPECIFICATION Spec
INVARIANTS
  TypeOK
  NoOverAdmission
  AccessorsCounted
  NoLostWakeup
