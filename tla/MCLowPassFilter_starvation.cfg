\* The scenario of test_release_cancel: capacity 1, one holder and two
\* pending callers.
CONSTANTS
  c1 = c1
  c2 = c2
  c3 = c3
  c4 = c4
  c5 = c5
  Clients <- MCClients3
  Capacity = 1
SPECIFICATION Spec
PROPERTIES
  WaiterEventuallyAdmitted
