SPECIFICATION Spec
CONSTANTS
  Users = {u1}
  Logins = {l1, l2}
CHECK_DEADLOCK FALSE
INVARIANTS
  SubsystemServed
