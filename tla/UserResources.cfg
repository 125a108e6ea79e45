SPECIFICATION FairSpec
CONSTANTS
  Users = {u1, u2}
  Logins = {l1, l2, l3}
CHECK_DEADLOCK FALSE
INVARIANTS
  IInv
  AllOrNothing
PROPERTIES
  CreationFinishes
  LoginResolves
