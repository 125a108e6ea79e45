SPECIFICATION Spec
CONSTANTS
  Users = {u1, u2}
  Logins = {l1, l2, l3, l4}
  Keys = {k1, k2, k3}
  NoKey = NoKey
  NoUser = NoUser
SYMMETRY Symmetry
CHECK_DEADLOCK FALSE
INVARIANTS
  IInv
  PubKeyLoginIdentity
  DeliveredKeyWorks
  RegistrationCompletes
