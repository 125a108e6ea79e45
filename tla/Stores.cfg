SPECIFICATION Spec
CONSTANTS
  Clients = {c1, c2}
  Keys = {k1, k2}
  Values = {v1}
  Unset = Unset
  Kept = Kept
  Listed = {k1, k2}
SYMMETRY Symmetry
CHECK_DEADLOCK FALSE
INVARIANTS
  StdInv
  EtcdInv
  ListingFaithful
PROPERTIES
  Implements
