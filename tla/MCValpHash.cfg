SPECIFICATION FairSpec
CONSTANTS
  k1 = k1
  k2 = k2
  k3 = k3
  Key = {k1, k2, k3}
  NULL = NULL
  NIL = NIL
  TRUEVAL = TRUEVAL
  Value = {NIL, TRUEVAL}
  HashOf <- MCHash
  MinSize = 2
  MaxSize = 8
  MaxSource = 2
INVARIANTS
  KeysReachable
  ProbesTerminate
  CountIsUsed
PROPERTIES
  CallsReturn
  ImplementsDict
