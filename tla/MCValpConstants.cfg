SPECIFICATION GlobalsSpec
CONSTANTS
  x = x
  y = y
  z = z
  at1 = at1
  at2 = at2
  at3 = at3
  Global = {x, y, z}
  Address = {at1, at2, at3}
  MaxLine = 2
  Meets <- MCMeets
  Free = Free
SYMMETRY Addresses
INVARIANTS
  ConstsAreRefused
  OnlyConstsAreRefused
