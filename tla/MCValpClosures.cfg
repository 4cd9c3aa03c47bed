SPECIFICATION EagerSpec
CONSTANTS
  f = f
  g = g
  h = h
  u1 = u1
  u2 = u2
  a = a
  v1 = v1
  v2 = v2
  v3 = v3
  v4 = v4
  v5 = v5
  Data = {a}
  Closure = {f, g, h}
  Upvalue = {u1, u2}
  Var = {v1, v2, v3, v4, v5}
  NIL = NIL
  MaxStack = 4
  MaxFrames = 2
  MaxArgs = 0
  MaxUpvalues = 2
SYMMETRY MCSymmetry
INVARIANTS
  UpvaluesMeanVariables
  OneUpvaluePerVariable
PROPERTIES
  ImplementsVariables
CHECK_DEADLOCK FALSE
