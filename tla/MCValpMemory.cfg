SPECIFICATION ScenarioSpec
CONSTANTS
  init = init
  t = t
  script = script
  main = main
  meth = meth
  A = A
  B = B
  mA = mA
  mB = mB
  super = super
  name = name
  native = native
  x = x
  y = y
  z = z
  w = w
  Obj = {init, t, script, main, meth, A, B, mA, mB, super, name, native, x, y, z, w}
  NIL = NIL
  Text = {"init", "t", "native"}
  init_string = init
  Natives <- MCNone
  MethodNatives <- MCNone
  NameText <- MCNameText
  MaxStack = 4
  MaxFrames = 3
  MaxNesting = 2
  MaxElems = 3
  MaxArgs = 0
  MaxUpvalues = 1
SYMMETRY MCSymmetry
INVARIANTS
  NoDangling
  TriColour
  Interned
  CastsOK
PROPERTIES
  GarbageFreed
CHECK_DEADLOCK FALSE
