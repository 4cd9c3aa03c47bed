SPECIFICATION DeviationSpec
CONSTANTS
  Programs <- DeviatingPrograms
  FirstConstant = 26
  MaxAnswers = 7
  Char <- MCChar
  NUL = NUL
  Garbage <- MCGarbage
  MaxText = 3
  MaxStrings = 2
  Data = {data}
  Closure = {f, g, h}
  Upvalue = {u}
  Variable = {v1, v2, v3, v4}
  NIL = NIL
  MaxStack = 4
  MaxFrames = 2
  MaxArgs = 0
  MaxUpvalues = 1
INVARIANT SomeGoRight
CHECK_DEADLOCK FALSE
