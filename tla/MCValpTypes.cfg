SPECIFICATION ScenarioSpec
CONSTANTS
  a1 = a1
  a2 = a2
  a3 = a3
  a4 = a4
  datum = datum
  Array = {a1, a2, a3, a4}
  Data = {datum}
  NIL = NIL
  ERROR = ERROR
  JUNK = JUNK
  MaxLength = 9
  MaxDepth = 5
  Indices <- MCIndices
  Char <- MCChar
  NUL = NUL
  Garbage <- MCGarbage
  MaxText = 3
  MaxStrings = 3
INVARIANTS
  CopiesAreRight
  EqualStringsAreOne
  MethodsGive
PROPERTIES
  ImplementsLists
  CallsReturn
CHECK_DEADLOCK FALSE
