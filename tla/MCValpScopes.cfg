SPECIFICATION ScenarioSpec
CONSTANTS
  x = x
  y = y
  d1 = d1
  d2 = d2
  d3 = d3
  d4 = d4
  d5 = d5
  d6 = d6
  Name = {x, y}
  self = self
  anon = anon
  Decl = {d1, d2, d3, d4, d5, d6}
  MaxLevel = 3
  MaxLocals = 4
  MaxDepth = 3
  MaxLoops = 2
  MaxParams = 1
SYMMETRY MCSymmetry
INVARIANTS
  LocalsSorted
  ResolvesLexically
  UpvaluesResolve
  CapturedLocalsAreClosed
  LoopsAreLeftClean
