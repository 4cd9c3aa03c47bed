SPECIFICATION ScenarioSpec
CONSTANTS
  Arity <- MCArity
  Functions = {"init", "m"}
  init_string = "init"
  FRAMES_MAX = 3
  MaxClasses = 3
  MaxInstances = 1
  MaxStack = 5
INVARIANTS
  SelfDescends
PROPERTIES
  ImplementsObjects
CHECK_DEADLOCK FALSE
