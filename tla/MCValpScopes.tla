---------------------------- MODULE MCValpScopes ----------------------------
(* A TLC instance of ValpScopes, which is one of two scenarios with bounds *)
(* of their own: functions in functions, or loops.                         *)
EXTENDS ValpScopes, TLC

CONSTANTS x, y, d1, d2, d3, d4, d5, d6

VARIABLE scenario

mcvars == <<vars, scenario>>

MCSymmetry == Permutations(Name)

Bounds ==
  [functions |-> [levels |-> 3, depth |-> 2, loops |-> 0, params |-> 1, decls |-> 6],
   loops     |-> [levels |-> 2, depth |-> 3, loops |-> 2, params |-> 0, decls |-> 4]]

(* A new function has its parameters as locals above slot 0.               *)
Within(b) ==
  LET comp == Last(compilers')
  IN  /\ Len(compilers') <= b.levels /\ comp.scope_depth <= b.depth /\ Len(comp.loops) <= b.loops
      /\ Len(compilers') > Level => Len(comp.locals) <= 1 + b.params
      /\ Cardinality(UsedDecls') <= b.decls

ScenarioInit == Init /\ scenario \in DOMAIN Bounds
ScenarioNext == Next /\ Within(Bounds[scenario]) /\ UNCHANGED scenario
ScenarioSpec == ScenarioInit /\ [][ScenarioNext]_mcvars
=============================================================================
