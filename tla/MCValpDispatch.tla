--------------------------- MODULE MCValpDispatch ---------------------------
(* A TLC instance of ValpDispatch, which is one of two scenarios: two      *)
(* classes with initializers of a parameter, or three with methods without.*)
EXTENDS ValpDispatch

VARIABLE scenario

mcvars == <<vars, scenario>>

MCArity == ("init" :> 1) @@ ("m" :> 0)

Bounds ==
  [initializers |-> [name |-> "init", classes |-> 2, stack |-> 5],
   methods      |-> [name |-> "m", classes |-> 3, stack |-> 4]]

Within(b) ==
  /\ "name" \in DOMAIN asked' => asked'.name \in {"", b.name}
  /\ \A k \in 2 .. Len(stack') : stack'[k].type = "function" => stack'[k].name = b.name
  /\ Len(classes') <= b.classes /\ Len(stack') <= b.stack

(* Classes are declared before there are objects.                          *)
DeclaredFirst == classes' # classes => instances = <<>>

ScenarioInit == Init /\ scenario \in DOMAIN Bounds
ScenarioNext == Next /\ Within(Bounds[scenario]) /\ DeclaredFirst /\ UNCHANGED scenario
ScenarioSpec == ScenarioInit /\ [][ScenarioNext]_mcvars
=============================================================================
