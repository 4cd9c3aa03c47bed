------------------------------ MODULE Objects ------------------------------
(***************************************************************************)
(* What a Valp program may expect of classes and objects.  A property of an*)
(* object is its field, or else the method of the nearest class above that *)
(* declares it, bound to the object; super looks from above the class the  *)
(* running method was declared in; calling a property by name is reading   *)
(* it, and calling what was read; calling a class gives a new object,      *)
(* whatever its initializer returns.                                       *)
(***************************************************************************)
EXTENDS Integers, Sequences

CONSTANTS
  Arity,       \* of the functions: name -> number of parameters
  init_string, \* the name of initializers
  FRAMES_MAX   \* calls that may be running

VARIABLES
  classes,   \* each: its superclass (0: none), and the names it declares
  instances, \* each: its class, and its fields
  active,    \* the running functions: [self, code, args]
  asked,     \* what the program asks for in a step: [what, on, name, args]
  result,    \* the value it is given
  failed     \* whether the run ended in an error

Nothing == [type |-> "nothing"]
Class(c) == [type |-> "class", class |-> c]
Instance(i) == [type |-> "instance", instance |-> i]
Function(home, name) == [type |-> "function", home |-> home, name |-> name]
Bound(self, code) == [type |-> "bound", self |-> self, code |-> code]

Script ==
  LET code == Function(0, "script")
  IN  [self |-> code, code |-> code, args |-> <<>>]

Init ==
  /\ classes = <<>> /\ instances = <<>> /\ active = <<Script>>
  /\ asked = [what |-> "nothing"] /\ result = Nothing /\ failed = FALSE

(* The class from c upwards that declares name, 0 if there is none.        *)
Declarer(c, name) ==
  LET from[k \in 0 .. Len(classes)] ==
        IF k = 0 \/ name \in classes[k].declares THEN k ELSE from[classes[k].super]
  IN  from[c]

Method(self, c, name) ==
  LET home == Declarer(c, name)
  IN  IF home = 0 THEN Nothing ELSE Bound(self, Function(home, name))

Property(v, name) ==
  IF v.type # "instance" THEN Nothing
  ELSE LET object == instances[v.instance]
       IN  IF name \in DOMAIN object.fields THEN object.fields[name]
           ELSE Method(v, object.class, name)

Super(name) ==
  Method(active[Len(active)].self, classes[active[Len(active)].code.home].super, name)
-----------------------------------------------------------------------------
Fails == failed' = TRUE /\ UNCHANGED <<classes, instances, active, result>>

Gives(v) ==
  IF v = Nothing THEN Fails
  ELSE result' = v /\ UNCHANGED <<classes, instances, active, failed>>

Runs(self, code, args) ==
  IF Len(args) # Arity[code.name] \/ Len(active) = FRAMES_MAX THEN Fails
  ELSE /\ active' = Append(active, [self |-> self, code |-> code, args |-> args])
       /\ UNCHANGED <<classes, result, failed>>

New(c) == instances' = Append(instances, [class |-> c, fields |-> <<>>])

Constructs(c, args) ==
  LET new == Instance(Len(instances) + 1)
      home == Declarer(c, init_string)
  IN  IF home # 0
      THEN Runs(new, Function(home, init_string), args) /\ (~failed' => New(c))
      ELSE IF args # <<>> THEN Fails
      ELSE New(c) /\ result' = new /\ UNCHANGED <<classes, active, failed>>

Calls(v, args) ==
  CASE v.type = "bound"    -> Runs(v.self, v.code, args) /\ UNCHANGED instances
    [] v.type = "function" -> Runs(v, v, args) /\ UNCHANGED instances
    [] v.type = "class"    -> Constructs(v.class, args)
    [] OTHER               -> Fails

Sets(v, name, value) ==
  IF v.type # "instance" THEN Fails
  ELSE /\ instances' = [instances EXCEPT ![v.instance].fields =
             [n \in DOMAIN @ \cup {name} |-> IF n = name THEN value ELSE @[n]]]
       /\ result' = value
       /\ UNCHANGED <<classes, active, failed>>

(* A function returns what it likes, but an initializer its object.        *)
Returns ==
  LET last == active[Len(active)]
  IN  /\ active' = SubSeq(active, 1, Len(active) - 1)
      /\ last.code.home # 0 /\ last.code.name = init_string => result' = last.self
      /\ UNCHANGED <<classes, instances, failed>>

(* A class may only be given a superclass that is one.                     *)
Inherits(v) ==
  IF v.type # "class" THEN Fails
  ELSE /\ classes' = [classes EXCEPT ![Len(classes)].super = v.class]
       /\ UNCHANGED <<instances, active, result, failed>>

Declares(name) ==
  /\ classes' = [classes EXCEPT ![Len(classes)].declares = @ \cup {name}]
  /\ UNCHANGED <<instances, active, result, failed>>

NewClass ==
  /\ classes' = Append(classes, [super |-> 0, declares |-> {}])
  /\ UNCHANGED <<instances, active, result, failed>>

Next ==
  LET a == asked'
  IN  \/ a.what = "nothing"    /\ UNCHANGED <<classes, instances, active, failed>>
      \/ a.what = "get"        /\ Gives(Property(a.on, a.name))
      \/ a.what = "set"        /\ Sets(a.on, a.name, a.args[1])
      \/ a.what = "call"       /\ Calls(a.on, a.args)
      \/ a.what = "invoke"     /\ Calls(Property(a.on, a.name), a.args)
      \/ a.what = "get super"  /\ Gives(Super(a.name))
      \/ a.what = "call super" /\ Calls(Super(a.name), a.args)
      \/ a.what = "return"     /\ Returns
      \/ a.what = "class"      /\ NewClass
      \/ a.what = "inherit"    /\ Inherits(a.on)
      \/ a.what = "method"     /\ Declares(a.name)

Spec == Init /\ [][Next]_<<classes, instances, active, asked, result, failed>>
=============================================================================
