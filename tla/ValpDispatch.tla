---------------------------- MODULE ValpDispatch ----------------------------
(***************************************************************************)
(* Classes, objects and calls as valp_vm.c makes them: method tables that  *)
(* are copied from the superclass, call frames that are windows on the     *)
(* operand stack, and the instructions the compiler puts in the place of   *)
(* reading a property and calling it.  They implement Objects.             *)
(*                                                                         *)
(* A program is any sequence of the instructions that an expression could  *)
(* be compiled to; functions have no locals but their parameters.  Classes *)
(* are declared by the script.  An error ends the run.                     *)
(***************************************************************************)
EXTENDS Integers, SequencesExt

CONSTANTS
  Arity,       \* of the functions: name -> number of parameters
  Functions,   \* the names of functions that are no methods
  init_string, \* the name of initializers
  FRAMES_MAX,  \* calls that may be running
  MaxClasses, MaxInstances, MaxStack \* bounds of the model

ASSUME DispatchAssumption ==
  /\ Functions \subseteq DOMAIN Arity
  /\ \A name \in DOMAIN Arity : Arity[name] \in Nat
  /\ {MaxClasses, MaxInstances, MaxStack} \subseteq Nat /\ FRAMES_MAX \in Nat \ {0}

VARIABLES
  classes,   \* each: methods, its table, and super, the value of the local
             \* "super" that its methods capture
  instances, \* each: klass, and its fields
  stack,     \* the operand stack, the bottom first
  frames,    \* each: the function, and the index of its slot 0
  declaring, \* the class whose body is being compiled and run, 0 if none
  asked, result, \* not in the program: the property or call that was asked
                 \* for in the last step, and the value it was given
  failed     \* whether run() returned after an error

vars == <<classes, instances, stack, frames, declaring, asked, result, failed>>

Nothing == [type |-> "nothing"]
Class(c) == [type |-> "class", class |-> c]
Instance(i) == [type |-> "instance", instance |-> i]
Function(home, name) == [type |-> "function", home |-> home, name |-> name]
Bound(self, code) == [type |-> "bound", self |-> self, code |-> code]

(* interpret pushes the script and calls it.                               *)
Init ==
  /\ classes = <<>> /\ instances = <<>>
  /\ stack = <<Function(0, "script")>>
  /\ frames = <<[code |-> Function(0, "script"), slots |-> 1]>>
  /\ declaring = 0
  /\ asked = [what |-> "nothing"] /\ result = Nothing /\ failed = FALSE
-----------------------------------------------------------------------------
frame == Last(frames)
Self == stack[frame.slots]
peek(distance) == stack[Len(stack) - distance]
Popped(n) == SubSeq(stack, 1, Len(stack) - n)

(* Slots of the running function; what is above them are temporaries.      *)
Locals == frame.slots + IF Len(frames) = 1 THEN 0 ELSE Arity[frame.code.name]
Temporaries(n) == ~failed /\ declaring = 0 /\ Len(stack) - n >= Locals

IsMethod == frame.code.home # 0
IsInitializer == IsMethod /\ frame.code.name = init_string
HasSuper == IsMethod /\ classes[frame.code.home].super # 0

runtime_error ==
  failed' = TRUE /\ UNCHANGED <<classes, instances, stack, frames, declaring, result>>

Asks(what, on, name, args) ==
  asked' = [what |-> what, on |-> on, name |-> name, args |-> args]

Arguments(arg_count) == SubSeq(stack, Len(stack) - arg_count + 1, Len(stack))

(* The stack with value in place of what is called.                        *)
Callee(arg_count, value) == [stack EXCEPT ![Len(stack) - arg_count] = value]

Gives(s, v) ==
  stack' = s /\ result' = v /\ UNCHANGED <<classes, frames, declaring, failed>>
-----------------------------------------------------------------------------
call(code, arg_count, s) ==
  IF arg_count # Arity[code.name] \/ Len(frames) = FRAMES_MAX THEN runtime_error
  ELSE /\ frames' = Append(frames, [code |-> code, slots |-> Len(s) - arg_count])
       /\ stack' = s
       /\ UNCHANGED <<classes, declaring, result, failed>>

call_class(c, arg_count) ==
  LET new == Instance(Len(instances) + 1)
      s == Callee(arg_count, new)
      methods == classes[c].methods
  IN  IF init_string \in DOMAIN methods
      THEN /\ call(methods[init_string], arg_count, s)
           /\ ~failed' => instances' = Append(instances, [klass |-> c, fields |-> <<>>])
      ELSE IF arg_count # 0 THEN runtime_error
      ELSE /\ instances' = Append(instances, [klass |-> c, fields |-> <<>>])
           /\ Gives(s, new)

(* Mutant: the bound method stays in slot 0.                               *)
call_value_bound(v, arg_count, s) ==
  CASE v.type = "bound"    -> call(v.code, arg_count, s) /\ UNCHANGED instances
    [] v.type = "class"    -> call_class(v.class, arg_count)
    [] v.type = "function" -> call(v, arg_count, s) /\ UNCHANGED instances
    [] OTHER               -> runtime_error

call_value(v, arg_count, s) ==
  CASE v.type = "bound"    -> call(v.code, arg_count, Callee(arg_count, v.self)) /\ UNCHANGED instances
    [] v.type = "class"    -> call_class(v.class, arg_count)
    [] v.type = "function" -> call(v, arg_count, s) /\ UNCHANGED instances
    [] OTHER               -> runtime_error

invoke_from_class(c, name, arg_count) ==
  IF name \notin DOMAIN classes[c].methods THEN runtime_error
  ELSE call(classes[c].methods[name], arg_count, stack) /\ UNCHANGED instances

invoke(name, arg_count) ==
  LET v == peek(arg_count)
      object == instances[v.instance]
  IN  IF v.type # "instance" THEN runtime_error
      ELSE IF name \in DOMAIN object.fields
      THEN call_value(object.fields[name], arg_count, Callee(arg_count, object.fields[name]))
      ELSE invoke_from_class(object.klass, name, arg_count)

bind_method(c, name) ==
  IF name \notin DOMAIN classes[c].methods THEN runtime_error
  ELSE LET bound == Bound(peek(0), classes[c].methods[name])
       IN  Gives(Append(Popped(1), bound), bound) /\ UNCHANGED instances
-----------------------------------------------------------------------------
(* A variable that holds a class, an object or a function.                 *)
Variables ==
  {Class(c) : c \in DOMAIN classes} \cup {Instance(i) : i \in DOMAIN instances}
    \cup {Function(0, name) : name \in Functions}

Silent ==
  /\ asked' = [what |-> "nothing"] /\ result' = Nothing
  /\ UNCHANGED <<classes, instances, frames, declaring, failed>>

op_get_global(v) == Temporaries(0) /\ stack' = Append(stack, v) /\ Silent
op_get_local(i) == /\ Temporaries(0)
                   /\ IF i = frame.slots THEN IsMethod ELSE i \in frame.slots .. Locals
                   /\ stack' = Append(stack, stack[i]) /\ Silent
op_pop == Temporaries(1) /\ stack' = Popped(1) /\ Silent

(* For += and its like the object stays under its field; of a method it    *)
(* does not, which the arithmetic behind it rejects anyway.                *)
Gets(name, below) ==
  LET v == peek(0)
      object == instances[v.instance]
  IN  /\ Temporaries(1)
      /\ Asks("get", v, name, <<>>)
      /\ IF v.type # "instance" THEN runtime_error
         ELSE IF name \in DOMAIN object.fields
         THEN Gives(Append(below, object.fields[name]), object.fields[name])
              /\ UNCHANGED instances
         ELSE bind_method(object.klass, name)

op_get_property(name) == Gets(name, Popped(1))
op_get_property_no_pop(name) == Gets(name, stack)

op_set_property(name) ==
  LET v == peek(1)
      value == peek(0)
  IN  /\ Temporaries(2)
      /\ Asks("set", v, name, <<value>>)
      /\ IF v.type # "instance" THEN runtime_error
         ELSE /\ instances' = [instances EXCEPT ![v.instance].fields =
                    [n \in DOMAIN @ \cup {name} |-> IF n = name THEN value ELSE @[n]]]
              /\ Gives(Append(Popped(2), value), value)

op_call(arg_count) ==
  /\ Temporaries(1 + arg_count)
  /\ Asks("call", peek(arg_count), "", Arguments(arg_count))
  /\ call_value(peek(arg_count), arg_count, stack)

op_invoke(name, arg_count) ==
  /\ Temporaries(1 + arg_count)
  /\ Asks("invoke", peek(arg_count), name, Arguments(arg_count))
  /\ invoke(name, arg_count)

(* The compiler has put self under the arguments, and super on top, which  *)
(* is popped at once.                                                      *)
op_get_super(name) ==
  /\ Temporaries(1) /\ HasSuper /\ peek(0) = Self
  /\ Asks("get super", Self, name, <<>>)
  /\ bind_method(classes[frame.code.home].super, name)

op_super_invoke(name, arg_count) ==
  /\ Temporaries(1 + arg_count) /\ HasSuper /\ peek(arg_count) = Self
  /\ Asks("call super", Self, name, Arguments(arg_count))
  /\ invoke_from_class(classes[frame.code.home].super, name, arg_count)

(* return_statement, emit_return: an initializer returns its slot 0.       *)
op_return ==
  LET value == IF IsInitializer THEN Self ELSE peek(0)
  IN  /\ ~failed /\ Len(frames) > 1
      /\ Len(stack) = IF IsInitializer THEN Locals ELSE Locals + 1
      /\ Asks("return", Nothing, "", <<>>)
      /\ frames' = Front(frames)
      /\ stack' = Append(SubSeq(stack, 1, frame.slots - 1), value)
      /\ result' = value
      /\ UNCHANGED <<classes, instances, declaring, failed>>
-----------------------------------------------------------------------------
(* class_declaration: the class is on the stack while its body runs, under *)
(* it the superclass, as the local "super".                                *)

Declares(what, on, name) ==
  Asks(what, on, name, <<>>) /\ UNCHANGED <<instances, frames, result, failed>>

op_class ==
  /\ ~failed /\ declaring = 0 /\ Len(stack) = 1 /\ Len(classes) < MaxClasses
  /\ classes' = Append(classes, [super |-> 0, methods |-> <<>>])
  /\ declaring' = Len(classes')
  /\ stack' = Append(stack, Class(declaring'))
  /\ Declares("class", Nothing, "")

hash_add_all(from, to) ==
  [n \in DOMAIN from \cup DOMAIN to |-> IF n \in DOMAIN from THEN from[n] ELSE to[n]]

op_inherit(v) ==
  /\ ~failed /\ declaring # 0
  /\ classes[declaring] = [super |-> 0, methods |-> <<>>] /\ v # Class(declaring)
  /\ IF v.type # "class" THEN runtime_error /\ Asks("inherit", v, "", <<>>)
     ELSE /\ classes' = [classes EXCEPT ![declaring] =
                [super |-> v.class, methods |-> hash_add_all(classes[v.class].methods, @.methods)]]
          /\ stack' = <<stack[1], v, Class(declaring)>>
          /\ UNCHANGED declaring
          /\ Declares("inherit", v, "")

(* Mutant: a method that is there is not replaced.                         *)
define_method_first(c, name, code) ==
  classes' = [classes EXCEPT ![c].methods = hash_add_all(@, [n \in {name} |-> code])]

define_method(c, name, code) ==
  classes' = [classes EXCEPT ![c].methods = hash_add_all([n \in {name} |-> code], @)]

op_method(name) ==
  /\ ~failed /\ declaring # 0
  /\ define_method(peek(0).class, name, Function(declaring, name))
  /\ UNCHANGED <<stack, declaring>>
  /\ Declares("method", Nothing, name)

end_class ==
  /\ ~failed /\ declaring # 0
  /\ declaring' = 0 /\ stack' = <<stack[1]>>
  /\ asked' = [what |-> "nothing"] /\ result' = Nothing
  /\ UNCHANGED <<classes, instances, frames, failed>>
-----------------------------------------------------------------------------
Name == DOMAIN Arity
ArgCount == 0 .. MaxStack

Next ==
  /\ \/ \E v \in Variables : op_get_global(v) \/ op_inherit(v)
     \/ \E i \in DOMAIN stack : op_get_local(i)
     \/ op_pop
     \/ \E name \in Name :
          \/ op_get_property(name) \/ op_get_property_no_pop(name) \/ op_set_property(name)
          \/ op_get_super(name) \/ op_method(name)
     \/ \E n \in ArgCount :
          \/ op_call(n)
          \/ \E name \in Name : op_invoke(name, n) \/ op_super_invoke(name, n)
     \/ op_return \/ op_class \/ end_class
  /\ Len(stack') <= MaxStack /\ Len(instances') <= MaxInstances

Spec == Init /\ [][Next]_vars
-----------------------------------------------------------------------------
(* What Objects sees of classes, objects and frames.                       *)
ClassesOf(cs) ==
  [c \in DOMAIN cs |->
     [super |-> cs[c].super,
      declares |-> {n \in DOMAIN cs[c].methods : cs[c].methods[n].home = c}]]

InstancesOf(is) == [i \in DOMAIN is |-> [class |-> is[i].klass, fields |-> is[i].fields]]

ActiveOf(st, fs) ==
  [k \in DOMAIN fs |->
     LET f == fs[k]
     IN  [self |-> st[f.slots], code |-> f.code,
          args |-> IF k = 1 THEN <<>> ELSE SubSeq(st, f.slots + 1, f.slots + Arity[f.code.name])]]

Objects ==
  INSTANCE Objects WITH
    classes <- ClassesOf(classes), instances <- InstancesOf(instances),
    active <- ActiveOf(stack, frames)

(* A running program does what Objects allows: each property that is read  *)
(* or called, of an object or of super, is the one of the nearest class,   *)
(* and each function runs with its own self and arguments.                 *)
ImplementsObjects == Objects!Spec

(* The types; windows lie one above the other, with room for the arguments.*)
TypeOK ==
  /\ \A c \in DOMAIN classes :
       /\ classes[c].super \in 0 .. c - 1
       /\ \A n \in DOMAIN classes[c].methods : classes[c].methods[n] \in {Function(h, n) : h \in 1 .. c}
  /\ \A i \in DOMAIN instances : instances[i].klass \in DOMAIN classes
  /\ declaring \in 0 .. Len(classes) /\ failed \in BOOLEAN
  /\ Len(frames) \in 1 .. FRAMES_MAX
  /\ \A k \in 2 .. Len(frames) : frames[k].slots > frames[k - 1].slots
  /\ failed \/ declaring # 0 \/ Len(stack) >= Locals

(* Class c and those it inherits from: what is in every set of classes that*)
(* has c and of each class the superclass.                                 *)
Upwards(S) == \A d \in S : classes[d].super \in S \cup {0}
Above(c) == {h \in DOMAIN classes : \A S \in SUBSET DOMAIN classes : c \in S /\ Upwards(S) => h \in S}

(* The types; and however a method was reached, by name, through a field,  *)
(* bound before, or by super, its self is an object of a class that has it *)
(* from its home.                                                          *)
SelfDescends ==
  TypeOK /\ \A k \in DOMAIN frames :
    LET f == frames[k]
        self == stack[f.slots]
    IN  f.code.home # 0 =>
          self.type = "instance" /\ f.code.home \in Above(instances[self.instance].klass)
=============================================================================
