---------------------------- MODULE MCValpMemory ----------------------------
(***************************************************************************)
(* A TLC instance of ValpMemory.  Spec starts from the bare VM and needs   *)
(* many steps to build a program worth collecting, so an instance is one   *)
(* of several scenarios: the compiler in the bare VM, or interpret having  *)
(* compiled a script that uses some of the opcodes, in a state that Spec   *)
(* reaches under larger bounds.                                            *)
(***************************************************************************)
EXTENDS ValpMemory, TLC

CONSTANTS init, t, script, main, meth, A, B, mA, mB, super, name, native, x, y, z, w

VARIABLE scenario

mcvars == <<vars, scenario>>

MCSymmetry == Permutations({x, y, z, w})

MCNone == NoTable
MCNameText == init :> "init"

(* What differs between the scenarios but the program: the objects they    *)
(* start from, and bounds.                                                 *)
Fresh == {x, y, z, w}
Bound(objects, fresh, stk, frms, elems, texts) ==
  [objects |-> objects, fresh |-> fresh, stack |-> stk, frames |-> frms, elems |-> elems, texts |-> texts]

ScriptObjects == {init, meth, script, main}
ClassObjects == {t, A, B, mA, mB, super}
BuiltinObjects == {init, name, native, script, main}

Bounds ==
  [compile  |-> Bound({init}, 3, 3, 2, 1, {"init", "t"}),
   closures |-> Bound(ScriptObjects, 3, 3, 2, 2, {"init"}),
   declare  |-> Bound(ScriptObjects, 4, 4, 1, 2, {"init"}),
   classes  |-> Bound(ScriptObjects \cup ClassObjects, 3, 3, 3, 3, {"init", "t"}),
   builtins |-> Bound(BuiltinObjects, 2, 3, 1, 2, {"init", "native", "t"})]

Within(b) ==
  /\ DOMAIN heap' \subseteq b.objects \cup Fresh
  /\ Cardinality(DOMAIN heap' \cap Fresh) <= b.fresh
  /\ Len(stack') <= b.stack + (IF c'.at = "none" THEN 0 ELSE 1) /\ Len(frames') <= b.frames
  /\ \A o \in DOMAIN heap' :
       Len(heap'[o].elems) <= b.elems /\ (heap'[o].type = "string" => heap'[o].head \in b.texts)

(* To save states the collector traces the objects of the start in one     *)
(* order.                                                                  *)
NextGray == IF gray \subseteq Fresh THEN gray ELSE {CHOOSE o \in gray \ Fresh : TRUE}
CollectInOrder ==
  mark_roots \/ remove_white \/ sweep \/ \E o \in NextGray : trace_reference(o)

(* interpret has just called the script.                                   *)
Called ==
  /\ stack = <<main>> /\ frames = <<[closure |-> main, slots |-> 1]>>
  /\ open = NoTable /\ compilers = <<>> /\ c = NoCall /\ consts = {}
  /\ phase = "mutate" /\ marked = {} /\ gray = {}

(* A script that makes closures and arrays, or one that declares classes:  *)
(* its constants are a name and a function.                                *)
ScriptInit ==
  /\ scenario \in {"closures", "declare"} /\ Called
  /\ heap = (init :> MkString("init"))
              @@ meth :> [MkFunction EXCEPT !.head = init, !.elems = <<init>>]
              @@ script :> [MkFunction EXCEPT !.elems = <<init, meth>>]
              @@ main :> MkClosure(script, 0)
  /\ strings = {init} /\ globals = NoTable /\ methods = NoTable

ClosureNext ==
  \/ PushConstant \/ GetLocal \/ GetGlobal \/ GetUpvalue
  \/ Pop \/ SetLocal \/ SetUpvalue \/ DefineGlobal \/ SetGlobal
  \/ Call(0)
  \/ (\E n \in 0 .. 2 : MakeClosure(n)) \/ Capture \/ CloseUpvalue
  \/ Return

DeclareNext ==
  \/ GetGlobal \/ DefineGlobal \/ Pop \/ Return
  \/ Class \/ MakeClosure(0) \/ Method \/ Inherit

(* A script whose only name is "init", after lines that declared           *)
(* class init { def init() .. }, class t < init { def init() .. super .. } *)
(* and assigned t to init: the superclass is held by the upvalue only.     *)
ClassInit ==
  /\ scenario = "classes" /\ Called
  /\ heap = (init :> MkString("init")) @@ t :> MkString("t")
              @@ meth :> [MkFunction EXCEPT !.head = init, !.elems = <<init>>]
              @@ script :> [MkFunction EXCEPT !.elems = <<init, meth>>]
              @@ main :> MkClosure(script, 0)
              @@ A :> [MkClass(init) EXCEPT !.table = init :> mA]
              @@ B :> [MkClass(t) EXCEPT !.table = init :> mB]
              @@ mA :> MkClosure(meth, 0)
              @@ mB :> [MkClosure(meth, 1) EXCEPT !.elems = <<super>>]
              @@ super :> [MkUpvalue EXCEPT !.head = A]
  /\ strings = {init, t} /\ globals = init :> B /\ methods = NoTable

ClassNext ==
  \/ GetLocal \/ GetGlobal \/ Pop
  \/ (\E pops \in {0, 1} : GetField(pops)) \/ bind_method \/ SetProperty
  \/ GetSuper \/ BindSuper
  \/ Call(0) \/ Invoke(0) \/ SuperInvoke(0) \/ Return

(* A script that uses strings, arrays and the natives.                     *)
BuiltinStart ==
  /\ scenario = "builtins" /\ Called
  /\ heap = (init :> MkString("init")) @@ name :> MkString("native")
              @@ native :> MkNative
              @@ script :> [MkFunction EXCEPT !.elems = <<name>>]
              @@ main :> MkClosure(script, 0)
  /\ strings = {init, name} /\ methods = name :> native

(* The native is a global function as well.                                *)
BuiltinInit == BuiltinStart /\ globals = name :> native

BuiltinNext ==
  \/ Intern
  \/ PushConstant \/ GetLocal \/ GetGlobal \/ Pop
  \/ (\E txt \in Text : Concatenate(txt))
  \/ (\E argc \in {0, 1} : Call(argc) \/ ArrayMethod(argc))
  \/ (\E n \in 0 .. 2 : NewArray(n)) \/ FillArray \/ Slice
  \/ RuntimeError

CompileInit == scenario = "compile" /\ Init

ScenarioInit == CompileInit \/ ScriptInit \/ ClassInit \/ BuiltinInit

ScenarioNext ==
  /\ \/ scenario = "compile" /\ Next
     \/ scenario # "compile" /\ CollectInOrder
     \/ scenario = "closures" /\ ClosureNext
     \/ scenario = "declare" /\ DeclareNext
     \/ scenario = "classes" /\ ClassNext
     \/ scenario = "builtins" /\ BuiltinNext
  /\ Within(Bounds[scenario]) /\ UNCHANGED scenario

ScenarioSpec == ScenarioInit /\ [][ScenarioNext]_mcvars

(* The script that uses strings and arrays, calling split as well, where   *)
(* the native is a method only.                                            *)
SplitNext ==
  (BuiltinNext \/ CollectInOrder \/ Split) /\ Within(Bounds["builtins"]) /\ UNCHANGED scenario

SplitSpec == BuiltinStart /\ globals = NoTable /\ [][SplitNext]_mcvars

(* A collection leaves the program what it still uses: the native methods  *)
(* (test/core/types/array.vp:17), or the array that split will return      *)
(* (test/core/types/string.vp:6), if not both.                             *)
BuiltinsLive == MethodTablesLive \/ SplitArrayLive
=============================================================================
