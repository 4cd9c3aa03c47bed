----------------------------- MODULE ValpMemory -----------------------------
(***************************************************************************)
(* The mark-sweep collector of valp_memory.c under the handlers that       *)
(* allocate and move references: the compiler building functions and the   *)
(* opcodes of run().  Any allocation may collect, so each handler is cut   *)
(* at its allocations.  A collection inside a handler before it changed    *)
(* anything is one before the handler; "c" holds what a handler keeps in C *)
(* variables over a later allocation, where only the roots protect it.     *)
(*                                                                         *)
(* Numbers, booleans and nil are NIL.  Arities match, indices are in       *)
(* bounds; every failing check is the action RuntimeError.  The compiler   *)
(* emits OP_CLOSE_UPVALUE for captured locals, so what a handler pops is   *)
(* not captured (ValpClosures models that discipline).                     *)
(***************************************************************************)
EXTENDS ValpHeap

CONSTANTS
  init_string,    \* vm.init_string
  Natives,        \* the global functions of valp_native.c: name -> native
  MethodNatives,  \* vm.array_methods and vm.string_methods: name -> native
  NameText,       \* the contents of those names
  MaxStack, MaxFrames, MaxNesting, MaxElems, MaxArgs, MaxUpvalues  \* bounds

Names == {init_string} \cup DOMAIN Natives \cup DOMAIN MethodNatives
NativeObjs == {Natives[k] : k \in DOMAIN Natives}
                \cup {MethodNatives[k] : k \in DOMAIN MethodNatives}

ASSUME MemoryAssumption ==
  /\ Names \subseteq Obj /\ NativeObjs \subseteq Obj \ Names
  /\ IsTable(Natives) /\ IsTable(MethodNatives)
  /\ NameText \in [Names -> Text]
  /\ \A k, l \in Names : NameText[k] = NameText[l] => k = l
  /\ {MaxStack, MaxFrames, MaxNesting, MaxElems, MaxArgs, MaxUpvalues} \subseteq Nat

VARIABLES
  heap,       \* vm.objects: address -> object
  stack,      \* vm.stack below vm.stack_top
  frames,     \* vm.frames: the closure, and the index of slot 0
  open,       \* vm.open_upvalues: upvalue -> the stack index it points at
  globals,    \* vm.globals
  strings,    \* vm.strings, the intern table
  methods,    \* vm.array_methods and vm.string_methods
  consts,     \* the keys of vm.constants
  compilers,  \* the functions under construction, innermost last
  c,          \* where the handler in progress stands, and its C variables
  phase,      \* "mutate", or the collector's "trace" and "sweep"
  marked,     \* the objects with is_marked
  gray        \* vm.gray_stack, as a set

mutator == <<stack, frames, open, globals, methods, consts, compilers, c>>
collector == <<phase, marked, gray>>
vars == <<heap, strings, mutator, collector>>
-----------------------------------------------------------------------------
Top(s) == s[Len(s)]
Cut(s, n) == SubSeq(s, 1, Len(s) - n)
Peek(n) == stack[Len(stack) - n]
Live == DOMAIN heap
Is(v, t) == v \in Live /\ heap[v].type = t
Put(o, r) == [x \in Live \cup {o} |-> IF x = o THEN r ELSE heap[x]]
Free == Obj \ Live

NoCall == [at |-> "none", next |-> "none", o |-> NIL, s |-> NIL, n |-> 0]
At(l) == [NoCall EXCEPT !.at = l]

Idle == phase = "mutate" /\ c.at = "none"
Compiling == Idle /\ compilers # <<>>
Running == Idle /\ frames # <<>>
Resting == Idle /\ compilers = <<>> /\ frames = <<>>

Init ==
  /\ heap = [o \in Names \cup NativeObjs |->
               IF o \in Names THEN MkString(NameText[o]) ELSE MkNative]
  /\ strings = Names
  /\ globals = Natives /\ methods = MethodNatives /\ consts = {}
  /\ stack = <<>> /\ frames = <<>> /\ open = NoTable
  /\ compilers = <<>>
  /\ c = NoCall
  /\ phase = "mutate" /\ marked = {} /\ gray = {}
-----------------------------------------------------------------------------
(* The collector.                                                          *)

Roots == (Elements(stack) \cup {frames[i].closure : i \in DOMAIN frames}
            \cup DOMAIN open \cup TableRefs(globals) \cup Elements(compilers)
            \cup {init_string}) \cap Obj

(* Mutant: the intern table marks its strings, like any other table.       *)
mark_roots_strong ==
  /\ phase = "mutate" /\ c.at # "exit"
  /\ phase' = "trace" /\ marked' = Roots \cup strings /\ gray' = Roots \cup strings
  /\ UNCHANGED <<heap, strings, mutator>>

mark_roots ==
  /\ phase = "mutate" /\ c.at # "exit"
  /\ phase' = "trace" /\ marked' = Roots /\ gray' = Roots
  /\ UNCHANGED <<heap, strings, mutator>>

(* Mutant: what is marked is not pushed on the gray stack.                 *)
trace_reference_noPush(o) ==
  /\ phase = "trace"
  /\ marked' = marked \cup Blackened(heap[o])
  /\ gray' = gray \ {o}
  /\ UNCHANGED <<heap, strings, mutator, phase>>

(* One turn of trace_references; mark_object skips what is marked.         *)
trace_reference(o) ==
  /\ phase = "trace"
  /\ marked' = marked \cup Blackened(heap[o])
  /\ gray' = (gray \ {o}) \cup (Blackened(heap[o]) \ marked)
  /\ UNCHANGED <<heap, strings, mutator, phase>>

(* Mutant: without hash_remove_white.                                      *)
remove_white_never ==
  /\ phase = "trace" /\ gray = {}
  /\ phase' = "sweep"
  /\ UNCHANGED <<heap, strings, mutator, marked, gray>>

(* hash_remove_white(&vm.strings): the intern table is weak.               *)
remove_white ==
  /\ phase = "trace" /\ gray = {}
  /\ strings' = strings \cap marked
  /\ phase' = "sweep"
  /\ UNCHANGED <<heap, mutator, marked, gray>>

sweep ==
  /\ phase = "sweep"
  /\ heap' = [o \in Live \cap marked |-> heap[o]]
  /\ marked' = {}
  /\ phase' = "mutate"
  /\ UNCHANGED <<strings, mutator, gray>>

Collect == mark_roots \/ (\E o \in gray : trace_reference(o)) \/ remove_white \/ sweep
-----------------------------------------------------------------------------
(* Strings.  What the caller does with the interned string s, "stk" being  *)
(* the stack without it: init_compiler names the function, emit_constant   *)
(* pushes it in add_constant, concatenate replaces its operands, and       *)
(* string_split goes on to write it to its array.                          *)
Result(s, next, stk) ==
  /\ heap' = IF next = "name" THEN [heap EXCEPT ![Top(compilers)].head = s]
                              ELSE heap
  /\ stack' = CASE next = "constant" -> Append(stk, s)
                [] next = "concat" -> Append(Cut(stk, 2), s)
                [] next \in {"name", "split"} -> stk
  /\ c' = CASE next = "constant" -> At("constant")
            [] next = "split" -> [c EXCEPT !.at = "write", !.s = s]
            [] next \in {"name", "concat"} -> NoCall

(* copy_string and take_string, up to the push of allocate_string.         *)
CopyString(txt, next) ==
  /\ \/ \E s \in strings : heap[s].head = txt /\ Result(s, next, stack)
     \/ /\ \A s \in strings : heap[s].head # txt
        /\ \E o \in Free :
             /\ heap' = Put(o, MkString(txt))
             /\ stack' = Append(stack, o)
             /\ c' = [c EXCEPT !.at = "intern", !.next = next]
  /\ UNCHANGED <<strings, frames, open, globals, methods, consts, compilers, collector>>

(* The rest of allocate_string, after hash_set grew the table.             *)
Intern ==
  /\ phase = "mutate" /\ c.at = "intern"
  /\ strings' = strings \cup {Top(stack)}
  /\ Result(Top(stack), c.next, Cut(stack, 1))
  /\ UNCHANGED <<frames, open, globals, methods, consts, compilers, collector>>
-----------------------------------------------------------------------------
(* The compiler.                                                           *)

(* init_compiler; every function but the script's then copies its name.    *)
init_compiler ==
  /\ \/ Resting
     \/ Compiling /\ Len(compilers) < MaxNesting
  /\ \E f \in Free :
       /\ heap' = Put(f, MkFunction)
       /\ compilers' = Append(compilers, f)
  /\ c' = IF compilers = <<>> THEN NoCall ELSE At("name")
  /\ UNCHANGED <<strings, stack, frames, open, globals, methods, consts, collector>>

NameFunction(txt) ==
  /\ phase = "mutate" /\ c.at = "name"
  /\ CopyString(txt, "name")

(* identifier_constant and string.                                         *)
StringConstant(txt) ==
  /\ Compiling /\ Len(heap[Top(compilers)].elems) < MaxElems
  /\ CopyString(txt, "constant")

(* add_constant after its push: the array may have grown.                  *)
AddConstant ==
  /\ phase = "mutate" /\ c.at = "constant"
  /\ heap' = [heap EXCEPT ![Top(compilers)].elems = Append(@, Top(stack))]
  /\ stack' = Cut(stack, 1)
  /\ c' = NoCall
  /\ UNCHANGED <<strings, frames, open, globals, methods, consts, compilers, collector>>

(* define_variable of a const: its name, a constant of the function.       *)
DefineConst ==
  /\ Compiling /\ Len(compilers) = 1
  /\ \E k \in Elements(heap[Top(compilers)].elems) :
       Is(k, "string") /\ consts' = consts \cup {k}
  /\ UNCHANGED <<heap, strings, stack, frames, open, globals, methods, compilers, c, collector>>

(* end_compiler.  An inner function becomes a constant of the enclosing    *)
(* one; the script is pushed by interpret, or dropped after an error.      *)
end_compiler ==
  /\ Compiling
  /\ compilers' = Cut(compilers, 1)
  /\ \/ /\ Len(compilers) > 1 /\ Len(heap[compilers[Len(compilers) - 1]].elems) < MaxElems
        /\ stack' = Append(stack, Top(compilers)) /\ c' = At("constant")
     \/ /\ Len(compilers) = 1
        /\ stack' = Append(stack, Top(compilers)) /\ c' = At("script")
     \/ /\ Len(compilers) = 1
        /\ UNCHANGED <<stack, c>>
  /\ UNCHANGED <<heap, strings, frames, open, globals, methods, consts, collector>>

(* interpret, from new_closure on.                                         *)
interpret ==
  /\ phase = "mutate" /\ c.at = "script"
  /\ \E o \in Free :
       /\ heap' = Put(o, MkClosure(Top(stack), 0))
       /\ stack' = Append(Cut(stack, 1), o)
       /\ frames' = <<[closure |-> o, slots |-> Len(stack)]>>
  /\ c' = NoCall
  /\ UNCHANGED <<strings, open, globals, methods, consts, compilers, collector>>
-----------------------------------------------------------------------------
(* Opcodes of run().                                                       *)

Closure == Top(frames).closure
Base == Top(frames).slots
Constants == Elements(heap[heap[Closure].head].elems)
Upvalues == Elements(heap[Closure].elems) \ {NIL}
Captured == {open[u] : u \in DOMAIN open}
Temporary(n) == Len(stack) - Base >= n /\ \A s \in Captured : s <= Len(stack) - n
Location(u) == IF u \in DOMAIN open THEN stack[open[u]] ELSE heap[u].head

(* The slots a name can stand for: slot 0 only as the self of a method.    *)
Locals == {i \in Base .. Len(stack) : i = Base => Is(stack[i], "instance")}

Push(v) ==
  /\ Len(stack) < MaxStack
  /\ stack' = Append(stack, v)
  /\ UNCHANGED <<heap, strings, frames, open, globals, methods, consts, compilers, c, collector>>

(* OP_CONSTANT of a string; OP_NIL, OP_TRUE, OP_FALSE, a number constant.  *)
PushConstant == Running /\ \E v \in {k \in Constants : Is(k, "string")} \cup {NIL} : Push(v)

(* OP_GET_LOCAL, and OP_DUP of the topmost slot.                           *)
GetLocal == Running /\ \E i \in Locals : Push(stack[i])

GetGlobal == Running /\ \E k \in Constants \cap DOMAIN globals : Push(globals[k])

GetUpvalue == Running /\ \E u \in Upvalues : Push(Location(u))

(* OP_POP, and OP_PRINT.                                                   *)
Pop ==
  /\ Running
  /\ Temporary(1) /\ stack' = Cut(stack, 1)
  /\ UNCHANGED <<heap, strings, frames, open, globals, methods, consts, compilers, c, collector>>

(* OP_EQUAL, OP_LESS and the like pop two, and push no object.             *)
Binary ==
  /\ Running
  /\ Temporary(2) /\ stack' = Append(Cut(stack, 2), NIL)
  /\ UNCHANGED <<heap, strings, frames, open, globals, methods, consts, compilers, c, collector>>

SetLocal ==
  /\ Running
  /\ \E i \in Base + 1 .. Len(stack) : stack' = [stack EXCEPT ![i] = Peek(0)]
  /\ UNCHANGED <<heap, strings, frames, open, globals, methods, consts, compilers, c, collector>>

SetUpvalue ==
  /\ Running
  /\ \E u \in Upvalues :
       IF u \in DOMAIN open
       THEN stack' = [stack EXCEPT ![open[u]] = Peek(0)] /\ UNCHANGED heap
       ELSE heap' = [heap EXCEPT ![u].head = Peek(0)] /\ UNCHANGED stack
  /\ UNCHANGED <<strings, frames, open, globals, methods, consts, compilers, c, collector>>

DefineGlobal ==
  /\ Running /\ Temporary(1)
  /\ \E k \in Constants : Is(k, "string") /\ globals' = With(globals, k, Peek(0))
  /\ stack' = Cut(stack, 1)
  /\ UNCHANGED <<heap, strings, frames, open, methods, consts, compilers, c, collector>>

SetGlobal ==
  /\ Running
  /\ \E k \in Constants \cap DOMAIN globals : globals' = With(globals, k, Peek(0))
  /\ UNCHANGED <<heap, strings, stack, frames, open, methods, consts, compilers, c, collector>>

(* OP_GET_PROPERTY (pops = 1) and OP_GET_PROPERTY_NO_POP (0): a field.     *)
GetField(pops) ==
  /\ Running /\ Is(Peek(0), "instance") /\ Temporary(1)
  /\ Len(stack) - pops < MaxStack
  /\ \E k \in Constants \cap DOMAIN heap[Peek(0)].table :
       stack' = Append(Cut(stack, pops), heap[Peek(0)].table[k])
  /\ UNCHANGED <<heap, strings, frames, open, globals, methods, consts, compilers, c, collector>>

(* bind_method, for either opcode: the instance is popped.                 *)
bind_method ==
  /\ Running /\ Is(Peek(0), "instance") /\ Temporary(1)
  /\ LET klass == heap[Peek(0)].head IN
     \E k \in Constants \cap DOMAIN heap[klass].table, o \in Free :
       /\ k \notin DOMAIN heap[Peek(0)].table
       /\ heap' = Put(o, MkBound(Peek(0), heap[klass].table[k]))
       /\ stack' = Append(Cut(stack, 1), o)
  /\ UNCHANGED <<strings, frames, open, globals, methods, consts, compilers, c, collector>>

SetProperty ==
  /\ Running /\ Temporary(2) /\ Is(Peek(1), "instance")
  /\ \E k \in Constants :
       /\ Is(k, "string")
       /\ heap' = [heap EXCEPT ![Peek(1)].table = With(@, k, Peek(0))]
  /\ stack' = Append(Cut(stack, 2), Peek(0))
  /\ UNCHANGED <<strings, frames, open, globals, methods, consts, compilers, c, collector>>

(* OP_GET_SUPER: super_ has just loaded the class from an upvalue and      *)
(* OP_GET_SUPER popped it when the bound method is allocated.              *)
GetSuper ==
  /\ Running /\ Is(Peek(0), "instance") /\ Temporary(1)
  /\ \E u \in Upvalues :
       /\ Is(Location(u), "class")
       /\ \E k \in Constants \cap DOMAIN heap[Location(u)].table :
            c' = [At("super") EXCEPT !.o = heap[Location(u)].table[k]]
  /\ UNCHANGED <<heap, strings, stack, frames, open, globals, methods, consts, compilers, collector>>

BindSuper ==
  /\ phase = "mutate" /\ c.at = "super"
  /\ \E o \in Free :
       /\ heap' = Put(o, MkBound(Peek(0), c.o))
       /\ stack' = Append(Cut(stack, 1), o)
  /\ c' = NoCall
  /\ UNCHANGED <<strings, frames, open, globals, methods, consts, compilers, collector>>

Concatenate(txt) ==
  /\ Running /\ Temporary(2)
  /\ Is(Peek(0), "string") /\ Is(Peek(1), "string")
  /\ CopyString(txt, "concat")

(* call: a frame whose slot 0 is recv.                                     *)
Enter(m, recv, argc) ==
  /\ Len(frames) < MaxFrames
  /\ stack' = [stack EXCEPT ![Len(stack) - argc] = recv]
  /\ frames' = Append(frames, [closure |-> m, slots |-> Len(stack) - argc])

call_value(v, argc) ==
  \/ Is(v, "closure") /\ Enter(v, v, argc) /\ UNCHANGED heap
  \/ Is(v, "bound") /\ Enter(heap[v].head, heap[v].elems[1], argc) /\ UNCHANGED heap
  \/ /\ Is(v, "class")
     /\ \E o \in Free :
          /\ heap' = Put(o, MkInstance(v))
          /\ \/ /\ init_string \in DOMAIN heap[v].table
                /\ Enter(heap[v].table[init_string], o, argc)
             \/ /\ init_string \notin DOMAIN heap[v].table /\ argc = 0
                /\ stack' = Append(Cut(stack, 1), o) /\ UNCHANGED frames
  \/ /\ Is(v, "native")
     /\ stack' = Append(Cut(stack, argc + 1), NIL)
     /\ UNCHANGED <<heap, frames>>

Call(argc) ==
  /\ Running /\ Temporary(argc + 1)
  /\ call_value(Peek(argc), argc)
  /\ UNCHANGED <<strings, open, globals, methods, consts, compilers, c, collector>>

(* OP_INVOKE on an instance: a field, else a method of its class.          *)
Invoke(argc) ==
  /\ Running /\ Temporary(argc + 1) /\ Is(Peek(argc), "instance")
  /\ LET self == heap[Peek(argc)]
         klass == heap[self.head]
     IN  \E k \in Constants :
           \/ k \in DOMAIN self.table /\ call_value(self.table[k], argc)
           \/ /\ k \in DOMAIN klass.table \ DOMAIN self.table
              /\ Enter(klass.table[k], Peek(argc), argc) /\ UNCHANGED heap
  /\ UNCHANGED <<strings, open, globals, methods, consts, compilers, c, collector>>

(* OP_SUPER_INVOKE, with the class super_ has loaded from an upvalue.      *)
SuperInvoke(argc) ==
  /\ Running /\ Temporary(argc + 1) /\ Is(Peek(argc), "instance")
  /\ \E u \in Upvalues :
       /\ Is(Location(u), "class")
       /\ \E k \in Constants \cap DOMAIN heap[Location(u)].table :
            Enter(heap[Location(u)].table[k], Peek(argc), argc)
  /\ UNCHANGED <<heap, strings, open, globals, methods, consts, compilers, c, collector>>

(* OP_INVOKE of a native method of an array: push, insert, pop, drop, and  *)
(* len or is_empty, whose result is no object.  The native must still be   *)
(* there: mark_roots does not mark the method tables.                      *)
ArrayMethod(argc) ==
  /\ Running /\ Temporary(argc + 1) /\ Is(Peek(argc), "array")
  /\ \E k \in DOMAIN methods : Is(methods[k], "native")
  /\ LET a == Peek(argc)
         vs == heap[a].elems
         Returns(v) == stack' = Append(Cut(stack, argc + 1), v)
         Becomes(ws) == heap' = [heap EXCEPT ![a].elems = ws]
     IN  \/ argc = 1 /\ Len(vs) < MaxElems
            /\ Becomes(Append(vs, Peek(0))) /\ Returns(NIL)
         \/ argc = 1 /\ Len(vs) < MaxElems
            /\ Becomes(<<Peek(0)>> \o vs) /\ Returns(NIL)
         \/ argc = 0 /\ vs # <<>> /\ Becomes(Cut(vs, 1)) /\ Returns(Top(vs))
         \/ argc = 0 /\ vs # <<>> /\ Becomes(Tail(vs)) /\ Returns(Head(vs))
         \/ argc = 0 /\ UNCHANGED heap /\ Returns(NIL)
  /\ UNCHANGED <<strings, frames, open, globals, methods, consts, compilers, c, collector>>

(* OP_CLOSURE: the closure is pushed, then each upvalue is captured, and   *)
(* capturing may allocate.                                                 *)
MakeClosure(n) ==
  /\ Running /\ Len(stack) < MaxStack
  /\ \E f \in Constants, o \in Free :
       /\ Is(f, "function")
       /\ heap' = Put(o, MkClosure(f, n))
       /\ stack' = Append(stack, o)
  /\ c' = IF n = 0 THEN NoCall ELSE [At("capture") EXCEPT !.n = 1]
  /\ UNCHANGED <<strings, frames, open, globals, methods, consts, compilers, collector>>

(* One turn of OP_CLOSURE's loop: the new closure's upvalue n is the       *)
(* enclosing closure's, or the open upvalue of a local, or a new one.      *)
Capture ==
  /\ phase = "mutate" /\ c.at = "capture"
  /\ \/ /\ \E u \in Upvalues \cup {w \in DOMAIN open : open[w] >= Base} :
             heap' = [heap EXCEPT ![Peek(0)].elems[c.n] = u]
        /\ UNCHANGED open
     \/ \E s \in Locals \ Captured, o \in Free :
          /\ heap' = [Put(o, MkUpvalue) EXCEPT ![Peek(0)].elems[c.n] = o]
          /\ open' = With(open, o, s)
  /\ c' = IF c.n = Len(heap[Peek(0)].elems) THEN NoCall ELSE [c EXCEPT !.n = @ + 1]
  /\ UNCHANGED <<strings, stack, frames, globals, methods, consts, compilers, collector>>

(* Mutant: > where the code has >=.                                        *)
close_upvalues_above(last) ==
  LET closing == {u \in DOMAIN open : open[u] > last}
  IN  /\ heap' = [o \in Live |-> IF o \in closing
                                 THEN [heap[o] EXCEPT !.head = stack[open[o]]]
                                 ELSE heap[o]]
      /\ open' = [u \in DOMAIN open \ closing |-> open[u]]

(* close_upvalues(last)                                                    *)
close_upvalues(last) ==
  LET closing == {u \in DOMAIN open : open[u] >= last}
  IN  /\ heap' = [o \in Live |-> IF o \in closing
                                 THEN [heap[o] EXCEPT !.head = stack[open[o]]]
                                 ELSE heap[o]]
      /\ open' = [u \in DOMAIN open \ closing |-> open[u]]

CloseUpvalue ==
  /\ Running /\ Len(stack) > Base
  /\ close_upvalues(Len(stack))
  /\ stack' = Cut(stack, 1)
  /\ UNCHANGED <<strings, frames, globals, methods, consts, compilers, c, collector>>

Return ==
  /\ Running /\ Temporary(1)
  /\ close_upvalues(Base)
  /\ frames' = Cut(frames, 1)
  /\ stack' = IF Len(frames) = 1 THEN Cut(stack, 2)
                                 ELSE Append(SubSeq(stack, 1, Base - 1), Peek(0))
  /\ UNCHANGED <<strings, globals, methods, consts, compilers, c, collector>>

Class ==
  /\ Running /\ Len(stack) < MaxStack
  /\ \E k \in Constants, o \in Free :
       /\ Is(k, "string")
       /\ heap' = Put(o, MkClass(k))
       /\ stack' = Append(stack, o)
  /\ UNCHANGED <<strings, frames, open, globals, methods, consts, compilers, c, collector>>

(* OP_INHERIT: hash_add_all into the subclass on top, which is popped.     *)
Inherit ==
  /\ Running /\ Temporary(1) /\ Len(stack) - Base >= 2
  /\ Is(Peek(0), "class") /\ Is(Peek(1), "class")
  /\ LET from == heap[Peek(1)].table
         to == heap[Peek(0)].table
     IN  heap' = [heap EXCEPT ![Peek(0)].table =
                    [k \in DOMAIN from \cup DOMAIN to |->
                       IF k \in DOMAIN from THEN from[k] ELSE to[k]]]
  /\ stack' = Cut(stack, 1)
  /\ UNCHANGED <<strings, frames, open, globals, methods, consts, compilers, c, collector>>

(* OP_METHOD: define_method, of the closure OP_CLOSURE has just made.      *)
Method ==
  /\ Running /\ Temporary(2) /\ Is(Peek(0), "closure") /\ Is(Peek(1), "class")
  /\ \E k \in Constants :
       /\ Is(k, "string")
       /\ heap' = [heap EXCEPT ![Peek(1)].table = With(@, k, Peek(0))]
  /\ stack' = Cut(stack, 1)
  /\ UNCHANGED <<strings, frames, open, globals, methods, consts, compilers, c, collector>>

(* OP_NEW_ARRAY pushes the array, then writes the elements below it.       *)
NewArray(n) ==
  /\ Running /\ Temporary(n) /\ Len(stack) < MaxStack
  /\ \E o \in Free :
       heap' = Put(o, MkArray(<<>>)) /\ stack' = Append(stack, o)
  /\ c' = [At("fill") EXCEPT !.n = n]
  /\ UNCHANGED <<strings, frames, open, globals, methods, consts, compilers, collector>>

FillArray ==
  /\ phase = "mutate" /\ c.at = "fill"
  /\ heap' = [heap EXCEPT ![Peek(0)].elems =
                SubSeq(stack, Len(stack) - c.n, Len(stack) - 1)]
  /\ stack' = Append(Cut(stack, c.n + 1), Peek(0))
  /\ c' = NoCall
  /\ UNCHANGED <<strings, frames, open, globals, methods, consts, compilers, collector>>

(* OP_SLICE: index and array are popped, the element is pushed.            *)
Slice ==
  /\ Running /\ Temporary(2) /\ Is(Peek(1), "array") /\ Peek(0) = NIL
  /\ \E v \in Elements(heap[Peek(1)].elems) : stack' = Append(Cut(stack, 2), v)
  /\ UNCHANGED <<heap, strings, frames, open, globals, methods, consts, compilers, c, collector>>

(* string_split: the array, the pieces and the writes to the array.  The   *)
(* array is in a C variable only.                                          *)
string_split ==
  /\ Running /\ Temporary(2) /\ Is(Peek(0), "string") /\ Is(Peek(1), "string")
  /\ \E o \in Free :
       heap' = Put(o, MkArray(<<>>)) /\ c' = [At("split") EXCEPT !.o = o]
  /\ UNCHANGED <<strings, stack, frames, open, globals, methods, consts, compilers, collector>>

SplitPiece(txt) ==
  /\ phase = "mutate" /\ c.at = "split" /\ c.o \in Live
  /\ CopyString(txt, "split")

SplitWrite ==
  /\ phase = "mutate" /\ c.at = "write" /\ Is(c.o, "array") /\ Len(heap[c.o].elems) < MaxElems
  /\ heap' = [heap EXCEPT ![c.o].elems = Append(@, c.s)]
  /\ c' = [c EXCEPT !.at = "split", !.s = NIL]
  /\ UNCHANGED <<strings, stack, frames, open, globals, methods, consts, compilers, collector>>

SplitReturn ==
  /\ phase = "mutate" /\ c.at = "split"
  /\ stack' = Append(Cut(stack, 2), c.o)
  /\ c' = NoCall
  /\ UNCHANGED <<heap, strings, frames, open, globals, methods, consts, compilers, collector>>

(* runtime_error: run_file exits with 70.                                  *)
RuntimeError ==
  /\ Running
  /\ stack' = <<>> /\ frames' = <<>> /\ open' = NoTable
  /\ c' = At("exit")
  /\ UNCHANGED <<heap, strings, globals, methods, consts, compilers, collector>>
-----------------------------------------------------------------------------
Compile ==
  \/ init_compiler \/ AddConstant \/ DefineConst \/ end_compiler \/ interpret
  \/ \E txt \in Text : NameFunction(txt) \/ StringConstant(txt)

Run ==
  \/ PushConstant \/ GetLocal \/ GetGlobal \/ GetUpvalue
  \/ Pop \/ Binary \/ SetLocal \/ SetUpvalue \/ DefineGlobal \/ SetGlobal
  \/ (\E pops \in {0, 1} : GetField(pops)) \/ bind_method \/ SetProperty
  \/ GetSuper \/ BindSuper
  \/ \E txt \in Text : Concatenate(txt)
  \/ \E argc \in 0 .. MaxArgs :
       Call(argc) \/ Invoke(argc) \/ SuperInvoke(argc) \/ ArrayMethod(argc)
  \/ (\E n \in 0 .. MaxUpvalues : MakeClosure(n)) \/ Capture \/ CloseUpvalue
  \/ Return \/ Class \/ Inherit \/ Method
  \/ (\E n \in 0 .. MaxElems : NewArray(n)) \/ FillArray \/ Slice
  \/ RuntimeError

Next == Collect \/ Intern \/ Compile \/ Run

(* The VM with string_split, which Next leaves out: it breaks NoDangling.  *)
Split ==
  string_split \/ SplitWrite \/ SplitReturn \/ \E txt \in Text : SplitPiece(txt)

Spec == Init /\ [][Next]_vars
-----------------------------------------------------------------------------
TypeOK ==
  /\ Live \subseteq Obj /\ heap = [o \in Live |-> heap[o]]
  /\ \A o \in Live : IsObject(heap[o])
  /\ stack \in Seq(Val)
  /\ frames \in Seq([closure : Obj, slots : Nat \ {0}])
  /\ DOMAIN open \subseteq Obj /\ open \in [DOMAIN open -> Nat \ {0}]
  /\ IsTable(globals) /\ IsTable(methods)
  /\ strings \subseteq Obj /\ consts \subseteq Obj
  /\ compilers \in Seq(Obj)
  /\ c \in [at : {"none", "name", "intern", "constant", "script", "super",
                  "capture", "fill", "split", "write", "exit"},
             next : {"none", "name", "constant", "concat", "split"},
             o : Val, s : Val, n : Nat]
  /\ phase \in {"mutate", "trace", "sweep"}
  /\ marked \subseteq Obj /\ gray \subseteq Obj

(* No reference the program can follow leads to freed memory: neither from *)
(* a root, nor from an object, nor from a C variable of the handler.       *)
NoDangling ==
  /\ Roots \subseteq Live
  /\ \A o \in Live : Pointers(heap[o]) \subseteq Live
  /\ {c.o, c.s} \cap Obj \subseteq Live

(* While tracing, the roots are marked and a black object (marked, and no  *)
(* longer on the gray stack) points at no white one.                       *)
TriColour ==
  phase = "trace" =>
    /\ Roots \subseteq marked /\ gray \subseteq marked
    /\ \A o \in marked \ gray : Pointers(heap[o]) \subseteq marked

(* Interning survives collection: every string the program can use is in   *)
(* the table (but one that allocate_string is about to put there), the     *)
(* table holds no freed string, and no two strings have the same contents, *)
(* so that comparing pointers compares strings (find_entry).               *)
Interned ==
  /\ strings \subseteq Live
  /\ phase # "sweep" => \A o \in Live :
       heap[o].type = "string"
         => (o \in strings \/ (c.at = "intern" /\ o = Top(stack)))
  /\ \A s, t \in Live : /\ heap[s].type = "string" /\ heap[t].type = "string"
                         /\ heap[s].head = heap[t].head
                         => s = t \/ phase = "sweep"

(* The types, and beyond them: the unchecked casts AS_CLOSURE, AS_FUNCTION,*)
(* AS_CLASS and AS_STRING of the handlers meet an object of the type they  *)
(* assume, and an open upvalue points into the stack, one at a slot.       *)
CastsOK ==
  /\ TypeOK
  /\ \A i \in DOMAIN frames : Is(frames[i].closure, "closure")
  /\ \A u \in DOMAIN open : Is(u, "upvalue") /\ open[u] \in DOMAIN stack
  /\ \A u, w \in DOMAIN open : open[u] = open[w] => u = w
  /\ \A i \in DOMAIN compilers : Is(compilers[i], "function")
  /\ \A o \in Live :
       LET r == heap[o] IN
       /\ Shaped(r)
       /\ \A k \in DOMAIN r.table : Is(k, "string")
       /\ r.type = "closure" =>
            /\ Is(r.head, "function")
            /\ \A u \in Elements(r.elems) : u = NIL \/ Is(u, "upvalue")
       /\ r.type \in {"class", "function"} => r.head = NIL \/ Is(r.head, "string")
       /\ r.type = "class" => \A k \in DOMAIN r.table : Is(r.table[k], "closure")
       /\ r.type = "instance" => Is(r.head, "class")
       /\ r.type = "bound" => Is(r.head, "closure")
  /\ c.at = "super" => Is(c.o, "closure")

(* The tables of native methods hold no freed object: a method found once  *)
(* is found by every later call (test/core/types/array.vp).                *)
MethodTablesLive ==
  \A k \in DOMAIN methods : k \in Live /\ methods[k] \in Live

(* The array that split returns is there (test/core/types/string.vp).      *)
SplitArrayLive == c.at \in {"split", "write"} => c.o \in Live

(* A collection frees all garbage: what survives it is contained in every  *)
(* set that holds the roots and is closed under pointers.                  *)
GarbageFreed ==
  [][phase = "sweep" =>
       \A S \in SUBSET Live :
         /\ Roots \subseteq S
         /\ \A o \in S : Pointers(heap[o]) \subseteq S
         => DOMAIN heap' \subseteq S]_vars
=============================================================================
