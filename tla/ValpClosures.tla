---------------------------- MODULE ValpClosures ----------------------------
(***************************************************************************)
(* Local variables at run time: the value stack, the call frames, and the  *)
(* upvalues of valp_vm.c, under the code the compiler emits for blocks,    *)
(* functions, calls and returns.                                           *)
(*                                                                         *)
(* A local is the stack slot at a fixed distance from the base of its      *)
(* frame, as resolve_local numbers it; a closure names the locals of the   *)
(* functions around it by its upvalues.  The instruction that runs next is *)
(* any that a compiler could have put there: a body may branch at will, so *)
(* two calls of a closure need not do the same.                            *)
(*                                                                         *)
(* "locals" and "named" are not in the program.  They say which variable   *)
(* each slot and each upvalue stands for in the source: the declaration    *)
(* that just ran, and the variable a closure's code means.                 *)
(***************************************************************************)
EXTENDS Integers, Sequences, FiniteSets

CONSTANTS
  Data,        \* values other than closures
  Closure,     \* addresses of closures
  Upvalue,     \* addresses of upvalues
  Var,         \* the identities of variables
  NIL,         \* NIL_VAL
  MaxStack, MaxFrames, MaxArgs, MaxUpvalues  \* bounds of the model

Value == Data \cup Closure \cup {NIL}

ASSUME ClosureAssumption ==
  /\ Data \cap Closure = {} /\ NIL \notin Data \cup Closure
  /\ Var # {}
  /\ {MaxStack, MaxFrames, MaxArgs, MaxUpvalues} \subseteq Nat

VARIABLES
  stack,     \* vm.stack below vm.stack_top
  frames,    \* vm.frames: the closure, and the index of slot 0
  open,      \* vm.open_upvalues, from the head of the list
  upvalue,   \* the upvalues: where they point, and their closed value
  upvalues,  \* the closures: their upvalues
  capturing, \* OP_CLOSURE in its loop: the upvalues it still has to capture
  locals,    \* per frame, the variables in its slots, from slot 0 on
  named,     \* per closure, the variables its upvalues stand for
  access     \* the variable the last step read or assigned, and the value

machine == <<stack, frames, open, upvalue, upvalues, capturing>>
vars == <<machine, locals, named, access>>

NoAccess == <<>>
CLOSED == 0   \* the location of an upvalue that points at its own "closed"
-----------------------------------------------------------------------------
Top(s) == s[Len(s)]
Cut(s, n) == SubSeq(s, 1, Len(s) - n)
Peek(n) == stack[Len(stack) - n]
Elements(s) == {s[i] : i \in DOMAIN s}

Base == Top(frames).slots
Running == frames # <<>> /\ capturing = 0
Slot(i) == Base + i - 1

(* Values above the locals: operands, callees and arguments.               *)
Temporaries == Len(stack) - Base + 1 - Len(Top(locals))

OnStack == UNION {Elements(locals[f]) : f \in DOMAIN locals}
UsedVars == OnStack \cup UNION {Elements(named[cl]) : cl \in DOMAIN named}

(* n variables that were not there before; which ones does not matter.     *)
NewVars(n) ==
  LET new == {s \in [1 .. n -> Var \ UsedVars] : \A i, j \in 1 .. n : s[i] = s[j] => i = j}
  IN  {s \in new : s = CHOOSE t \in new : TRUE}

(* interpret has pushed the closure of a script and called it.             *)
Init ==
  \E cl \in Closure :
    /\ stack = <<cl>> /\ frames = <<[closure |-> cl, slots |-> 1]>>
    /\ open = <<>> /\ upvalue = [u \in {} |-> NIL]
    /\ upvalues = [x \in {cl} |-> <<>>] /\ named = [x \in {cl} |-> <<>>]
    /\ capturing = 0
    /\ locals = <<<<CHOOSE v \in Var : TRUE>>>>
    /\ access = NoAccess
-----------------------------------------------------------------------------
Push(v) ==
  /\ Len(stack) < MaxStack
  /\ stack' = Append(stack, v)

(* OP_CONSTANT and the like.                                               *)
Constant ==
  /\ Running /\ \E v \in Data : Push(v)
  /\ access' = NoAccess
  /\ UNCHANGED <<frames, open, upvalue, upvalues, capturing, locals, named>>

GetLocal(i) ==
  /\ Running /\ i \in DOMAIN Top(locals)
  /\ Push(stack[Slot(i)])
  /\ access' = [of |-> Top(locals)[i], val |-> stack[Slot(i)]]
  /\ UNCHANGED <<frames, open, upvalue, upvalues, capturing, locals, named>>

(* self, in slot 0, is not assigned to.                                    *)
SetLocal(i) ==
  /\ Running /\ i \in DOMAIN Top(locals) \ {1} /\ Temporaries >= 1
  /\ stack' = [stack EXCEPT ![Slot(i)] = Peek(0)]
  /\ access' = [of |-> Top(locals)[i], val |-> Peek(0)]
  /\ UNCHANGED <<frames, open, upvalue, upvalues, capturing, locals, named>>

Found(u) == IF upvalue[u].location = CLOSED THEN upvalue[u].closed
                                            ELSE stack[upvalue[u].location]

GetUpvalue(k) ==
  /\ Running /\ k \in DOMAIN upvalues[Top(frames).closure]
  /\ LET u == upvalues[Top(frames).closure][k]
     IN  /\ Push(Found(u))
         /\ access' = [of |-> named[Top(frames).closure][k], val |-> Found(u)]
  /\ UNCHANGED <<frames, open, upvalue, upvalues, capturing, locals, named>>

SetUpvalue(k) ==
  /\ Running /\ k \in DOMAIN upvalues[Top(frames).closure] /\ Temporaries >= 1
  /\ LET u == upvalues[Top(frames).closure][k]
     IN  IF upvalue[u].location = CLOSED
         THEN upvalue' = [upvalue EXCEPT ![u].closed = Peek(0)] /\ UNCHANGED stack
         ELSE stack' = [stack EXCEPT ![upvalue[u].location] = Peek(0)] /\ UNCHANGED upvalue
  /\ access' = [of |-> named[Top(frames).closure][k], val |-> Peek(0)]
  /\ UNCHANGED <<frames, open, upvalues, capturing, locals, named>>

(* OP_POP, and any instruction that takes its operand elsewhere.           *)
Pop ==
  /\ Running /\ Temporaries >= 1
  /\ stack' = Cut(stack, 1)
  /\ access' = NoAccess
  /\ UNCHANGED <<frames, open, upvalue, upvalues, capturing, locals, named>>

(* define_variable at scope depth > 0 emits nothing: the value on top is   *)
(* the variable from now on.                                               *)
define_variable ==
  /\ Running /\ Temporaries = 1
  /\ \E new \in NewVars(1) : locals' = [locals EXCEPT ![Len(locals)] = @ \o new]
  /\ access' = NoAccess
  /\ UNCHANGED <<machine, named>>
-----------------------------------------------------------------------------
(* Upvalues.                                                               *)

(* The first upvalue of the list at or below a slot, where the loop of     *)
(* capture_upvalue stops; one past the end if there is none.               *)
Position(slot) ==
  CHOOSE p \in 1 .. Len(open) + 1 :
    /\ p \in DOMAIN open => upvalue[open[p]].location <= slot
    /\ \A q \in 1 .. p - 1 : upvalue[open[q]].location > slot

(* Mutant: an upvalue is always new, as if the list were not searched.     *)
capture_upvalue_new(slot, u) ==
  /\ u \notin DOMAIN upvalue
  /\ upvalue' = [x \in DOMAIN upvalue \cup {u} |->
                   IF x = u THEN [location |-> slot, closed |-> NIL] ELSE upvalue[x]]
  /\ open' = SubSeq(open, 1, Position(slot) - 1) \o <<u>>
               \o SubSeq(open, Position(slot), Len(open))

(* capture_upvalue(slot) returns u: the one that is there, or a new one    *)
(* linked in before the first upvalue of a lower slot.                     *)
capture_upvalue(slot, u) ==
  LET p == Position(slot)
  IN  \/ /\ p \in DOMAIN open /\ upvalue[open[p]].location = slot
         /\ u = open[p]
         /\ UNCHANGED <<open, upvalue>>
      \/ /\ ~(p \in DOMAIN open /\ upvalue[open[p]].location = slot)
         /\ u \notin DOMAIN upvalue
         /\ upvalue' = [x \in DOMAIN upvalue \cup {u} |->
                          IF x = u THEN [location |-> slot, closed |-> NIL] ELSE upvalue[x]]
         /\ open' = SubSeq(open, 1, p - 1) \o <<u>> \o SubSeq(open, p, Len(open))

(* OP_CLOSURE pushes the closure, then captures its n upvalues.  A local   *)
(* function is in scope in its own body: fun_declaration initialises the   *)
(* variable first.                                                         *)
MakeClosure(n) ==
  /\ Running
  /\ n <= Cardinality(Elements(Top(locals)) \cup Elements(named[Top(frames).closure]))
  /\ n + Cardinality(DOMAIN upvalue) <= Cardinality(Upvalue)
  /\ \E cl \in Closure \ DOMAIN upvalues :
       /\ Push(cl)
       /\ upvalues' = [x \in DOMAIN upvalues \cup {cl} |->
                         IF x = cl THEN <<>> ELSE upvalues[x]]
       /\ named' = [x \in DOMAIN named \cup {cl} |-> IF x = cl THEN <<>> ELSE named[x]]
  /\ \/ UNCHANGED locals
     \/ /\ Temporaries = 0
        /\ \E new \in NewVars(1) : locals' = [locals EXCEPT ![Len(locals)] = @ \o new]
  /\ capturing' = n
  /\ access' = NoAccess
  /\ UNCHANGED <<frames, open, upvalue>>

(* The new closure gets u, which stands for v.  add_upvalue has an entry   *)
(* per variable.                                                           *)
Captured(u, v) ==
  LET cl == Peek(0)
  IN  /\ v \notin Elements(named[cl])
      /\ upvalues' = [upvalues EXCEPT ![cl] = Append(@, u)]
      /\ named' = [named EXCEPT ![cl] = Append(@, v)]

(* One turn of OP_CLOSURE's loop.                                          *)
Capture ==
  /\ capturing > 0
  /\ capturing' = capturing - 1
  /\ \/ \E i \in DOMAIN Top(locals), u \in Upvalue :
          /\ capture_upvalue(Slot(i), u)
          /\ Captured(u, Top(locals)[i])
     \/ LET cl == Top(frames).closure
        IN  \E k \in DOMAIN upvalues[cl] :
              /\ Captured(upvalues[cl][k], named[cl][k])
              /\ UNCHANGED <<open, upvalue>>
  /\ access' = NoAccess
  /\ UNCHANGED <<stack, frames, locals>>

(* Mutant: > where the code has >=.                                        *)
close_upvalues_above(last) ==
  LET n == CHOOSE i \in 0 .. Len(open) :
             /\ \A q \in 1 .. i : upvalue[open[q]].location > last
             /\ i < Len(open) => upvalue[open[i + 1]].location <= last
      closing == {open[q] : q \in 1 .. n}
  IN  /\ upvalue' = [u \in DOMAIN upvalue |->
                       IF u \in closing
                       THEN [location |-> CLOSED, closed |-> stack[upvalue[u].location]]
                       ELSE upvalue[u]]
      /\ open' = SubSeq(open, n + 1, Len(open))

(* close_upvalues(last): from the head on, while they point at or above.   *)
close_upvalues(last) ==
  LET n == CHOOSE i \in 0 .. Len(open) :
             /\ \A q \in 1 .. i : upvalue[open[q]].location >= last
             /\ i < Len(open) => upvalue[open[i + 1]].location < last
      closing == {open[q] : q \in 1 .. n}
  IN  /\ upvalue' = [u \in DOMAIN upvalue |->
                       IF u \in closing
                       THEN [location |-> CLOSED, closed |-> stack[upvalue[u].location]]
                       ELSE upvalue[u]]
      /\ open' = SubSeq(open, n + 1, Len(open))

(* end_scope and discard_locals: the topmost local is popped; closed first *)
(* if a closure anywhere in its scope captures it, so OP_POP finds no open *)
(* upvalue there (CapturedLocalsAreClosed of ValpScopes).                  *)
end_scope ==
  /\ Running /\ Temporaries = 0 /\ Len(Top(locals)) > 1
  /\ \/ close_upvalues(Len(stack))
     \/ /\ \A u \in Elements(open) : upvalue[u].location # Len(stack)
        /\ UNCHANGED <<open, upvalue>>
  /\ stack' = Cut(stack, 1)
  /\ locals' = [locals EXCEPT ![Len(locals)] = Cut(@, 1)]
  /\ access' = NoAccess
  /\ UNCHANGED <<frames, upvalues, capturing, named>>
-----------------------------------------------------------------------------
(* call: the callee and its arguments are the first slots of the frame.    *)
Call(argc) ==
  /\ Running /\ Temporaries >= argc + 1
  /\ Len(frames) < MaxFrames /\ Len(stack) < MaxStack
  /\ Peek(argc) \in DOMAIN upvalues
  /\ frames' = Append(frames, [closure |-> Peek(argc), slots |-> Len(stack) - argc])
  /\ \E new \in NewVars(argc + 1) : locals' = Append(locals, new)
  /\ access' = NoAccess
  /\ UNCHANGED <<stack, open, upvalue, upvalues, capturing, named>>

(* Mutant: the upvalues are closed once the frame has been popped.         *)
Return_late ==
  /\ Running /\ Temporaries >= 1
  /\ IF Len(frames) = 1
     THEN /\ Len(stack) = 2 /\ stack' = Cut(stack, 2) /\ UNCHANGED <<open, upvalue>>
     ELSE /\ stack' = Append(SubSeq(stack, 1, Base - 1), Peek(0))
          /\ close_upvalues(frames[Len(frames) - 1].slots)
  /\ frames' = Cut(frames, 1)
  /\ locals' = Cut(locals, 1)
  /\ access' = NoAccess
  /\ UNCHANGED <<upvalues, capturing, named>>

(* OP_RETURN.  Top-level code cannot return but at its end, where slot 0   *)
(* is all there is below the result.                                       *)
Return ==
  /\ Running /\ Temporaries >= 1
  /\ close_upvalues(Base)
  /\ IF Len(frames) = 1
     THEN Len(stack) = 2 /\ stack' = Cut(stack, 2)
     ELSE stack' = Append(SubSeq(stack, 1, Base - 1), Peek(0))
  /\ frames' = Cut(frames, 1)
  /\ locals' = Cut(locals, 1)
  /\ access' = NoAccess
  /\ UNCHANGED <<upvalues, capturing, named>>

(* The collector takes closures that nothing else refers to, and upvalues  *)
(* in no closure and not in the list of open ones.                         *)
Collect ==
  /\ \E S \in SUBSET DOMAIN upvalues :
       LET kept == DOMAIN upvalues \ S
           used == Elements(open) \cup UNION {Elements(upvalues[cl]) : cl \in kept}
       IN  /\ S # {}
           /\ S \cap Elements(stack) = {}
           /\ \A f \in DOMAIN frames : frames[f].closure \notin S
           /\ \A u \in used : upvalue[u].closed \notin S
           /\ upvalues' = [cl \in kept |-> upvalues[cl]]
           /\ named' = [cl \in kept |-> named[cl]]
           /\ upvalue' = [u \in used |-> upvalue[u]]
  /\ access' = NoAccess
  /\ UNCHANGED <<stack, frames, open, capturing, locals>>
-----------------------------------------------------------------------------
Next ==
  \/ Constant \/ Pop
  \/ \E i \in 1 .. MaxStack : GetLocal(i) \/ SetLocal(i)
  \/ \E k \in 1 .. MaxUpvalues : GetUpvalue(k) \/ SetUpvalue(k)
  \/ define_variable \/ end_scope
  \/ (\E n \in 0 .. MaxUpvalues : MakeClosure(n)) \/ Capture
  \/ (\E argc \in 0 .. MaxArgs : Call(argc)) \/ Return
  \/ Collect

Spec == Init /\ [][Next]_vars
-----------------------------------------------------------------------------
(* The locals of a frame lie below the slot 0 of every later frame, and    *)
(* below the top of the stack.                                             *)
FramesApart ==
  \A f \in DOMAIN frames :
    /\ frames[f].slots + Len(locals[f]) <= Len(stack) + 1
    /\ \A e \in 1 .. f - 1 : frames[e].slots + Len(locals[e]) <= frames[f].slots

(* The types, and the layout of the stack.                                 *)
TypeOK ==
  /\ stack \in Seq(Value)
  /\ frames \in Seq([closure : Closure, slots : Nat \ {0}])
  /\ open \in Seq(Upvalue)
  /\ DOMAIN upvalue \subseteq Upvalue
  /\ upvalue \in [DOMAIN upvalue -> [location : Nat, closed : Value]]
  /\ DOMAIN upvalues \subseteq Closure /\ upvalues \in [DOMAIN upvalues -> Seq(Upvalue)]
  /\ capturing \in Nat
  /\ locals \in Seq(Seq(Var)) /\ Len(locals) = Len(frames)
  /\ named \in [DOMAIN upvalues -> Seq(Var)]
  /\ FramesApart

(* The slot a variable on the stack is in.                                 *)
SlotOf(v) ==
  CHOOSE s \in DOMAIN stack :
    \E f \in DOMAIN locals : \E i \in DOMAIN locals[f] :
      locals[f][i] = v /\ s = frames[f].slots + i - 1

(* The loops of capture_upvalue and close_upvalues stop at the first       *)
(* upvalue of a lower slot: the list must be sorted, a slot must have one  *)
(* upvalue at most, and none may outlive its slot.                         *)
OpenList ==
  /\ \A i \in DOMAIN open :
       open[i] \in DOMAIN upvalue /\ upvalue[open[i]].location \in DOMAIN stack
  /\ \A i, j \in DOMAIN open :
       i < j => upvalue[open[i]].location > upvalue[open[j]].location

(* An upvalue of a closure stands for the variable its code means: it      *)
(* points at the variable's slot as long as the variable is on the stack,  *)
(* and at its own copy from then on.                                       *)
UpvaluesMeanVariables ==
  \A cl \in DOMAIN upvalues : \A k \in DOMAIN upvalues[cl] :
    LET u == upvalues[cl][k]
        v == named[cl][k]
    IN  IF v \in OnStack THEN upvalue[u].location = SlotOf(v)
                         ELSE upvalue[u].location = CLOSED

(* All closures over a variable share one upvalue, whether they captured   *)
(* it as a local or through the closure around them, and no upvalue stands *)
(* for two variables (two calls of one function have locals of their own). *)
OneUpvaluePerVariable ==
  \A cl, cm \in DOMAIN upvalues :
    \A k \in DOMAIN upvalues[cl], l \in DOMAIN upvalues[cm] :
      named[cl][k] = named[cm][l] <=> upvalues[cl][k] = upvalues[cm][l]

(* Every variable is a cell: all reads, assignments and captures meet the  *)
(* same one, on the stack or off it.                                       *)
UpvalueOf(v) ==
  CHOOSE u \in DOMAIN upvalue :
    \E cl \in DOMAIN upvalues : \E k \in DOMAIN upvalues[cl] :
      named[cl][k] = v /\ upvalues[cl][k] = u
Store == [v \in UsedVars |-> IF v \in OnStack THEN stack[SlotOf(v)]
                                              ELSE upvalue[UpvalueOf(v)].closed]
V == INSTANCE Variables WITH store <- Store
ImplementsVariables == V!Spec
=============================================================================
