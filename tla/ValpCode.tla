------------------------------ MODULE ValpCode ------------------------------
(***************************************************************************)
(* The bytecode that valp_compiler.c emits for statements, with its jumps  *)
(* patched, and valp_vm.c running it, compared with what the program means *)
(* (ValpMeaning).  The compiler is one pass over the source: its parse     *)
(* functions are operators on the state of the compiler, of the same names.*)
(* Code is a sequence of bytes, as in the program, since end_loop looks for*)
(* breaks in it, and finds what it takes for one.                          *)
(*                                                                         *)
(* Names are resolved and values are computed elsewhere (ValpScopes,       *)
(* ValpClosures): a name here is the innermost local or a global, and what *)
(* a global holds or a call returns is any answer.                         *)
(***************************************************************************)
EXTENDS ValpMeaning, FiniteSets, TLC

CONSTANTS
  Programs,      \* bodies of functions
  FirstConstant, \* how many constants the function has before the body
  MaxAnswers     \* answers given in a run

ASSUME CodeAssumption == FirstConstant \in 0 .. 255 /\ MaxAnswers \in Nat

VARIABLES
  body,     \* the program, labelled
  code,     \* its bytecode
  ip, stack,
  answers, trace,  \* what was read from outside, and what was done
  heights   \* of the stack when an instruction was last run: ip -> height

vars == <<body, code, ip, stack, answers, trace, heights>>
-----------------------------------------------------------------------------
(* valp_op_code: the instructions as numbers.                              *)
OP ==
  [CONSTANT |-> 0, NIL |-> 1, TRUE |-> 2, FALSE |-> 3, POP |-> 4,
   GET_LOCAL |-> 5, SET_LOCAL |-> 6, GET_GLOBAL |-> 7, DEFINE_GLOBAL |-> 8,
   SET_GLOBAL |-> 9, GET_UPVALUE |-> 10, SET_UPVALUE |-> 11,
   GET_PROPERTY |-> 12, GET_PROPERTY_NO_POP |-> 13, SET_PROPERTY |-> 14,
   GET_SUPER |-> 15, EQUAL |-> 16, GREATER |-> 17, LESS |-> 18, ADD |-> 19,
   SUBTRACT |-> 20, MULTIPLY |-> 21, DIVIDE |-> 22, NOT |-> 23, NEGATE |-> 24,
   PRINT |-> 25, JUMP |-> 26, JUMP_IF_FALSE |-> 27, JUMP_COMPARE |-> 28,
   LOOP |-> 29, CALL |-> 30, INVOKE |-> 31, SUPER_INVOKE |-> 32,
   CLOSURE |-> 33, CLOSE_UPVALUE |-> 34, RETURN |-> 35, CLASS |-> 36,
   INHERIT |-> 37, METHOD |-> 38, DUP |-> 39, NEW_ARRAY |-> 40, SLICE |-> 41,
   BREAK |-> 42]

(* The state of the compiler.  A local is its depth, a loop its four       *)
(* positions, the chain of enclosing loops a sequence.  Slot 0 is the      *)
(* function's; a body is in the scope that function() begins.              *)
init_compiler ==
  [code |-> <<>>, constants |-> FirstConstant, locals |-> <<0>>, scope_depth |-> 1, loops |-> <<>>]

Here(c) == Len(c.code)
Byte(bytes, i) == bytes[i + 1]   \* positions start at 0
emit(c, bytes) == [c EXCEPT !.code = @ \o bytes]

(* make_constant, of the next constant, as an operand.                     *)
emit_constant(c, op) == [emit(c, <<OP[op], c.constants>>) EXCEPT !.constants = @ + 1]

(* A jump whose offset is still to come is known by the place of its offset*)
emit_jump(c, op) == emit(c, <<OP[op], 255, 255>>)
Offset(c) == Here(c) - 2

(* Mutant: the two bytes of the offset are counted as jumped over.         *)
patch_jump_two(c, offset) ==
  LET jump == Here(c) - offset
  IN  [c EXCEPT !.code[offset + 1] = jump \div 256, !.code[offset + 2] = jump % 256]

patch_jump(c, offset) ==
  LET jump == Here(c) - offset - 2
  IN  [c EXCEPT !.code[offset + 1] = (jump \div 256) % 256, !.code[offset + 2] = jump % 256]

(* The offset is from behind OP_LOOP and its operands.                     *)
emit_loop(c, start) ==
  LET offset == Here(c) + 1 - start + 2
  IN  emit(c, <<OP.LOOP, (offset \div 256) % 256, offset % 256>>)

Deeper(c, depth) == Cardinality({i \in DOMAIN c.locals : c.locals[i] > depth})
Pops(n) == [i \in 1 .. n |-> OP.POP]

begin_scope(c) == [c EXCEPT !.scope_depth = @ + 1]

end_scope(c) ==
  LET n == Deeper(c, c.scope_depth - 1)
  IN  [emit(c, Pops(n)) EXCEPT !.scope_depth = @ - 1, !.locals = SubSeq(@, 1, Len(@) - n)]
-----------------------------------------------------------------------------
(* Expressions.                                                            *)

RECURSIVE expression(_, _), elements(_, _)
(* The elements of an array, by halves; of the state of the compiler       *)
(* expressions change the code and the constants.                          *)
elements(c, es) ==
  IF es = <<>> THEN c
  ELSE IF Len(es) = 1 THEN expression(c, es[1])
  ELSE LET half   == Len(es) \div 2
           first  == elements(c, SubSeq(es, 1, half))
           second == elements(first, SubSeq(es, half + 1, Len(es)))
       IN  [first EXCEPT !.code = second.code, !.constants = second.constants]

expression(c, e) ==
  CASE e.op = "constant" -> emit_constant(c, "CONSTANT")
    [] e.op = "nil"    -> emit(c, <<OP.NIL>>)
    [] e.op = "true"   -> emit(c, <<OP.TRUE>>)
    [] e.op = "false"  -> emit(c, <<OP.FALSE>>)
    [] e.op = "local"  -> emit(c, <<OP.GET_LOCAL, Len(c.locals) - 1>>)
    [] e.op = "global" -> emit_constant(c, "GET_GLOBAL")
    [] e.op = "call"   -> emit(emit_constant(c, "GET_GLOBAL"), <<OP.CALL, 0>>)
    [] e.op = "assign" -> LET name == [c EXCEPT !.constants = @ + 1]
                          IN  emit(expression(name, e.kids[1]), <<OP.SET_GLOBAL, c.constants>>)
    [] e.op = "not"    -> emit(expression(c, e.kids[1]), <<OP.NOT>>)
    [] e.op = "equal"  -> emit(expression(expression(c, e.kids[1]), e.kids[2]), <<OP.EQUAL>>)
    [] e.op = "array"  -> emit(elements(c, e.kids), <<OP.NEW_ARRAY, Len(e.kids) % 256>>)
    [] e.op = "and"    -> LET a == emit_jump(expression(c, e.kids[1]), "JUMP_IF_FALSE")
                              b == expression(emit(a, <<OP.POP>>), e.kids[2])
                          IN  patch_jump(b, Offset(a))
    [] e.op = "or"     -> LET a == emit_jump(expression(c, e.kids[1]), "JUMP_IF_FALSE")
                              t == emit_jump(a, "JUMP")
                              b == expression(emit(patch_jump(t, Offset(a)), <<OP.POP>>), e.kids[2])
                          IN  patch_jump(b, Offset(t))
-----------------------------------------------------------------------------
(* Loops.                                                                  *)

start_loop(c) ==
  [c EXCEPT !.loops = Append(@, [start |-> Here(c), exit |-> -1, body |-> -1,
                                 scope_depth |-> c.scope_depth])]

Loop(c) == Last(c.loops)
Put(c, loop) == [c EXCEPT !.loops[Len(c.loops)] = loop]

(* The condition: out of the loop if it is false, else it is popped.       *)
Condition(c, e) ==
  LET test == emit_jump(expression(c, e), "JUMP_IF_FALSE")
  IN  emit(Put(test, [Loop(test) EXCEPT !.exit = Offset(test)]), <<OP.POP>>)

(* Mutant: globals are left out.                                           *)
get_arg_count_local(bytes, i) ==
  LET op == Byte(bytes, i)
  IN  IF op \in OP.JUMP .. OP.LOOP THEN 2
      ELSE IF op \in {OP.CONSTANT, OP.GET_LOCAL} THEN 1 ELSE 0

(* How many bytes end_loop takes for the operands of an instruction (of    *)
(* closures, those without upvalues).                                      *)
get_arg_count(bytes, i) ==
  LET op == Byte(bytes, i)
  IN  CASE op \in {OP.CONSTANT, OP.METHOD, OP.NEW_ARRAY, OP.CLOSURE}
                    \cup OP.GET_LOCAL .. OP.GET_SUPER -> 1
        [] op \in {OP.CALL, OP.CLASS} \cup OP.JUMP .. OP.LOOP -> 2
        [] op \in {OP.INVOKE, OP.SUPER_INVOKE} -> 3
        [] OTHER -> 0

RECURSIVE PatchBreaks(_, _)
(* end_loop's search for OP_BREAK, from position i to the end of the code. *)
PatchBreaks(c, i) ==
  IF i >= Here(c) THEN c
  ELSE IF Byte(c.code, i) = OP.BREAK
  THEN PatchBreaks(patch_jump([c EXCEPT !.code[i + 1] = OP.JUMP], i + 1), i + 3)
  ELSE PatchBreaks(c, i + 1 + get_arg_count(c.code, i))

end_loop(c) ==
  LET exit == IF Loop(c).exit = -1 THEN c ELSE emit(patch_jump(c, Loop(c).exit), <<OP.POP>>)
  IN  [PatchBreaks(exit, Loop(c).body) EXCEPT !.loops = Front(@)]

(* Mutant: locals of the loop's own scope go too.                          *)
discard_locals_all(c) == emit(c, Pops(Deeper(c, Loop(c).scope_depth - 1)))

discard_locals(c) == emit(c, Pops(Deeper(c, Loop(c).scope_depth)))

next_statement(c) == emit_loop(discard_locals(c), Loop(c).start)
break_statement(c) == emit(discard_locals(c), <<OP.BREAK>>)
-----------------------------------------------------------------------------
(* Statements.                                                             *)

RECURSIVE statement(_, _)

if_statement(c, e, then, else) ==
  LET test == emit_jump(expression(c, e), "JUMP_IF_FALSE")
      yes  == emit_jump(statement(emit(test, <<OP.POP>>), then), "JUMP")
      no   == statement(emit(patch_jump(yes, Offset(test)), <<OP.POP>>), else)
  IN  patch_jump(no, Offset(yes))

(* The condition is an expression statement, which leaves its value when   *)
(* a question mark follows; only the second branch pops it.                *)
ternarty_statement(c, e, then, else) ==
  LET test == emit_jump(expression(c, e), "JUMP_IF_FALSE")
      yes  == emit_jump(statement(test, then), "JUMP")
      no   == statement(emit(patch_jump(yes, Offset(test)), <<OP.POP>>), else)
  IN  patch_jump(no, Offset(yes))

(* A case whose value is the same pops both, else the expression stays for *)
(* the next one; the last kid is the default.                              *)
switch_statement(c, e, cases, default) ==
  LET Case(acc, case) ==
        LET test == emit_jump(expression(acc.c, case.kids[1]), "JUMP_COMPARE")
            then == emit_jump(statement(test, case.kids[2]), "JUMP")
        IN  [c |-> patch_jump(then, Offset(test)), jumps |-> Append(acc.jumps, Offset(then))]
      all == FoldLeft(Case, [c |-> expression(c, e), jumps |-> <<>>], cases)
  IN  FoldLeft(patch_jump, statement(emit(all.c, <<OP.POP>>), default), all.jumps)

while_statement(c, e, s) ==
  LET test == Condition(start_loop(c), e)
      loop == statement(Put(test, [Loop(test) EXCEPT !.body = Here(test)]), s)
  IN  end_loop(emit_loop(loop, Loop(loop).start))

(* The increment stands before the body: the condition jumps over it, it   *)
(* loops to the condition, and from then on it is where the loop starts.   *)
for_statement(c, init, e, incr, s) ==
  LET begun  == start_loop(statement(begin_scope(c), init))
      test   == IF e.op = "none" THEN begun ELSE Condition(begun, e)
      jump   == emit_jump(test, "JUMP")
      step   == emit_loop(emit(expression(jump, incr), <<OP.POP>>), Loop(test).start)
      clause == IF incr.op = "none" THEN test
                ELSE patch_jump(Put(step, [Loop(step) EXCEPT !.start = Here(jump)]), Offset(jump))
      loop   == statement(Put(clause, [Loop(clause) EXCEPT !.body = Here(clause)]), s)
  IN  end_scope(end_loop(emit_loop(loop, Loop(loop).start)))

(* declaration, statement.                                                 *)
statement(c, s) ==
  LET k == s.kids
  IN  CASE s.op = "none"   -> c
        [] s.op = "expr"   -> emit(expression(c, k[1]), <<OP.POP>>)
        [] s.op = "print"  -> emit(expression(c, k[1]), <<OP.PRINT>>)
        [] s.op = "var"    -> [expression(c, k[1]) EXCEPT !.locals = Append(@, c.scope_depth)]
        [] s.op = "block"  -> end_scope(FoldLeft(statement, begin_scope(c), k))
        [] s.op = "if"     -> if_statement(c, k[1], k[2], k[3])
        [] s.op = "ternary" -> ternarty_statement(c, k[1], k[2], k[3])
        [] s.op = "while"  -> while_statement(c, k[1], k[2])
        [] s.op = "for"    -> for_statement(c, k[1], k[2], k[3], k[4])
        [] s.op = "switch" -> switch_statement(c, k[1], Front(Tail(k)), Last(k))
        [] s.op = "break"  -> break_statement(c)
        [] s.op = "next"   -> next_statement(c)
        [] s.op = "return" -> emit(IF k = <<>> THEN emit(c, <<OP.NIL>>) ELSE expression(c, k[1]),
                                   <<OP.RETURN>>)

(* function, end_compiler.                                                 *)
compile(s) == emit(statement(init_compiler, s), <<OP.NIL, OP.RETURN>>).code
-----------------------------------------------------------------------------
(* run.                                                                    *)

Init ==
  /\ \E p \in Programs : body = Label(p, FirstConstant).tree
  /\ code = compile(body)
  /\ ip = 0 /\ stack = <<"function">>
  /\ answers = <<>> /\ trace = <<>>
  /\ heights = <<>>

HALTED == -1

Operand == Byte(code, ip + 1)
Short == 256 * Byte(code, ip + 1) + Byte(code, ip + 2)
Top == Last(stack)
Popped(n) == SubSeq(stack, 1, Len(stack) - n)

At(ops) ==
  /\ ip # HALTED /\ Byte(code, ip) \in ops
  /\ heights' = (ip :> Len(stack)) @@ heights
  /\ UNCHANGED <<body, code>>

(* An instruction with n bytes of operands.                                *)
Step(op, n, after) == At({op}) /\ ip' = ip + 1 + n /\ stack' = after

Silent == UNCHANGED <<answers, trace>>
Does(what, value) == trace' = Append(trace, <<what, value>>)

op_constant == Step(OP.CONSTANT, 1, Append(stack, "constant")) /\ Silent

op_literal ==
  \E l \in {<<OP.NIL, "nil">>, <<OP.TRUE, "true">>, <<OP.FALSE, "false">>} :
    Step(l[1], 0, Append(stack, l[2])) /\ Silent

op_pop == Step(OP.POP, 0, Popped(1)) /\ Silent

op_get_local ==
  LET value == stack[Operand + 1]
  IN  Step(OP.GET_LOCAL, 1, Append(stack, value)) /\ Does("local", value) /\ UNCHANGED answers

(* A value from outside.                                                   *)
Answer(what, n, op, below) ==
  /\ Len(answers) < MaxAnswers
  /\ \E value \in {"true", "false"} :
       /\ Step(op, n, Append(below, value))
       /\ Does(what, value) /\ answers' = Append(answers, value)

op_get_global == Answer(Operand, 1, OP.GET_GLOBAL, stack)
op_call == Answer("call", 1, OP.CALL, Popped(1 + Operand))

op_set_global == Step(OP.SET_GLOBAL, 1, stack) /\ Does(Operand, Top) /\ UNCHANGED answers
op_print == Step(OP.PRINT, 0, Popped(1)) /\ Does("print", Top) /\ UNCHANGED answers

op_not == Step(OP.NOT, 0, Append(Popped(1), Bool(Falsey(Top)))) /\ Silent

op_equal ==
  Step(OP.EQUAL, 0, Append(Popped(2), Bool(stack[Len(stack) - 1] = Top))) /\ Silent

op_new_array == Step(OP.NEW_ARRAY, 1, Append(Popped(Operand), "array")) /\ Silent

op_jump == At({OP.JUMP}) /\ ip' = ip + 3 + Short /\ UNCHANGED stack /\ Silent
op_loop == At({OP.LOOP}) /\ ip' = ip + 3 - Short /\ UNCHANGED stack /\ Silent

op_jump_if_false ==
  /\ At({OP.JUMP_IF_FALSE})
  /\ ip' = ip + 3 + IF Falsey(Top) THEN Short ELSE 0
  /\ UNCHANGED stack /\ Silent

op_jump_compare ==
  LET same == Top = stack[Len(stack) - 1]
  IN  /\ At({OP.JUMP_COMPARE})
      /\ ip' = ip + 3 + IF same THEN 0 ELSE Short
      /\ stack' = Popped(IF same THEN 2 ELSE 1)
      /\ Silent

(* The caller's stack, and the result.                                     *)
op_return == At({OP.RETURN}) /\ ip' = HALTED /\ stack' = <<Top>> /\ Silent

Next ==
  \/ op_constant \/ op_literal \/ op_pop \/ op_get_local \/ op_get_global \/ op_call
  \/ op_set_global \/ op_print \/ op_not \/ op_equal \/ op_new_array
  \/ op_jump \/ op_loop \/ op_jump_if_false \/ op_jump_compare \/ op_return

Spec == Init /\ [][Next]_vars

(* run() has no other place to go on than the next instruction.            *)
FairSpec == Spec /\ WF_vars(Next)

(* A break that end_loop missed does nothing, and what is no instruction   *)
(* either.                                                                 *)
op_break == At({OP.BREAK} \cup 43 .. 255) /\ ip' = ip + 1 /\ UNCHANGED stack /\ Silent
-----------------------------------------------------------------------------
(* The types; ip is inside the code.                                       *)
TypeOK ==
  /\ code \in Seq(0 .. 255) /\ ip \in {HALTED} \cup 0 .. Len(code) - 1
  /\ stack \in Seq({"function", "constant", "array", "nil", "true", "false"}) /\ stack # <<>>
  /\ Len(answers) <= MaxAnswers

(* Running the code does what the program means, in the same order and     *)
(* with the same values: so far, and to the end, where it returns what the *)
(* program returns.                                                        *)
DoesWhatItMeans ==
  LET m == Meaning(body, answers)
  IN  /\ IsPrefix(trace, m.trace)
      /\ ip = HALTED => m.signal = "return" /\ trace = m.trace /\ Top = m.value

(* The types; and however an instruction is reached, by whatever turns of  *)
(* whatever loops, the stack has the same height: slots are what the       *)
(* compiler took them for, and loops do not make the stack grow.           *)
HeightIsFixed == TypeOK /\ (ip \in DOMAIN heights => heights[ip] = Len(stack))

(* A program that is told no more comes to an end, or to the next question.*)
ComesToAnEnd == <>(ip = HALTED \/ Len(answers) = MaxAnswers)
=============================================================================
