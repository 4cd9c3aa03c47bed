------------------------- MODULE MCValpDeviations -------------------------
(* A TLC instance of ValpCode, ValpStrings and ValpClosuresRepl: programs  *)
(* whose code does something else than they mean, each after 26 constants, *)
(* then a program that works on strings, and then lines of the REPL.       *)
EXTENDS MCValpCode

CONSTANTS
  Char, NUL, Garbage, MaxText, MaxStrings,
  Data, Closure, Upvalue, Variable, NIL, MaxStack, MaxFrames, MaxArgs, MaxUpvalues

VARIABLES
  heap, constants, written, returned,                        \* of ValpStrings
  slots, frames, open, upvalue, upvalues, capturing, locals, \* of ValpClosuresRepl
  named, access, global, orphans,
  given \* what the variables of the lines were given last

strings == <<heap, constants, written, returned>>
lines == <<slots, frames, open, upvalue, upvalues, capturing, locals, named, access,
           global, orphans, given>>

Strings == INSTANCE ValpStrings WITH result <- returned
Lines == INSTANCE ValpClosuresRepl WITH stack <- slots, Var <- Variable

MCChar == {"a", ","}

(* Bytes that look like a string.                                          *)
MCGarbage == {<<",", NUL, "a">>}

(* while a { if b { c; } else { break; } }                                 *)
BreakInElse == Tree("while", <<Global, If(Global, Expr(Global), Break)>>)

(* while a { x = f(); break; } where x is the constant of number 27,       *)
BreakAfterCall ==
  Tree("while", <<Global, Block(<<Expr(Tree("assign", <<Tree("call", <<>>)>>)), Break>>)>>)

(* c; ? x; : y; and then a local,                                          *)
LocalAfterTernary ==
  Block(<<Tree("ternary", <<Global, Expr(Global), Expr(Global)>>), Declare(Global), Expr(Local)>>)

(* a literal of 257 elements as a statement, and then a local.             *)
LocalAfterArray ==
  Block(<<Expr(Tree("array", [i \in 1 .. 257 |-> Tree("nil", <<>>)])), Declare(Global), Expr(Local)>>)

Deviations == <<BreakInElse, BreakAfterCall, LocalAfterTernary, LocalAfterArray>>
DeviatingPrograms == {Deviations[n] : n \in DOMAIN Deviations}

(* They run one after another, the next when one has gone wrong.           *)
VARIABLE number

StartOf(n) == Label(Deviations[n], FirstConstant).tree

(* Before the first effect there is nothing to compare.                    *)
Wrong == (trace # <<>> \/ ip = HALTED) /\ ~DoesWhatItMeans

NextProgram ==
  /\ Wrong /\ number' = number + 1
  /\ body' = IF number = Len(Deviations) THEN body ELSE StartOf(number + 1)
  /\ code' = compile(body')
  /\ ip' = 0 /\ stack' = <<"function">> /\ answers' = <<>> /\ trace' = <<>> /\ heights' = <<>>

RunPrograms ==
  /\ number \in DOMAIN Deviations
  /\ NextProgram \/ (~Wrong /\ (Next \/ op_break) /\ UNCHANGED number)
  /\ UNCHANGED <<strings, lines>>

(* A program on strings has gone wrong when a literal is not the text it   *)
(* says any more, and another when the len() of what split gives is not the*)
(* number of its characters.                                               *)
StringsRight ==
  IF number = Len(Deviations) + 1 THEN Strings!LiteralsStay ELSE Strings!LengthsAreRight

RunStrings ==
  /\ number \in Len(Deviations) + 1 .. Len(Deviations) + 2
  /\ IF StringsRight
     THEN Strings!Next /\ UNCHANGED number
     ELSE /\ number' = number + 1
          /\ heap' = <<>> /\ constants' = {} /\ written' = {}
          /\ returned' = [call |-> "none", text |-> <<>>, with |-> <<>>, value |-> <<>>]
  /\ UNCHANGED <<vars, lines>>

(* A variable that is new has its first value, and one that is assigned    *)
(* the value it is assigned.                                               *)
Given ==
  given' = [v \in Lines!UsedVars' |->
              IF access' # <<>> /\ access'.of = v THEN access'.val
              ELSE IF v \in DOMAIN given THEN given[v] ELSE Lines!Store'[v]]

RunLines ==
  /\ number = Len(Deviations) + 3
  /\ Lines!ReplNext /\ Given
  /\ UNCHANGED <<vars, number, strings>>

(* A local that was declared has the value it was given last.              *)
LocalsHold ==
  \A f \in DOMAIN locals : \A i \in 2 .. Len(locals[f]) :
    slots[frames[f].slots + i - 1] = given[locals[f][i]]

DeviationInit ==
  /\ Init /\ number = 1 /\ body = StartOf(1)
  /\ Strings!Init
  /\ Lines!ReplInit /\ given = Lines!Store
DeviationSpec ==
  DeviationInit /\ [][RunPrograms \/ RunStrings \/ RunLines]_<<vars, number, strings, lines>>

(* Not all of them go wrong: a break leaves its loop and the loop goes     *)
(* round without (test/core/while.vp:31), a local has the value it was     *)
(* given (test/core/variable.vp:4), also in a line of the REPL after one   *)
(* that failed, a literal is the text that was written, and len() is the   *)
(* number of characters of a string (test/core/types/string.vp:1, :5).     *)
SomeGoRight == number <= Len(Deviations) + 2 \/ LocalsHold
=============================================================================
