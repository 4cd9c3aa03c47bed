---------------------------- MODULE ValpMeaning ----------------------------
(***************************************************************************)
(* What a program of valp means, as far as control goes: an interpreter    *)
(* over syntax trees, which knows of no bytecode.  It is the reference     *)
(* that ValpCode is compared with.                                         *)
(*                                                                         *)
(* A tree is a record of an operator and its kids.  Whatever a program     *)
(* reads from outside (a global, the result of a call) is the next of its  *)
(* "answers"; what it does is its "trace".  Running out of answers stops   *)
(* it ("out").                                                             *)
(***************************************************************************)
EXTENDS Integers, Sequences, SequencesExt

Tree(op, kids) == [op |-> op, kids |-> kids]
None == Tree("none", <<>>)

(* The expressions that name a constant of the function: they are told     *)
(* apart by its index, which is the order of appearance in the source.     *)
Named == {"constant", "global", "call", "assign"}

RECURSIVE Label(_, _), Labels(_, _)
(* The tree with indices from k on, and the first index that is free.      *)
Label(t, k) ==
  LET all == Labels(t.kids, IF t.op \in Named THEN k + 1 ELSE k)
  IN  [tree |-> [op |-> t.op, kids |-> all.kids, k |-> k], next |-> all.next]

(* The same for a list, by halves, as lists may be long.                   *)
Labels(ts, k) ==
  IF ts = <<>> THEN [kids |-> <<>>, next |-> k]
  ELSE IF Len(ts) = 1 THEN LET l == Label(ts[1], k) IN [kids |-> <<l.tree>>, next |-> l.next]
  ELSE LET half   == Len(ts) \div 2
           first  == Labels(SubSeq(ts, 1, half), k)
           second == Labels(SubSeq(ts, half + 1, Len(ts)), first.next)
       IN  [kids |-> first.kids \o second.kids, next |-> second.next]
-----------------------------------------------------------------------------
Falsey(v) == v \in {"nil", "false"}
Bool(b) == IF b THEN "true" ELSE "false"

(* The state of a run: going, or the way in which control leaves.          *)
Begin(answers) ==
  [signal |-> "go", value |-> "nil", locals |-> <<>>, answers |-> answers, trace |-> <<>>]

Note(r, what) == [r EXCEPT !.trace = Append(@, <<what, r.value>>)]

Ask(r, what) ==
  IF r.signal # "go" THEN r
  ELSE IF r.answers = <<>> THEN [r EXCEPT !.signal = "out"]
  ELSE Note([r EXCEPT !.value = Head(r.answers), !.answers = Tail(@)], what)

Give(r, value) == IF r.signal = "go" THEN [r EXCEPT !.value = value] ELSE r
Signal(r, signal) == IF r.signal = "go" THEN [r EXCEPT !.signal = signal] ELSE r

(* Control that comes back from signals of a set.                          *)
Caught(r, signals) == IF r.signal \in signals THEN [r EXCEPT !.signal = "go"] ELSE r

RECURSIVE Eval(_, _), EvalAll(_, _)
(* Expressions one after another, by halves.                               *)
EvalAll(r, es) ==
  IF r.signal # "go" \/ es = <<>> THEN r
  ELSE IF Len(es) = 1 THEN Eval(r, es[1])
  ELSE LET half == Len(es) \div 2
       IN  EvalAll(EvalAll(r, SubSeq(es, 1, half)), SubSeq(es, half + 1, Len(es)))

Eval(r, e) ==
  IF r.signal # "go" THEN r
  ELSE CASE e.op = "global" -> Ask(r, e.k)
         [] e.op = "call"   -> Ask(Ask(r, e.k), "call")
         [] e.op \in {"nil", "true", "false", "constant"} -> Give(r, e.op)
         [] e.op = "local"  -> Note(Give(r, Last(r.locals)), "local")
         [] e.op = "assign" -> LET v == Eval(r, e.kids[1])
                               IN  IF v.signal = "go" THEN Note(v, e.k) ELSE v
         [] e.op = "not"    -> LET v == Eval(r, e.kids[1]) IN Give(v, Bool(Falsey(v.value)))
         [] e.op = "equal"  -> LET a == Eval(r, e.kids[1])
                                   b == Eval(a, e.kids[2])
                               IN  Give(b, Bool(a.value = b.value))
         [] e.op = "array"  -> Give(EvalAll(r, e.kids), "array")
         [] e.op = "and"    -> LET a == Eval(r, e.kids[1])
                               IN  IF Falsey(a.value) THEN a ELSE Eval(a, e.kids[2])
         [] e.op = "or"     -> LET a == Eval(r, e.kids[1])
                               IN  IF Falsey(a.value) THEN Eval(a, e.kids[2]) ELSE a

RECURSIVE Exec(_, _), ExecLoop(_, _, _, _), ExecCases(_, _, _)
Exec(r, s) ==
  IF r.signal # "go" THEN r
  ELSE CASE s.op = "none"   -> r
         [] s.op = "expr"   -> Eval(r, s.kids[1])
         [] s.op = "print"  -> LET v == Eval(r, s.kids[1])
                               IN  IF v.signal = "go" THEN Note(v, "print") ELSE v
         [] s.op = "var"    -> LET v == Eval(r, s.kids[1])
                               IN  IF v.signal = "go" THEN [v EXCEPT !.locals = Append(@, v.value)] ELSE v
         [] s.op = "block"  -> [FoldLeft(Exec, r, s.kids) EXCEPT !.locals = r.locals]
         [] s.op \in {"if", "ternary"} ->
              LET v == Eval(r, s.kids[1])
              IN  Exec(v, IF Falsey(v.value) THEN s.kids[3] ELSE s.kids[2])
         [] s.op = "while"  -> ExecLoop(r, s.kids[1], None, s.kids[2])
         [] s.op = "for"    -> [ExecLoop(Exec(r, s.kids[1]), s.kids[2], s.kids[3], s.kids[4])
                                  EXCEPT !.locals = r.locals]
         [] s.op = "switch" -> LET v == Eval(r, s.kids[1]) IN ExecCases(v, v.value, Tail(s.kids))
         [] s.op = "break"  -> Signal(r, "break")
         [] s.op = "next"   -> Signal(r, "next")
         [] s.op = "return" -> Signal(IF s.kids = <<>> THEN Give(r, "nil") ELSE Eval(r, s.kids[1]), "return")

(* A loop without a condition goes on; next goes on to the increment.      *)
ExecLoop(r, cond, incr, body) ==
  IF r.signal # "go" THEN r
  ELSE LET v == IF cond.op = "none" THEN Give(r, "true") ELSE Eval(r, cond)
           b == Caught(Exec(v, body), {"next"})
           i == IF incr.op = "none" THEN b ELSE Eval(b, incr)
       IN  IF Falsey(v.value) THEN v ELSE Caught(ExecLoop(i, cond, incr, body), {"break"})

(* The cases in order, and the default, which is the last and may be none. *)
ExecCases(r, value, cases) ==
  IF r.signal # "go" THEN r
  ELSE IF Len(cases) = 1 THEN Exec(r, cases[1])
  ELSE LET v == Eval(r, cases[1].kids[1])
       IN  IF v.value = value THEN Exec(v, cases[1].kids[2]) ELSE ExecCases(v, value, Tail(cases))

(* A function whose body is a statement: what it did, up to where the      *)
(* answers end; it returns nil if it comes to the end.                     *)
Meaning(body, answers) ==
  LET r == Exec(Begin(answers), body)
  IN  Signal(Give(r, "nil"), "return")
=============================================================================
