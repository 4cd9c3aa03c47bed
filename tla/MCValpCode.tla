----------------------------- MODULE MCValpCode -----------------------------
(* The programs whose code is checked: the statements of a grammar up to a *)
(* depth of nesting.                                                       *)
EXTENDS ValpCode

Global == Tree("global", <<>>)
Local == Tree("local", <<>>)
Expr(e) == Tree("expr", <<e>>)
Declare(e) == Tree("var", <<e>>)
Block(s) == Tree("block", s)
If(e, s, t) == Tree("if", <<e, s, t>>)
Break == Tree("break", <<>>)
Nexts == Tree("next", <<>>)

(* Every kind of expression, and the ones with jumps in each other.        *)
Logical(E) == {Tree(op, <<a, b>>) : op \in {"and", "or"}, a, b \in E}
Plain == {Tree(op, <<>>) : op \in {"global", "nil", "true", "false", "constant"}}
Expressions ==
  Logical(Plain) \cup Logical(Logical({Global}) \cup {Global})
    \cup {Tree("equal", <<Global, e>>) : e \in Plain} \cup {Tree("not", <<e>>) : e \in Plain}
    \cup {Tree("assign", <<e>>) : e \in Plain}
    \cup {Tree("array", s) : s \in {<<>>, <<Global>>, <<Global, Tree("array", <<>>)>>}}

ExpressionPrograms ==
  UNION {{If(e, Expr(Global), None), Block(<<Declare(e), Tree("print", <<Local>>)>>),
          Tree("return", <<e>>), Tree("while", <<e, Expr(Global)>>)} : e \in Expressions}
    \cup {Expr(Tree("call", <<>>)), Tree("return", <<>>)}

Atoms(inLoop) == {Expr(Global)} \cup (IF inLoop THEN {Break, Nexts} ELSE {})

(* A break writes over the two bytes behind it (end_loop), and behind the  *)
(* second branch of an if and behind a default the others go on.           *)
Joined(S) ==
  {s \in S : s.op # "break" /\ (s.op = "block" => Last(s.kids).op # "break")}

(* Statements over ones for the branches and ones for the bodies of loops. *)
Branches(S) ==
  {If(Global, s, t) : s \in S, t \in Joined(S) \cup {None}}
    \cup {Block(<<s, t>>) : s, t \in S}
    \cup {Block(<<Declare(Global), s, Expr(Local)>>) : s \in S}
    \cup {Tree("switch", <<Global, Tree("case", <<Global, s>>), t>>) :
            s \in S, t \in Joined(S) \cup {None}}

Loops(S) ==
  {Tree("while", <<Global, s>>) : s \in S}
    \cup {Tree("for", <<i, Global, n, s>>) :
            i \in {None, Declare(Global)}, n \in {None, Global}, s \in S}

Nested(inLoop) == Atoms(inLoop) \cup Branches(Atoms(inLoop)) \cup Loops(Atoms(TRUE))

StatementPrograms == Branches(Nested(FALSE)) \cup Loops(Nested(TRUE))

(* The loops with a statement of two levels as their body, in which a local*)
(* of the loop's own scope is read.                                        *)
LoopPrograms ==
  {Block(<<Declare(Global), Tree("while", <<Global, s>>), Expr(Local)>>) :
     s \in Branches(Branches(Atoms(TRUE)))}

AllPrograms == ExpressionPrograms \cup StatementPrograms \cup LoopPrograms
=============================================================================
