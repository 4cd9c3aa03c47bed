---------------------------- MODULE ValpGrammar ----------------------------
(***************************************************************************)
(* The language the parser is to accept, as a grammar, and what a grammar  *)
(* says of a text: whether it is a program, and else the first token that  *)
(* no program has there.  It knows nothing of the parser.                  *)
(*                                                                         *)
(* A grammar here is a set of rules, and a text is read by keeping all that*)
(* may still follow: a configuration is the symbols to come, and the loops,*)
(* functions and classes around the place, which decide on break, next,    *)
(* return, self and super.  Symbols in lower case and signs are tokens.    *)
(***************************************************************************)
EXTENDS Integers, SequencesExt

Identifier == {"x", "y", "init"}
Literal == {"1", "true"}

(* Operators stand for all of their precedence, += for all its kind.       *)
Continues == {"or", "and", "==", "<", "+", "-", "*", "(", ".", "[", "=", "+="}

FunctionMarks == {"FUNCTION", "INITIALIZER"}
ClassMarks == {"CLASS", "SUBCLASS"}
Marks == {"LOOP"} \cup FunctionMarks \cup ClassMarks

(* The innermost of some marks, "NONE" if there is none.                   *)
Innermost(inside, marks) ==
  LET within == SelectSeq(inside, LAMBDA m : m \in marks)
  IN  IF within = <<>> THEN "NONE" ELSE Last(within)

InLoop(inside) == Innermost(inside, {"LOOP"} \cup FunctionMarks) = "LOOP"

(* One level of binary operators over the next.                            *)
Level(rest, op, operand) == {<<"NOT " \o op>>, <<op, operand, rest>>}

Loop(head) == head \o <<"LOOP", "Statement", "OUT">>
Function(mark) == <<mark, "(", "Parameters", ")", "{", "Block", "OUT">>

Rules(symbol, inside) ==
  CASE symbol = "Program" -> {<<"eof">>, <<"Declaration", "Program">>}
    [] symbol = "Block"   -> {<<"}">>, <<"Declaration", "Block">>}
    [] symbol = "Declaration" ->
         {<<"Statement">>, <<"fun", "NAME">> \o Function("FUNCTION")}
           \cup {<<v, "NAME", "Initial", ";">> : v \in {"var", "const"}}
           \cup {<<"class", n, "{", "CLASS", "Methods">> : n \in Identifier}
           \cup {<<"class", nm[1], "<", nm[2], "{", "SUBCLASS", "Methods">> :
                   nm \in {nm \in Identifier \X Identifier : nm[1] # nm[2]}}
    [] symbol = "Initial" -> {<<>>, <<"=", "Expression">>}
    [] symbol = "Parameters" -> {<<>>, <<"NAME", "MoreParameters">>}
    [] symbol = "MoreParameters" -> {<<>>, <<",", "NAME", "MoreParameters">>}
    [] symbol = "Methods" ->
         {<<"}", "OUT">>, <<"def", "init">> \o Function("INITIALIZER") \o <<"Methods">>}
           \cup {<<"def", n>> \o Function("FUNCTION") \o <<"Methods">> : n \in Identifier \ {"init"}}
    [] symbol = "Statement" ->
         {<<"Expression", ";">>, <<"print", "Expression", ";">>, <<"{", "Block">>,
          <<"if", "Condition", "Statement", "Else">>,
          <<"?", "Statement", ":", "Statement">>,
          <<"switch", "Condition", "{", "Case", "Cases", "Default", "}">>,
          Loop(<<"while", "Condition">>),
          Loop(<<"for", "(", "Start", "Test", ")">>),
          Loop(<<"for", "(", "Start", "Test", "Expression", ")">>),
          Loop(<<"for", "NOT (", "Start", "Test", ")">>),
          Loop(<<"for", "NOT (", "Start", "Test", "NOT )", "Expression">>)}
           \cup (IF InLoop(inside) THEN {<<"break", ";">>, <<"next", ";">>} ELSE {})
           \cup (IF Innermost(inside, FunctionMarks) # "NONE" THEN {<<"return", ";">>} ELSE {})
           \cup (IF Innermost(inside, FunctionMarks) = "FUNCTION"
                 THEN {<<"return", "Expression", ";">>} ELSE {})
    [] symbol = "Condition" -> {<<"(", "Expression", ")">>, <<"NOT (", "Expression">>}
    [] symbol = "Else"    -> {<<"NOT else">>, <<"else", "Statement">>}
    [] symbol = "Case"    -> {<<"case", "Expression", ":", "Statement">>}
    [] symbol = "Cases"   -> {<<>>, <<"Case", "Cases">>}
    [] symbol = "Default" -> {<<>>, <<"default", ":", "Statement">>}
    [] symbol = "Start"   -> {<<";">>, <<"var", "NAME", "Initial", ";">>, <<"Expression", ";">>}
    [] symbol = "Test"    -> {<<";">>, <<"Expression", ";">>}
    [] symbol = "Expression" ->
         {<<"Or", "END">>}
           \cup {<<"NAME", becomes, "Expression">> : becomes \in {"=", "+="}}
           \cup {<<"Primary", "Suffixes", ".", "NAME", becomes, "Expression">> :
                   becomes \in {"=", "+="}}
    [] symbol = "Or"      -> {<<"And", "Ors">>}
    [] symbol = "Ors"     -> Level("Ors", "or", "And")
    [] symbol = "And"     -> {<<"Equal", "Ands">>}
    [] symbol = "Ands"    -> Level("Ands", "and", "Equal")
    [] symbol = "Equal"   -> {<<"Compare", "Equals">>}
    [] symbol = "Equals"  -> Level("Equals", "==", "Compare")
    [] symbol = "Compare" -> {<<"Term", "Compares">>}
    [] symbol = "Compares" -> Level("Compares", "<", "Term")
    [] symbol = "Term"    -> {<<"Factor", "Terms">>}
    [] symbol = "Terms"   -> {<<>>, <<"+", "Factor", "Terms">>, <<"-", "Factor", "Terms">>}
    [] symbol = "Factor"  -> {<<"Unary", "Factors">>}
    [] symbol = "Factors" -> Level("Factors", "*", "Unary")
    [] symbol = "Unary"   -> {<<"Primary", "Suffixes">>, <<"-", "Unary">>, <<"!", "Unary">>}
    [] symbol = "Suffixes" ->
         {<<>>, <<"(", "Arguments", ")", "Suffixes">>, <<".", "NAME", "Suffixes">>,
          <<"[", "Expression", "]", "Suffixes">>}
    [] symbol = "Primary" ->
         {<<"NAME">>, <<"LITERAL">>, <<"(", "Expression", ")">>, <<"[", "Arguments", "]">>}
           \cup (IF Innermost(inside, ClassMarks) # "NONE" THEN {<<"self">>} ELSE {})
           \cup (IF Innermost(inside, ClassMarks) = "SUBCLASS" THEN {<<"super", ".", "NAME">>} ELSE {})
    [] symbol = "Arguments" -> {<<>>, <<"Expression", "MoreArguments">>}
    [] symbol = "MoreArguments" -> {<<>>, <<",", "Expression", "MoreArguments">>}
    [] OTHER -> {}

(* Conditions on the next token.                                           *)
Allows(symbol, token) ==
  CASE symbol = "END" -> token \notin Continues
    [] OTHER -> symbol # "NOT " \o token

Conditions == {"END"} \cup {"NOT " \o t : t \in Continues \cup {")", "else"}}

Matches(symbol, token) ==
  CASE symbol = "NAME"    -> token \in Identifier
    [] symbol = "LITERAL" -> token \in Literal
    [] OTHER              -> symbol = token

RECURSIVE After(_, _)
(* The configurations a token leads to from configuration c.               *)
After(c, token) ==
  IF c.rest = <<>> THEN {}
  ELSE LET symbol == Head(c.rest)
           next == [c EXCEPT !.rest = Tail(@)]
           rules == Rules(symbol, c.inside)
       IN  IF rules # {}
           THEN UNION {After([next EXCEPT !.rest = rule \o @], token) : rule \in rules}
           ELSE IF symbol \in Conditions
           THEN IF Allows(symbol, token) THEN After(next, token) ELSE {}
           ELSE IF symbol \in Marks THEN After([next EXCEPT !.inside = Append(@, symbol)], token)
           ELSE IF symbol = "OUT" THEN After([next EXCEPT !.inside = Front(@)], token)
           ELSE IF Matches(symbol, token) THEN {next} ELSE {}

Start == {[rest |-> <<"Program">>, inside |-> <<>>]}
Read(configurations, token) == UNION {After(c, token) : c \in configurations}

(* The configurations after each number of tokens of a text.               *)
Follow(text) ==
  LET now[k \in 0 .. Len(text)] == IF k = 0 THEN Start ELSE Read(now[k - 1], text[k])
  IN  now

RECURSIVE Reading(_, _, _)
(* The first token from place k on that no program has after those before  *)
(* it, and the configurations it is wrong in; the length of the text and   *)
(* one if there is none.                                                   *)
Reading(text, k, now) ==
  LET next == Read(now, text[k])
  IN  IF k > Len(text) \/ next = {} THEN [wrong |-> k, before |-> now]
      ELSE Reading(text, k + 1, next)

FirstWrong(text) == Reading(text, 1, Start).wrong

(* The innermost list of declarations that a configuration is in; whether  *)
(* all that comes before it goes on is a statement without a body; and what*)
(* is to follow if that is given up.                                       *)
InnerList(c) ==
  CHOOSE n \in DOMAIN c.rest :
    c.rest[n] \in {"Program", "Block"} /\ \A m \in 1 .. n - 1 : c.rest[m] \notin {"Program", "Block"}

InStatement(c) ==
  \A n \in 1 .. InnerList(c) - 1 :
    c.rest[n] \notin {"Statement", "Else", "Methods", "{", "}", ":"}

GivenUp(c) ==
  LET n == InnerList(c)
      left == {m \in 1 .. n - 1 : c.rest[m] = "OUT"}
  IN  [rest |-> SubSeq(c.rest, n, Len(c.rest)),
       inside |-> SubSeq(c.inside, 1, Len(c.inside) - Cardinality(left))]

RECURSIVE Beginnings(_, _, _)
(* How programs go on after a text, by n tokens out of a set: tokens, and  *)
(* the configurations they lead to.                                        *)
Beginnings(text, n, Token) ==
  IF n = 0 THEN {[tokens |-> text, now |-> Follow(text)[Len(text)]]}
  ELSE {q \in {[tokens |-> Append(b.tokens, t), now |-> Read(b.now, t)] :
                 b \in Beginnings(text, n - 1, Token), t \in Token} :
          q.now # {}}
=============================================================================
