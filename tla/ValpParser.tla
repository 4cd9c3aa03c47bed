----------------------------- MODULE ValpParser -----------------------------
(***************************************************************************)
(* The parser of valp_compiler.c: one token ahead, a function for each     *)
(* construct, precedences for expressions, and panic mode: after an error  *)
(* it reports nothing until declaration() has synchronized.  Its functions *)
(* are operators of their names on the state of the parser.  What it emits *)
(* is kept for expressions, in the order of the code.                      *)
(*                                                                         *)
(* Left out: names that are declared twice or are const (ValpScopes), the  *)
(* limits of 255, jumps (ValpCode).                                        *)
(***************************************************************************)
EXTENDS ValpGrammar

CONSTANTS Texts \* each: tokens, ended by "eof", and means, the code of the
                \* expression they are, <<>> for any other text

VARIABLES
  text,  \* the source, and the first token that no program has there
  p,     \* the parser, and the compiler as far as it decides about errors
  done   \* whether compile() has returned

parsing == <<text, p, done>>

symbols == text.tokens

(* previous and current are places in the text.  compilers: the functions  *)
(* around, each with its type, its loops and its scope_depth; classes: the *)
(* classes around, whether they have a superclass; reports: the places of  *)
(* the errors that were printed; code: what expressions became.            *)
Parser ==
  [previous |-> 0, current |-> 0, panic_mode |-> FALSE, reports |-> <<>>,
   compilers |-> <<[type |-> "script", loops |-> 0, scope_depth |-> 0]>>,
   classes |-> <<>>, code |-> <<>>]

current_compiler(q) == Last(q.compilers)
emit(q, bytes) == [q EXCEPT !.code = @ \o bytes]
-----------------------------------------------------------------------------
(* Mutant: errors are reported in panic mode, too.                         *)
error_at_all(q, place) == [q EXCEPT !.panic_mode = TRUE, !.reports = Append(@, place)]

error_at(q, place) ==
  IF q.panic_mode THEN q
  ELSE [q EXCEPT !.panic_mode = TRUE, !.reports = Append(@, place)]

error(q) == error_at(q, q.previous)
error_at_current(q) == error_at(q, q.current)

RECURSIVE advance_to(_, _)
(* scan_token gives the token at place k, and "eof" for ever at the end.   *)
advance_to(q, k) ==
  LET next == [q EXCEPT !.current = k]
  IN  IF symbols[k] # "error" THEN next ELSE advance_to(error_at_current(next), k + 1)

advance(q) ==
  advance_to([q EXCEPT !.previous = q.current], IF q.current = Len(symbols) THEN q.current ELSE q.current + 1)

Previous(q) == symbols[q.previous]
check(q, t) == symbols[q.current] \in t
consume(q, t) == IF check(q, t) THEN advance(q) ELSE error_at_current(q)
-----------------------------------------------------------------------------
Precedence(t) ==
  CASE t = "or" -> 2 [] t = "and" -> 3 [] t = "==" -> 4 [] t = "<" -> 5
    [] t \in {"+", "-"} -> 6 [] t = "*" -> 7 [] t \in {"(", "."} -> 9 [] t = "[" -> 10
    [] OTHER -> 0

PREC_ASSIGNMENT == 1
PREC_UNARY == 8

(* Mutant: operators of the same precedence from the right.                *)
operand_same(t) == Precedence(t)

(* What precedence the right operand of a binary operator has at least.    *)
operand(t) == IF t \in {"or", "and"} THEN Precedence(t) ELSE Precedence(t) + 1

RECURSIVE parse_precedence(_, _)
expression(q) == parse_precedence(q, PREC_ASSIGNMENT)

RECURSIVE list(_)
(* Expressions with commas between.                                        *)
list(q) ==
  LET next == expression(q)
  IN  IF check(next, {","}) THEN list(advance(next)) ELSE next

argument_list(q) == consume(IF check(q, {")"}) THEN q ELSE list(q), {")"})
call(q) == emit(argument_list(q), <<"call">>)
array(q) == consume(emit(IF check(q, {"]"}) THEN q ELSE list(q), <<"array">>), {"]"})

slice(q) ==
  LET e == expression(IF check(q, {"]"}) THEN error(q) ELSE q)
  IN  consume(emit(e, <<"slice">>), {"]"})

grouping(q) == consume(expression(q), {")"})

(* Mutant: an operand can be assigned to.                                  *)
Assignable_operand(q, can_assign, get, get_first, set) ==
  IF check(q, {"="}) THEN emit(expression(advance(q)), set)
  ELSE IF check(q, {"+="})
  THEN emit(expression(emit(advance(q), get_first)), <<"+">> \o set)
  ELSE emit(q, get)

(* A name, get and set: x = e, x += e, or just x.                          *)
Assignable(q, can_assign, get, get_first, set) ==
  IF can_assign /\ check(q, {"="}) THEN emit(expression(advance(q)), set)
  ELSE IF can_assign /\ check(q, {"+="})
  THEN emit(expression(emit(advance(q), get_first)), <<"+">> \o set)
  ELSE emit(q, get)

named_variable(q, can_assign) ==
  LET name == Previous(q)
  IN  Assignable(q, can_assign, <<name>>, <<name>>, <<"set", name>>)

dot(q, can_assign) ==
  LET named == consume(q, Identifier)
      name == Previous(named)
  IN  IF ~(can_assign /\ check(named, {"=", "+="})) /\ check(named, {"("})
      THEN emit(argument_list(advance(named)), <<"invoke", name>>)
      ELSE Assignable(named, can_assign, <<"get", name>>, <<"get no pop", name>>, <<"put", name>>)

super_(q) ==
  LET begun == IF q.classes = <<>> \/ ~Last(q.classes) THEN error(q) ELSE q
      named == consume(consume(begun, {"."}), Identifier)
      name == Previous(named)
      self == emit(named, <<"self">>)
  IN  IF check(self, {"("})
      THEN emit(argument_list(advance(self)), <<"super", "super invoke", name>>)
      ELSE emit(self, <<"super", "get super", name>>)

self_(q) == IF q.classes = <<>> THEN error(q) ELSE emit(q, <<"self">>)

unary(q) == emit(parse_precedence(q, PREC_UNARY), <<IF Previous(q) = "-" THEN "negate" ELSE "!">>)
binary(q) == emit(parse_precedence(q, operand(Previous(q))), <<Previous(q)>>)

HasPrefix(t) == t \in Identifier \cup Literal \cup {"(", "[", "-", "!", "super", "self"}

prefix(q, can_assign) ==
  LET t == Previous(q)
  IN  CASE t \in Identifier  -> named_variable(q, can_assign)
        [] t \in Literal     -> emit(q, <<t>>)
        [] t = "("           -> grouping(q)
        [] t = "["           -> array(q)
        [] t \in {"-", "!"}  -> unary(q)
        [] t = "super"       -> super_(q)
        [] t = "self"        -> self_(q)

infix(q, can_assign) ==
  LET t == Previous(q)
  IN  CASE t = "(" -> call(q) [] t = "[" -> slice(q) [] t = "." -> dot(q, can_assign)
        [] OTHER -> binary(q)

RECURSIVE infixes(_, _, _)
infixes(q, precedence, can_assign) ==
  IF precedence <= Precedence(symbols[q.current])
  THEN infixes(infix(advance(q), can_assign), precedence, can_assign)
  ELSE q

Unassigned(q, can_assign) == IF can_assign /\ check(q, {"="}) THEN error(advance(q)) ELSE q

Operand(q, precedence, can_assign) ==
  IF HasPrefix(Previous(q))
  THEN Unassigned(infixes(prefix(q, can_assign), precedence, can_assign), can_assign)
  ELSE error(q)

parse_precedence(q, precedence) == Operand(advance(q), precedence, precedence <= PREC_ASSIGNMENT)
-----------------------------------------------------------------------------
RECURSIVE declaration(_)
RECURSIVE statement(_)
RECURSIVE block_rest(_)

begin_scope(q) == [q EXCEPT !.compilers[Len(q.compilers)].scope_depth = @ + 1]
end_scope(q) == [q EXCEPT !.compilers[Len(q.compilers)].scope_depth = @ - 1]
start_loop(q) == [q EXCEPT !.compilers[Len(q.compilers)].loops = @ + 1]
end_loop(q) == [q EXCEPT !.compilers[Len(q.compilers)].loops = @ - 1]

block_rest(q) ==
  IF check(q, {"}", "eof"}) THEN q ELSE block_rest(declaration(q))
block(q) == consume(block_rest(q), {"}"})

RECURSIVE parameters(_)
parameters_rest(q) == IF check(q, {","}) THEN parameters(advance(q)) ELSE q
parameters(q) == parameters_rest(consume(q, Identifier))

Parameters(q) == consume(IF check(q, {")"}) THEN q ELSE parameters(q), {")"})

init_compiler(q, type) ==
  [q EXCEPT !.compilers = Append(@, [type |-> type, loops |-> 0, scope_depth |-> 1])]
end_compiler(q) == [q EXCEPT !.compilers = Front(@)]

function(q, type) ==
  end_compiler(block(consume(Parameters(consume(init_compiler(q, type), {"("})), {"{"})))

RECURSIVE methods(_)
method(named) == function(named, IF Previous(named) = "init" THEN "initializer" ELSE "method")
methods(q) ==
  IF check(q, {"}", "eof"}) THEN q
  ELSE methods(method(consume(consume(q, {"def"}), Identifier)))

(* The name of the superclass, which is not that of the class.             *)
superclass(q, name) == IF Previous(q) = name THEN error(q) ELSE q

class_body(q, inherits) ==
  consume(methods(consume([q EXCEPT !.classes = Append(@, inherits)], {"{"})), {"}"})
leave_class(q) == [q EXCEPT !.classes = Front(@)]

(* Mutant: a class with a superclass forgets to leave its scope.           *)
class_named_open(q) ==
  leave_class(
    IF check(q, {"<"})
    THEN class_body(begin_scope(superclass(consume(advance(q), Identifier), Previous(q))), TRUE)
    ELSE class_body(q, FALSE))

class_named(q) ==
  leave_class(
    IF check(q, {"<"})
    THEN end_scope(
           class_body(begin_scope(superclass(consume(advance(q), Identifier), Previous(q))), TRUE))
    ELSE class_body(q, FALSE))

class_declaration(q) == class_named(consume(q, Identifier))

fun_declaration(q) == function(consume(q, Identifier), "function")

Initial(q) == IF check(q, {"="}) THEN expression(advance(q)) ELSE q
var_declaration(q) == consume(Initial(consume(q, Identifier)), {";"})

expression_statement(q) == consume(expression(q), {";"})

(* The parentheses after if, while and switch.                             *)
Condition(q) ==
  IF check(q, {"("}) THEN consume(expression(advance(q)), {")"}) ELSE expression(q)

for_init(q) ==
  IF check(q, {";"}) THEN advance(q)
  ELSE IF check(q, {"var"}) THEN var_declaration(advance(q)) ELSE expression_statement(q)

for_test(q) == IF check(q, {";"}) THEN advance(q) ELSE expression_statement(q)

for_increment(q, params) ==
  IF check(q, {")"}) THEN advance(q)
  ELSE IF params THEN consume(expression(q), {")"}) ELSE expression(q)

for_clauses(q, params) == for_increment(for_test(start_loop(for_init(q))), params)

for_head(q) ==
  IF check(q, {"("}) THEN for_clauses(advance(q), TRUE) ELSE for_clauses(q, FALSE)

for_statement(q) == end_scope(end_loop(statement(for_head(begin_scope(q)))))

while_statement(q) == end_loop(statement(Condition(start_loop(q))))

else_branch(q) == IF check(q, {"else"}) THEN statement(advance(q)) ELSE q
if_statement(q) == else_branch(statement(Condition(q)))

ternarty_statement(q) == statement(consume(statement(q), {":"}))

RECURSIVE cases(_)
cases(q) ==
  IF check(q, {"case"}) THEN cases(statement(consume(expression(advance(q)), {":"}))) ELSE q

Default(q) == IF check(q, {"default"}) THEN statement(consume(advance(q), {":"})) ELSE q
First(q) == IF check(q, {"case"}) THEN q ELSE error_at_current(q)

switch_statement(q) == consume(Default(cases(First(consume(Condition(q), {"{"})))), {"}"})

Returned(q) ==
  IF check(q, {";"}) THEN advance(q)
  ELSE expression_statement(IF current_compiler(q).type = "initializer" THEN error(q) ELSE q)

return_statement(q) == Returned(IF current_compiler(q).type = "script" THEN error(q) ELSE q)

(* break and next.                                                         *)
leave_statement(q) == IF current_compiler(q).loops = 0 THEN error(q) ELSE consume(q, {";"})

Statement(q, next, t) ==
  CASE t \in {"next", "break"} -> leave_statement(next)
    [] t = "print"  -> expression_statement(next)
    [] t = "for"    -> for_statement(next)
    [] t = "if"     -> if_statement(next)
    [] t = "return" -> return_statement(next)
    [] t = "while"  -> while_statement(next)
    [] t = "{"      -> end_scope(block(begin_scope(next)))
    [] t = "?"      -> ternarty_statement(next)
    [] t = "switch" -> switch_statement(next)
    [] OTHER        -> expression_statement(q)

statement(q) == Statement(q, advance(q), symbols[q.current])

Starters == {"eof", "class", "fun", "var", "for", "if", "while", "print", "return"}

(* Mutant: the end of a statement is passed over, too.                     *)
Synchronized_starter(q) == check(q, Starters)

Synchronized(q) == check(q, Starters) \/ Previous(q) = ";"

RECURSIVE synchronize_from(_)
synchronize_from(q) == IF Synchronized(q) THEN q ELSE synchronize_from(advance(q))

synchronize(q) == synchronize_from([q EXCEPT !.panic_mode = FALSE])

Recovered(q) == IF q.panic_mode THEN synchronize(q) ELSE q

(* Mutant: var is not passed.                                              *)
Declared_stays(q, next, t) ==
  CASE t = "class" -> class_declaration(next)
    [] t = "fun"   -> fun_declaration(next)
    [] t = "const" -> var_declaration(next)
    [] t = "var"   -> error_at_current(q)
    [] OTHER       -> statement(q)

Declared(q, next, t) ==
  CASE t = "class" -> class_declaration(next)
    [] t = "fun"   -> fun_declaration(next)
    [] t \in {"var", "const"} -> var_declaration(next)
    [] OTHER       -> statement(q)

declaration(q) == Recovered(Declared(q, advance(q), symbols[q.current]))
-----------------------------------------------------------------------------
(* compile.                                                                *)

Init ==
  /\ text \in {[tokens |-> t.tokens, means |-> t.means, wrong |-> FirstWrong(t.tokens)] : t \in Texts}
  /\ p = advance(Parser)
  /\ done = FALSE

Declare ==
  /\ ~done /\ ~check(p, {"eof"})
  /\ p' = declaration(p) /\ UNCHANGED <<text, done>>

Finish ==
  /\ ~done /\ check(p, {"eof"})
  /\ p' = advance(p) /\ done' = TRUE /\ UNCHANGED text

Parse == Declare \/ Finish

ParserSpec == Init /\ [][Parse]_parsing
-----------------------------------------------------------------------------
had_error == p.reports # <<>>

(* The types; a token in error is neither current nor previous.           *)
ParserOK ==
  /\ p.current \in 1 .. Len(symbols) /\ p.previous \in 0 .. p.current
  /\ symbols[p.current] # "error" /\ (p.previous > 0 => symbols[p.previous] # "error")
  /\ \A k \in DOMAIN p.reports : p.reports[k] \in 1 .. Len(symbols)

(* Where the error is reported: at the wrong token, or at the bracket of an*)
(* empty index, or the return of an initializer's value; and a token in    *)
(* error just after the wrong one is scanned before that is looked at.     *)
ReportsOf(wrong) ==
  {wrong} \cup {k \in {wrong - 1} \cap DOMAIN symbols : symbols[k] \in {"[", "return"}}
          \cup {k \in {wrong + 1} \cap DOMAIN symbols : symbols[k] = "error"}

(* A text is compiled without an error exactly if it is a program, and the *)
(* first report of any other is at the first token that no program has     *)
(* there.                                                                  *)
FirstReportIsRight ==
  done => IF text.wrong > Len(symbols) THEN ~had_error
          ELSE had_error /\ p.reports[1] \in ReportsOf(text.wrong)

(* Where synchronize() lets the parser go on; and where it does after the  *)
(* wrong token of a statement: the next such place, or the one after it, if*)
(* that is just behind a ';' which was taken for an operand.               *)
Resumes(k) == symbols[k] \in Starters \/ (k > 1 /\ symbols[k - 1] = ";")

Resumptions(wrong) ==
  {k \in wrong .. Len(symbols) : Resumes(k) /\ \A l \in wrong + 2 .. k - 1 : ~Resumes(l)}

RECURSIVE ReportsFollow(_, _, _)
(* The reports from number n on are those of the text from place k on, read*)
(* by the grammar in these configurations.  After an error in a statement  *)
(* without a body it is read on from a resumption, as if the statement had *)
(* ended there.  After others, and at the end of the text, where each block*)
(* that is open may be reported, nothing more is said.                     *)
ReportsFollow(n, k, now) ==
  LET r == Reading(symbols, k, now)
  IN  IF r.wrong > Len(symbols) THEN n > Len(p.reports)
      ELSE /\ n <= Len(p.reports) /\ p.reports[n] \in ReportsOf(r.wrong)
           /\ IF symbols[r.wrong] = "eof"
              THEN \A m \in n + 1 .. Len(p.reports) : p.reports[m] = r.wrong
              ELSE \/ \E c \in r.before : ~InStatement(c)
                   \/ \E m \in Resumptions(r.wrong) :
                        ReportsFollow(n + 1, m, {GivenUp(c) : c \in r.before})

(* After an error in a statement without a body, panic mode hides exactly  *)
(* what it should: every later report is the first error of what follows   *)
(* the place where the parser went on, in the blocks that are open, and no *)
(* such error goes unreported.  (The head of a function, of a class or of a*)
(* loop is different: block() and statement() go on into the body as if the*)
(* head had been right, and may report errors that this one caused, as in  *)
(* class y { x } x ; where the class has no end.  Then, and where the      *)
(* scanner reports errors, reports are only in the order of the text, with *)
(* a place to go on between two that the parser makes.)                    *)
LaterReportsAreRight ==
  /\ ParserOK
  /\ \A k \in 2 .. Len(p.reports) :
       /\ p.reports[k - 1] <= p.reports[k]
       /\ \/ symbols[p.reports[k]] = "error"
          \/ \E m \in p.reports[k - 1] .. p.reports[k] : Resumes(m)
  /\ done => "error" \in Range(symbols) \/ ReportsFollow(1, 1, Start)

(* Whatever errors a declaration has, the compiler has left the functions, *)
(* classes, scopes and loops in it, and panic mode, unless a token in error*)
(* came after it.                                                          *)
DeclarationsAreClosed ==
  /\ p.classes = Parser.classes /\ p.compilers = Parser.compilers
  /\ p.panic_mode => symbols[Last(p.reports)] = "error"

(* An expression becomes the code of its tree.                             *)
ExpressionsAreTrees == done /\ text.means # <<>> => p.code = text.means

(* compile() comes to an end: every declaration, with synchronizing, passes*)
(* a token of the text at least.                                           *)
DeclarationsPassTokens == [][~done /\ ~done' => p'.current > p.current]_parsing
=============================================================================
