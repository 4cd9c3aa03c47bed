--------------------------- MODULE ValpFrontEnd ---------------------------
(***************************************************************************)
(* compile() of valp_compiler.c from the characters of a source on: the    *)
(* scanner (ValpScanner) and the parser over it (ValpParser).  The code    *)
(* scans a token when the parser advances; the scanner has no other caller *)
(* and the parser shares nothing else with it, so that here all tokens are *)
(* scanned first.  Texts, given as tokens, are parsed without a source.    *)
(***************************************************************************)
EXTENDS ValpScanner, ValpParser, TLC

VARIABLE compiling \* whether init_scanner's source is being compiled

allvars == <<vars, parsing, compiling>>

Word ==
  [AND |-> "and", BREAK |-> "break", CLASS |-> "class", CONST |-> "const",
   DEFAULT |-> "default", FOR |-> "for", FUN |-> "fun",
   NEXT |-> "next", OR |-> "or", PRINT |-> "print", RETURN |-> "return",
   SUPER |-> "super", SELF |-> "self", SWITCH |-> "switch", VAR |-> "var", WHILE |-> "while",
   EOF |-> "eof", ERROR |-> "error"]
    @@ ("CASE" :> "case") @@ ("DEF" :> "def") @@ ("ELSE" :> "else") @@ ("IF" :> "if")

(* The symbol of ValpParser for a token: those get_rule gives the same     *)
(* rule are one.                                                           *)
Symbol(t) ==
  LET lexeme == TokenText(t)
      kind == t.type
  IN  CASE kind = "IDENTIFIER" -> IF lexeme = <<"y">> THEN "y"
                                  ELSE IF lexeme = <<"i", "n", "i", "t">> THEN "init" ELSE "x"
        [] kind \in {"NUMBER", "STRING"}       -> "1"
        [] kind \in {"TRUE", "FALSE", "NIL"}   -> "true"
        [] kind \in {"-=", "+=", "/=", "*="}   -> "+="
        [] kind \in {"<", ">", "<=", ">="}     -> "<"
        [] kind = "!="                         -> "=="
        [] kind = "/"                          -> "*"
        [] kind \in DOMAIN Word                -> Word[kind]
        [] OTHER                               -> kind

Compiled(tokens_) == [tokens |-> tokens_, means |-> <<>>, wrong |-> FirstWrong(tokens_)]

(* compile() begins: init_scanner, or tokens that are there already.       *)
CompileInit ==
  \/ /\ init_scanner
     /\ text = Compiled(<<"eof">>) /\ p = advance(Parser) /\ done = TRUE
     /\ compiling = FALSE
  \/ /\ Init
     /\ source = <<>> /\ start = 1 /\ current = 1 /\ line = 1 /\ pc = "done"
     /\ tokens = <<>> /\ compiling = TRUE

Scan == Next /\ UNCHANGED <<parsing, compiling>>

HandOver ==
  /\ pc = "done" /\ ~compiling
  /\ compiling' = TRUE
  /\ text' = Compiled([i \in DOMAIN tokens |-> Symbol(tokens[i])])
  /\ p' = advance(Parser)' /\ done' = FALSE
  /\ UNCHANGED vars

Go == compiling /\ Parse /\ UNCHANGED <<vars, compiling>>

CompileNext == Scan \/ HandOver \/ Go

CompileSpec == CompileInit /\ [][CompileNext]_allvars /\ WF_allvars(Scan)
=============================================================================
