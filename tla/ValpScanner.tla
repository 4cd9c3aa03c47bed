---------------------------- MODULE ValpScanner ----------------------------
(***************************************************************************)
(* The scanner of valp_scanner.c: scan_token, called until the end of the  *)
(* source.  Each turn of a loop that moves scanner.current by a character  *)
(* is a step, and pc names the loop.                                       *)
(*                                                                         *)
(* A source is a sequence of characters without the NUL that ends it.      *)
(* Characters are strings; NL is the newline.                              *)
(***************************************************************************)
EXTENDS Integers, Sequences, FiniteSets

CONSTANTS
  Sources,  \* the sources to scan
  Letters,  \* what is_alpha takes: letters and _
  Digits,   \* what is_digit takes
  Other     \* characters no token starts with

Single == {"(", ")", "{", "}", "[", "]", ";", ",", ".", "?", ":"}
MaybeEqual == {"-", "+", "/", "*", "!", "=", "<", ">"}
WithEqual == [c \in MaybeEqual |->
  CASE c = "-" -> "-=" [] c = "+" -> "+=" [] c = "/" -> "/=" [] c = "*" -> "*="
    [] c = "!" -> "!=" [] c = "=" -> "==" [] c = "<" -> "<=" [] c = ">" -> ">="]
White == {" ", "\r", "\t", "NL"}
Quote == {"\""}
NUL == "NUL"

ScannerAssumption ==
  /\ Sources \subseteq Seq(Letters \cup Digits \cup Other \cup Single \cup MaybeEqual \cup White \cup Quote)
  /\ NUL \notin Letters \cup Digits \cup Other
  /\ LET kinds == <<Letters, Digits, Other, Single \cup MaybeEqual \cup White \cup Quote>>
     IN  \A k, l \in 1 .. 4 : k # l => kinds[k] \cap kinds[l] = {}

VARIABLES
  source,
  start, current,  \* scanner.start and scanner.current, 1 the first character
  line,            \* scanner.line
  pc,              \* the loop scan_token is in
  tokens           \* the tokens returned; an error token keeps its text

vars == <<source, start, current, line, pc, tokens>>

init_scanner ==
  /\ source \in Sources
  /\ start = 1 /\ current = 1 /\ line = 1
  /\ pc = "skip" /\ tokens = <<>>
-----------------------------------------------------------------------------
At(i) == IF i \in DOMAIN source THEN source[i] ELSE NUL
peek == At(current)
peek_next == IF peek = NUL THEN NUL ELSE At(current + 1)
is_alpha(c) == c \in Letters
is_digit(c) == c \in Digits

advance_current ==
  /\ current' = current + 1
  /\ line' = IF peek = "NL" THEN line + 1 ELSE line

(* The text from scanner.start up to scanner.current is a token.           *)
make_token(type) ==
  /\ tokens' = Append(tokens, [type |-> type, start |-> start',
                               length |-> current' - start', line |-> line'])
  /\ pc' = IF type = "EOF" THEN "done" ELSE "skip"
-----------------------------------------------------------------------------
(* Mutant: "/" alone starts a comment.                                     *)
CommentStarts_single == peek = "/"

CommentStarts == peek = "/" /\ peek_next = "/"

skip_whitespace ==
  /\ pc = "skip"
  /\ \/ peek \in White /\ advance_current /\ pc' = "skip"
     \/ CommentStarts /\ pc' = "comment" /\ UNCHANGED <<current, line>>
  /\ UNCHANGED <<source, start, tokens>>

(* Mutant: a comment ends with its line only.                              *)
skip_comment_newline ==
  /\ pc = "comment"
  /\ IF peek \notin {"NL", NUL}
     THEN advance_current /\ UNCHANGED pc
     ELSE peek = "NL" /\ pc' = "skip" /\ UNCHANGED <<current, line>>
  /\ UNCHANGED <<source, start, tokens>>

skip_comment ==
  /\ pc = "comment"
  /\ IF peek \notin {"NL", NUL}
     THEN advance_current /\ UNCHANGED pc
     ELSE pc' = "skip" /\ UNCHANGED <<current, line>>
  /\ UNCHANGED <<source, start, tokens>>

(* scan_token after skip_whitespace, with the calls that need no loop.     *)
scan_token ==
  /\ pc = "skip" /\ peek \notin White /\ ~CommentStarts
  /\ start' = current
  /\ IF peek = NUL
     THEN UNCHANGED <<current, line>> /\ make_token("EOF")
     ELSE \/ /\ is_alpha(peek) \/ is_digit(peek) \/ peek \in Quote
             /\ advance_current
             /\ pc' = IF is_alpha(peek) THEN "identifier"
                      ELSE IF is_digit(peek) THEN "number" ELSE "string"
             /\ UNCHANGED tokens
          \/ peek \in Single /\ advance_current /\ make_token(peek)
          \/ /\ peek \in MaybeEqual
             /\ IF peek_next = "="
                THEN /\ current' = current + 2 /\ UNCHANGED line
                     /\ make_token(WithEqual[peek])
                ELSE advance_current /\ make_token(peek)
          \/ peek \in Other /\ advance_current /\ make_token("ERROR")
  /\ UNCHANGED source
-----------------------------------------------------------------------------
Text(i, j) == SubSeq(source, i, j - 1)
Lexeme == Text(start, current)

check_keyword(n, rest, type) ==
  IF Len(Lexeme) = n + Len(rest) /\ SubSeq(Lexeme, n + 1, n + Len(rest)) = rest
  THEN type ELSE "IDENTIFIER"

identifier_type ==
  LET first == Lexeme[1]
      second == IF Len(Lexeme) > 1 THEN Lexeme[2] ELSE NUL
      c(a, b) == first = a /\ second = b
  IN  CASE first = "a" -> check_keyword(1, <<"n", "d">>, "AND")
        [] first = "b" -> check_keyword(1, <<"r", "e", "a", "k">>, "BREAK")
        [] c("c", "l") -> check_keyword(2, <<"a", "s", "s">>, "CLASS")
        [] c("c", "a") -> check_keyword(2, <<"s", "e">>, "CASE")
        [] c("c", "o") -> check_keyword(2, <<"n", "s", "t">>, "CONST")
        [] first = "d" -> IF Len(Lexeme) > 3
                          THEN check_keyword(1, <<"e", "f", "a", "u", "l", "t">>, "DEFAULT")
                          ELSE check_keyword(1, <<"e", "f">>, "DEF")
        [] first = "e" -> check_keyword(1, <<"l", "s", "e">>, "ELSE")
        [] c("f", "a") -> check_keyword(2, <<"l", "s", "e">>, "FALSE")
        [] c("f", "o") -> check_keyword(2, <<"r">>, "FOR")
        [] c("f", "u") -> check_keyword(2, <<"n">>, "FUN")
        [] first = "i" -> check_keyword(1, <<"f">>, "IF")
        [] c("n", "i") -> check_keyword(2, <<"l">>, "NIL")
        [] c("n", "e") -> check_keyword(2, <<"x", "t">>, "NEXT")
        [] first = "o" -> check_keyword(1, <<"r">>, "OR")
        [] first = "p" -> check_keyword(1, <<"r", "i", "n", "t">>, "PRINT")
        [] first = "r" -> check_keyword(1, <<"e", "t", "u", "r", "n">>, "RETURN")
        [] c("s", "u") -> check_keyword(2, <<"p", "e", "r">>, "SUPER")
        [] c("s", "e") -> check_keyword(2, <<"l", "f">>, "SELF")
        [] c("s", "w") -> check_keyword(2, <<"i", "t", "c", "h">>, "SWITCH")
        [] first = "t" -> check_keyword(1, <<"r", "u", "e">>, "TRUE")
        [] first = "v" -> check_keyword(1, <<"a", "r">>, "VAR")
        [] first = "w" -> check_keyword(1, <<"h", "i", "l", "e">>, "WHILE")
        [] OTHER -> "IDENTIFIER"

identifier ==
  /\ pc = "identifier"
  /\ UNCHANGED <<source, start>>
  /\ IF is_alpha(peek) \/ is_digit(peek)
     THEN advance_current /\ UNCHANGED <<pc, tokens>>
     ELSE UNCHANGED <<current, line>> /\ make_token(identifier_type)

number ==
  /\ pc = "number"
  /\ UNCHANGED <<source, start>>
  /\ IF is_digit(peek) THEN advance_current /\ UNCHANGED <<pc, tokens>>
     ELSE IF peek = "." /\ is_digit(peek_next)
     THEN advance_current /\ pc' = "fraction" /\ UNCHANGED tokens
     ELSE UNCHANGED <<current, line>> /\ make_token("NUMBER")

(* Mutant: a second point may follow.                                      *)
fraction_again ==
  /\ pc = "fraction"
  /\ UNCHANGED <<source, start>>
  /\ IF is_digit(peek) \/ (peek = "." /\ is_digit(peek_next))
     THEN advance_current /\ UNCHANGED <<pc, tokens>>
     ELSE UNCHANGED <<current, line>> /\ make_token("NUMBER")

(* number, in its second loop.                                             *)
fraction ==
  /\ pc = "fraction"
  /\ UNCHANGED <<source, start>>
  /\ IF is_digit(peek) THEN advance_current /\ UNCHANGED <<pc, tokens>>
                       ELSE UNCHANGED <<current, line>> /\ make_token("NUMBER")

string ==
  /\ pc = "string"
  /\ UNCHANGED <<source, start>>
  /\ IF peek \notin Quote \cup {NUL}
     THEN advance_current /\ UNCHANGED <<pc, tokens>>
     ELSE IF peek = NUL
     THEN UNCHANGED <<current, line>> /\ make_token("ERROR")
     ELSE advance_current /\ make_token("STRING")

Next == \/ skip_whitespace \/ skip_comment \/ scan_token
        \/ identifier \/ number \/ fraction \/ string

Spec == init_scanner /\ [][Next]_vars
FairSpec == Spec /\ WF_vars(Next)
-----------------------------------------------------------------------------
(* The lexical grammar, and the words it keeps.                            *)
AllIn(s, S) == \A i \in DOMAIN s : s[i] \in S

IsWord(s) == s # <<>> /\ s[1] \in Letters /\ AllIn(s, Letters \cup Digits)
IsNumber(s) ==
  /\ s # <<>> /\ AllIn(s, Digits \cup {"."})
  /\ \A i, j \in DOMAIN s : s[i] = "." => i \in 2 .. Len(s) - 1 /\ (s[j] = "." => i = j)
IsString(s) == Len(s) >= 2 /\ {i \in DOMAIN s : s[i] \in Quote} = {1, Len(s)}
IsOperator(s) == \/ Len(s) = 1 /\ s[1] \in Single \cup MaybeEqual
                 \/ Len(s) = 2 /\ s[1] \in MaybeEqual /\ s[2] = "="
IsLexeme(s) == IsWord(s) \/ IsNumber(s) \/ IsString(s) \/ IsOperator(s)

Keywords ==
  { <<"a","n","d">>, <<"b","r","e","a","k">>, <<"c","a","s","e">>, <<"c","l","a","s","s">>,
    <<"c","o","n","s","t">>, <<"d","e","f">>, <<"d","e","f","a","u","l","t">>,
    <<"e","l","s","e">>, <<"f","a","l","s","e">>, <<"f","o","r">>, <<"f","u","n">>,
    <<"i","f">>, <<"n","e","x","t">>, <<"n","i","l">>, <<"o","r">>, <<"p","r","i","n","t">>,
    <<"r","e","t","u","r","n">>, <<"s","e","l","f">>, <<"s","u","p","e","r">>,
    <<"s","w","i","t","c","h">>, <<"t","r","u","e">>, <<"v","a","r">>, <<"w","h","i","l","e">> }

TokenText(t) == Text(t.start, t.start + t.length)
EndOf(n) == IF n = 0 THEN 1 ELSE tokens[n].start + tokens[n].length

(* A character between tokens is white or in a comment.                    *)
Skipped(i, from) ==
  \/ source[i] \in White
  \/ \E c \in from .. i : /\ At(c) = "/" /\ At(c + 1) = "/"
                          /\ \A k \in c .. i : source[k] # "NL"

Types == {"EOF", "ERROR", "IDENTIFIER", "NUMBER", "STRING", "AND", "BREAK", "CLASS",
          "CASE", "CONST", "DEFAULT", "DEF", "ELSE", "FALSE", "FOR", "FUN", "IF", "NIL",
          "NEXT", "OR", "PRINT", "RETURN", "SUPER", "SELF", "SWITCH", "TRUE", "VAR", "WHILE"}
         \cup Single \cup MaybeEqual \cup {WithEqual[c] : c \in MaybeEqual}

(* The types, and no character is read beyond the NUL.                     *)
TypeOK ==
  /\ start \in 1 .. current /\ current \in 1 .. Len(source) + 1
  /\ line \in 1 .. Len(source) + 1
  /\ pc \in {"skip", "comment", "identifier", "number", "fraction", "string", "done"}
  /\ tokens \in Seq([type : Types, start : Nat, length : Nat, line : Nat])

(* The line an error message names: that of the last character of the      *)
(* token, after strings of several lines and comments alike.               *)
LinesAreRight ==
  \A n \in DOMAIN tokens :
    tokens[n].line = 1 + Cardinality({i \in 1 .. EndOf(n) - 1 : source[i] = "NL"})

(* No character is lost and none is used twice: each token starts where    *)
(* the one before it ends, but for white space and comments; and its line  *)
(* is that of its end.                                                     *)
TokensTile ==
  /\ TypeOK
  /\ \A n \in DOMAIN tokens :
       /\ EndOf(n - 1) <= tokens[n].start /\ EndOf(n) <= current
       /\ tokens[n].length > 0 \/ tokens[n].type = "EOF"
       /\ \A i \in EndOf(n - 1) .. tokens[n].start - 1 : Skipped(i, EndOf(n - 1))
  /\ pc = "done" => EndOf(Len(tokens)) = Len(source) + 1
  /\ LinesAreRight

(* A word is a keyword if it is one of the list, letter by letter, and a   *)
(* name otherwise, however it starts.                                      *)
KeywordsAreExact ==
  \A n \in DOMAIN tokens :
    IsWord(TokenText(tokens[n])) =>
      (TokenText(tokens[n]) \notin Keywords <=> tokens[n].type = "IDENTIFIER")

(* A token is the longest that can be read where it starts; an error token *)
(* is where none can; and the words that are keywords are.                 *)
LongestToken ==
  /\ \A n \in DOMAIN tokens :
       LET t == tokens[n]
       IN  /\ t.type \notin {"ERROR", "EOF"} => IsLexeme(TokenText(t))
           /\ \A j \in t.start + 1 .. Len(source) + 1 :
                (j > EndOf(n) \/ t.type = "ERROR") => ~IsLexeme(Text(t.start, j))
  /\ KeywordsAreExact

(* The scanner comes to the end of every source, an open string or comment *)
(* at its end included.                                                    *)
ReachesTheEnd == <>(pc = "done")
=============================================================================
