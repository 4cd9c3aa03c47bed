---------------------------- MODULE MCValpFrontEnd ----------------------------
(* A TLC instance of ValpFrontEnd.  Given as tokens: texts that are programs up to some token,  *)
(* with every token of a group there, and expressions written from trees.  *)
EXTENDS ValpFrontEnd

CONSTANTS MaxTokens, Depth, MaxLength

(* What follows: nothing, the end of a statement, or of a block, or, where *)
(* there is room for it, further statements, three of them wrong.          *)
Tails(room) ==
  {<<>>, <<";">>, <<"}", "x", ";">>}
    \cup IF room THEN {<<";", "x", ")", ";", "x", "x", "while", "x", "}">>} ELSE {}

(* After a text, at most n tokens of a group as in a program, and then any.*)
Perturbed(given, n, Group) ==
  UNION {{[tokens |-> b.tokens \o <<t>> \o tail \o <<"eof">>, means |-> <<>>] :
            b \in Beginnings(given, m, Group), t \in Group \cup {"error"}, tail \in Tails(m < n)} :
           m \in 0 .. n}

Expressions == {"x", "1", ";", "=", "+=", "+", "-", "(", ")", ".", "[", "]"}
Loops == {"x", ";", "for", "while", "break", "(", ")", "{", "}", "var"}
Branches == {"x", ";", "if", "else", "?", ":", "{", "}", "next"}
Switches == {"x", ";", ":", "case", "default", "}"}
Functions == {"x", ",", "(", ")", "{", "}", ";", "fun", "return"}
Classes == {"x", "<", "init", "def", "(", ")", "{", "}", ";"}
Methods == {"x", "return", "self", "super", ".", "init", ";", "}"}

Wrong ==
  Perturbed(<<>>, MaxTokens, Expressions)
    \cup Perturbed(<<>>, MaxTokens, Loops)
    \cup Perturbed(<<"for", "(", ";", "x", ";">>, MaxTokens, Loops)
    \cup Perturbed(<<"while", "x">>, MaxTokens - 1, Branches)
    \cup Perturbed(<<"while", "x", "if", "(", "x", ")", "x", ";">>, MaxTokens, Branches)
    \cup Perturbed(<<"switch", "x", "{", "case">>, MaxTokens, Switches)
    \cup Perturbed(<<"fun", "x">>, MaxTokens, Functions)
    \cup Perturbed(<<"fun", "x", "(", ")", "{">>, MaxTokens, Functions)
    \cup Perturbed(<<"class", "y">>, MaxTokens, Classes)
    \cup UNION {Perturbed(<<"class", "y">> \o above \o <<"{", "def", name, "(", ")", "{">>, MaxTokens - 1, Methods) :
                  above \in {<<>>, <<"<", "x">>}, name \in {"init", "x"}}

(* An expression: its tokens, its code and how close its outermost         *)
(* operator binds.                                                         *)
Made(t, m, b) == [tokens |-> t, means |-> m, binds |-> b]
Within(e, level) == IF e.binds >= level THEN e.tokens ELSE <<"(">> \o e.tokens \o <<")">>

Binds == [or |-> 1, and |-> 2] @@ ("==" :> 3) @@ ("<" :> 4) @@ ("+" :> 5) @@ ("-" :> 5) @@ ("*" :> 6)
Right(op) == IF op \in {"or", "and"} THEN 0 ELSE 1

Infix(op, a, b) ==
  Made(Within(a, Binds[op] + 1 - Right(op)) \o <<op>> \o Within(b, Binds[op] + Right(op)),
       a.means \o b.means \o <<op>>, Binds[op])
Unary(op, code, a) == Made(<<op>> \o Within(a, 7), a.means \o <<code>>, 7)
Field(a) == Made(Within(a, 8) \o <<".", "y">>, a.means \o <<"get", "y">>, 8)
Index(a, b) == Made(Within(a, 8) \o <<"[">> \o b.tokens \o <<"]">>, a.means \o b.means \o <<"slice">>, 9)
Call(a, b) == Made(Within(a, 9) \o <<"(">> \o b.tokens \o <<")">>, a.means \o b.means \o <<"call">>, 9)
Invoke(a, b) ==
  Made(Within(a, 8) \o <<".", "y", "(">> \o b.tokens \o <<")">>, a.means \o b.means \o <<"invoke", "y">>, 9)
Assign(a) == Made(<<"y", "=">> \o a.tokens, a.means \o <<"set", "y">>, 0)
Increase(a) == Made(<<"y", "+=">> \o a.tokens, <<"y">> \o a.means \o <<"+", "set", "y">>, 0)
Put(a, b) == Made(Within(a, 8) \o <<".", "y", "=">> \o b.tokens, a.means \o b.means \o <<"put", "y">>, 0)
Enlarge(a, b) ==
  Made(Within(a, 8) \o <<".", "y", "+=">> \o b.tokens,
       a.means \o <<"get no pop", "y">> \o b.means \o <<"+", "put", "y">>, 0)

RECURSIVE Trees(_)
Trees(depth) ==
  IF depth = 0 THEN {Made(<<"x">>, <<"x">>, 10)}
  ELSE LET E == Trees(depth - 1)
       IN  E \cup {Infix(op, a, b) : op \in DOMAIN Binds, a \in E, b \in E}
             \cup {Unary("-", "negate", a) : a \in E} \cup {Unary("!", "!", a) : a \in E}
             \cup {Field(a) : a \in E} \cup {Assign(a) : a \in E} \cup {Increase(a) : a \in E}
             \cup UNION {{Index(a, b), Call(a, b), Invoke(a, b), Put(a, b), Enlarge(a, b)} :
                           a \in E, b \in E}

Written == {[tokens |-> e.tokens \o <<";", "eof">>, means |-> e.means] : e \in Trees(Depth)}

MCTexts == Wrong \cup Written

-----------------------------------------------------------------------------
(* Sources: every short one over a character of each kind, and every       *)
(* keyword with a letter cut, added or replaced.                           *)
MCLetters == {"a","b","c","d","e","f","h","i","k","l","n","o","p","r","s","t","u","v","w","x","y"}
MCDigits == {"1"}
MCOther == {"#"}

Alphabet == {"a", "1", ".", "\"", "/", "=", "NL", "#"}
Short == UNION {[1 .. n -> Alphabet] : n \in 0 .. MaxLength}

Keyword ==
  [and |-> <<"a","n","d">>, break |-> <<"b","r","e","a","k">>,
   case |-> <<"c","a","s","e">>, class |-> <<"c","l","a","s","s">>,
   const |-> <<"c","o","n","s","t">>, def |-> <<"d","e","f">>,
   default |-> <<"d","e","f","a","u","l","t">>, else |-> <<"e","l","s","e">>,
   false |-> <<"f","a","l","s","e">>, for |-> <<"f","o","r">>, fun |-> <<"f","u","n">>,
   if |-> <<"i","f">>, next |-> <<"n","e","x","t">>, nil |-> <<"n","i","l">>,
   or |-> <<"o","r">>, print |-> <<"p","r","i","n","t">>,
   return |-> <<"r","e","t","u","r","n">>, self |-> <<"s","e","l","f">>,
   super |-> <<"s","u","p","e","r">>, switch |-> <<"s","w","i","t","c","h">>,
   true |-> <<"t","r","u","e">>, var |-> <<"v","a","r">>, while |-> <<"w","h","i","l","e">>]

Cut(w) == {SubSeq(w, 1, n) : n \in 1 .. Len(w)}
Extended(w) == {Append(w, c) : c \in {"s", "1", "t"}}
Replaced(w) == {[w EXCEPT ![i] = c] : i \in DOMAIN w, c \in {"x", "e", "a"}}
Words == UNION {Cut(w) \cup Extended(w) \cup Replaced(w) : w \in Range(Keyword)}

Spaced == { <<"a">> \o s \o <<"a">> : s \in [1 .. 3 -> {" ", "\t", "NL", "/"}] }
          \cup { <<"!", "=">>, <<"1", ".", "1", ".", "1">>, <<"[", "]">>, <<"<", "=", "=">>, <<"\r", ";">> }

(* And some of the texts, spelled.                                         *)
Spelling ==
  Keyword @@ [init |-> <<"i","n","i","t">>, error |-> <<"#">>, eof |-> <<>>] @@ ("+=" :> <<"+", "=">>)
Spelled(token) == IF token \in DOMAIN Spelling THEN Spelling[token] ELSE <<token>>

Programs ==
  UNION {Perturbed(<<>>, 1, Expressions), Perturbed(<<>>, 1, Loops),
         Perturbed(<<"class", "y">>, 2, Classes)}
SpelledSource(tokens_) ==
  LET upto[n \in 0 .. Len(tokens_)] ==
        IF n = 0 THEN <<>> ELSE upto[n - 1] \o Spelled(tokens_[n]) \o <<" ">>
  IN  upto[Len(tokens_)]

ASSUME ScannerAssumption

MCSources == Short \cup Words \cup Spaced \cup {SpelledSource(t.tokens) : t \in Programs}
=============================================================================
