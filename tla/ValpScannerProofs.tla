-------------------------- MODULE ValpScannerProofs --------------------------
(***************************************************************************)
(* Proofs about ValpScanner, for sources of any length over any letters    *)
(* and digits: the tokens tile the source, their lines are right, each is  *)
(* the longest that can be read, and the words that are keywords are.      *)
(***************************************************************************)
EXTENDS ValpScanner, FiniteSetTheorems, SequenceTheorems, TLAPS

Chars == Letters \cup Digits \cup Other \cup Single \cup MaybeEqual \cup White \cup Quote

Newlines(end) == {i \in 1 .. end - 1 : source[i] = "NL"}
LineAt(end) == 1 + Cardinality(Newlines(end))

Last == EndOf(Len(tokens))
SkippedTo(end) == Last <= end /\ \A i \in Last .. end - 1 : Skipped(i, Last)

(* A comment that goes on to end.                                          *)
CommentTo(end) ==
  \E c \in Last .. end : /\ At(c) = "/" /\ At(c + 1) = "/"
                         /\ \A k \in c .. end - 1 : source[k] # "NL"

Position ==
  /\ source \in Seq(Chars)
  /\ start \in 1 .. current /\ current \in 1 .. Len(source) + 1
  /\ line = LineAt(current)
  /\ pc \in {"skip", "comment", "identifier", "number", "fraction", "string", "done"}

(* A token lies where one may, after those before it.                      *)
Tiles(n) ==
  LET t == tokens[n]
  IN  /\ EndOf(n - 1) <= t.start /\ EndOf(n) <= current /\ t.start > 0
      /\ t.length > 0 \/ t.type = "EOF"
      /\ \A i \in EndOf(n - 1) .. t.start - 1 : Skipped(i, EndOf(n - 1))
      /\ t.line = LineAt(EndOf(n))

Tiled ==
  /\ tokens \in Seq([type : Types, start : Nat, length : Nat, line : Nat])
  /\ \A n \in DOMAIN tokens : Tiles(n)

(* What lies between the last token and the next character.                *)
Between ==
  /\ pc \in {"skip", "comment"} => SkippedTo(current)
  /\ pc = "comment" => CommentTo(current)
  /\ pc \in {"identifier", "number", "fraction", "string"} => SkippedTo(start) /\ start < current
  /\ pc = "done" => Last = Len(source) + 1

TInv == Position /\ Tiled /\ Between
-----------------------------------------------------------------------------
(* Lines.                                                                  *)
LEMMA CountIsNat ==
  ASSUME NEW end \in Nat \ {0}
  PROVE  /\ IsFiniteSet(Newlines(end)) /\ Cardinality(Newlines(end)) \in Nat
         /\ Cardinality(Newlines(end)) < end
<1>1. IsFiniteSet(1 .. end - 1) /\ Cardinality(1 .. end - 1) = end - 1
  BY FS_Interval
<1>2. Newlines(end) \in SUBSET (1 .. end - 1)
  BY DEF Newlines
<1>3. IsFiniteSet(Newlines(end)) /\ Cardinality(Newlines(end)) <= end - 1
  BY <1>1, <1>2, FS_Subset
<1>4. Cardinality(Newlines(end)) \in Nat
  BY <1>3, FS_CardinalityType
<1> QED BY <1>3, <1>4

LEMMA LineAdvances ==
  ASSUME NEW end \in Nat \ {0}
  PROVE  LineAt(end + 1) = IF source[end] = "NL" THEN LineAt(end) + 1 ELSE LineAt(end)
<1>1. IsFiniteSet(Newlines(end)) /\ Cardinality(Newlines(end)) \in Nat
  BY CountIsNat
<1>2. end \notin Newlines(end)
  BY DEF Newlines
<1>3. CASE source[end] = "NL"
  <2>1. Newlines(end + 1) = Newlines(end) \cup {end}
    BY <1>3 DEF Newlines
  <2>2. Cardinality(Newlines(end) \cup {end}) = Cardinality(Newlines(end)) + 1
    BY <1>1, <1>2, FS_AddElement
  <2>3. Cardinality(Newlines(end + 1)) = Cardinality(Newlines(end)) + 1
    BY <2>1, <2>2
  <2> HIDE DEF Newlines
  <2> QED BY <1>1, <1>3, <2>3 DEF LineAt
<1>4. CASE source[end] # "NL"
  <2>1. Newlines(end + 1) = Newlines(end)
    BY <1>4 DEF Newlines
  <2> QED BY <1>4, <2>1 DEF LineAt
<1> QED BY <1>3, <1>4

LEMMA LineIsNat ==
  ASSUME NEW end \in Nat \ {0}
  PROVE  LineAt(end) \in 1 .. end
BY CountIsNat DEF LineAt

(* The source does not change, and neither do its lines.                   *)
LEMMA SameLines ==
  ASSUME source' = source, NEW end
  PROVE  LineAt(end)' = LineAt(end)
BY DEF LineAt, Newlines

LEMMA Reads ==
  ASSUME ScannerAssumption, Position
  PROVE  /\ Len(source) \in Nat /\ DOMAIN source = 1 .. Len(source)
         /\ current \in Nat \ {0} /\ start \in Nat \ {0} /\ line \in Nat \ {0}
         /\ peek # NUL => current \in DOMAIN source /\ peek = source[current] /\ peek \in Chars
         /\ current \in DOMAIN source => peek # NUL
         /\ peek_next # NUL => peek # NUL
              /\ current + 1 \in DOMAIN source /\ peek_next = source[current + 1]
         /\ NUL \notin Chars
<1>1. source \in Seq(Chars) /\ Len(source) \in Nat /\ DOMAIN source = 1 .. Len(source)
  BY DEF Position
<1>2. NUL \notin Chars
  BY DEF ScannerAssumption, Chars, NUL, Single, MaybeEqual, White, Quote
<1>3. \A i \in DOMAIN source : source[i] \in Chars
  BY <1>1
<1>4. line \in Nat \ {0}
  BY LineIsNat, <1>1 DEF Position
<1> QED BY <1>1, <1>2, <1>3, <1>4 DEF Position, peek, peek_next, At
-----------------------------------------------------------------------------
(* The scanner moves on by a character.                                    *)
LEMMA Advances ==
  ASSUME ScannerAssumption, Position, peek # NUL, advance_current, UNCHANGED source
  PROVE  /\ current' = current + 1 /\ current' \in 2 .. Len(source) + 1
         /\ line' = LineAt(current + 1) /\ line' = LineAt(current)'
<1>1. current \in DOMAIN source /\ peek = source[current] /\ current \in Nat \ {0}
      /\ Len(source) \in Nat /\ DOMAIN source = 1 .. Len(source)
  BY Reads
<1>2. line' = LineAt(current + 1)
  BY <1>1, LineAdvances DEF Position, advance_current
<1>3. LineAt(current)' = LineAt(current + 1)
  BY DEF advance_current, LineAt, Newlines
<1> QED BY <1>1, <1>2, <1>3 DEF advance_current

LEMMA EndIs ==
  ASSUME ScannerAssumption, Position, Tiled
  PROVE  /\ Len(tokens) \in Nat /\ DOMAIN tokens = 1 .. Len(tokens)
         /\ \A n \in 0 .. Len(tokens) : EndOf(n) \in Nat \ {0} /\ EndOf(n) <= current
<1>1. Len(tokens) \in Nat /\ DOMAIN tokens = 1 .. Len(tokens)
  BY DEF Tiled
<1>2. current \in Nat \ {0}
  BY Reads
<1>3. ASSUME NEW n \in 1 .. Len(tokens)
      PROVE  EndOf(n) \in Nat \ {0} /\ EndOf(n) <= current
  <2>1. /\ tokens[n] \in [type : Types, start : Nat, length : Nat, line : Nat]
        /\ Tiles(n)
    <3>1. n \in DOMAIN tokens
      BY <1>1
    <3>2. tokens[n] \in [type : Types, start : Nat, length : Nat, line : Nat]
      BY <3>1, ElementOfSeq, <1>1 DEF Tiled
    <3> QED BY <3>1, <3>2 DEF Tiled
  <2>2. tokens[n].start \in Nat /\ tokens[n].length \in Nat /\ tokens[n].start > 0
        /\ EndOf(n) <= current
    BY <2>1 DEF Tiles
  <2> QED BY <2>2 DEF EndOf
<1>4. EndOf(0) = 1
  BY DEF EndOf
<1> QED BY <1>1, <1>2, <1>3, <1>4
-----------------------------------------------------------------------------
(* The tokens that are there stay what they are.                           *)
LEMMA SkippedSame ==
  ASSUME source' = source, NEW i, NEW from
  PROVE  Skipped(i, from)' <=> Skipped(i, from)
BY DEF Skipped, At

LEMMA TilesSame ==
  ASSUME ScannerAssumption, Position, Tiled, source' = source, NEW n \in DOMAIN tokens,
         tokens'[n] = tokens[n], n > 1 => tokens'[n - 1] = tokens[n - 1],
         current' \in Nat, current <= current'
  PROVE  Tiles(n)' /\ EndOf(n)' = EndOf(n)
<1>1. n \in 1 .. Len(tokens) /\ Tiles(n)
  BY EndIs DEF Tiled
<1>2. EndOf(n)' = EndOf(n) /\ EndOf(n - 1)' = EndOf(n - 1)
  BY <1>1, EndIs DEF EndOf
<1>3. EndOf(n) \in Nat /\ current \in Nat
  BY <1>1, EndIs, Reads
<1>4. LineAt(EndOf(n))' = LineAt(EndOf(n))
  BY <1>2 DEF LineAt, Newlines
<1>5. ASSUME NEW i PROVE Skipped(i, EndOf(n - 1))' <=> Skipped(i, EndOf(n - 1))
  BY <1>2 DEF Skipped, At
<1> QED BY <1>1, <1>2, <1>3, <1>4, <1>5 DEF Tiles

LEMMA StaysTiled ==
  ASSUME ScannerAssumption, Position, Tiled, source' = source, tokens' = tokens,
         current' \in Nat, current <= current'
  PROVE  Tiled' /\ Last' = Last
<1>1. DOMAIN tokens = 1 .. Len(tokens) /\ Len(tokens) \in Nat
  BY EndIs
<1>2. \A n \in DOMAIN tokens : Tiles(n)'
  BY TilesSame, <1>1
<1>3. tokens' \in Seq([type : Types, start : Nat, length : Nat, line : Nat])
  BY DEF Tiled
<1> QED BY <1>2, <1>3 DEF Tiled, Last, EndOf

(* A token with the type, its place and its line.                          *)
Token(type, from, length, at) == [type |-> type, start |-> from, length |-> length, line |-> at]

LEMMA NewTile ==
  ASSUME ScannerAssumption, Position, Tiled, source' = source, NEW type \in Types,
         NEW from \in Nat \ {0}, NEW length \in Nat, SkippedTo(from),
         length > 0 \/ type = "EOF",
         tokens' = Append(tokens, Token(type, from, length, LineAt(from + length))),
         current' \in Nat, current <= current', from + length <= current'
  PROVE  /\ Tiled' /\ Last' = from + length
         /\ Len(tokens') = Len(tokens) + 1
         /\ tokens'[Len(tokens')] = Token(type, from, length, LineAt(from + length))
         /\ \A n \in DOMAIN tokens : tokens'[n] = tokens[n]
<1> DEFINE t == Token(type, from, length, LineAt(from + length))
<1> DEFINE Record == [type : Types, start : Nat, length : Nat, line : Nat]
<1>1. DOMAIN tokens = 1 .. Len(tokens) /\ Len(tokens) \in Nat /\ tokens \in Seq(Record)
  BY EndIs DEF Tiled
<1>2. t \in Record
  BY LineIsNat DEF Token
<1>t. t.type = type /\ t.start = from /\ t.length = length /\ t.line = LineAt(from + length)
  BY DEF Token
<1> HIDE DEF t, Record
<1>3. tokens' = Append(tokens, t)
  BY DEF t
<1>4. /\ tokens' \in Seq(Record) /\ Len(tokens') = Len(tokens) + 1
      /\ tokens'[Len(tokens) + 1] = t
      /\ \A n \in DOMAIN tokens : tokens'[n] = tokens[n]
  BY <1>1, <1>2, <1>3, AppendProperties
<1>m. PICK m : m = Len(tokens) + 1
  OBVIOUS
<1>5. Last' = from + length
  BY <1>1, <1>4, <1>t DEF Last, EndOf
<1>6. ASSUME NEW n \in DOMAIN tokens PROVE Tiles(n)'
  <2>1. n > 1 => n - 1 \in DOMAIN tokens
    BY <1>1
  <2>2. tokens'[n] = tokens[n] /\ (n > 1 => tokens'[n - 1] = tokens[n - 1])
    BY <1>4, <2>1
  <2> QED BY <2>2, TilesSame
<1>7. Tiles(m)'
  <2>0. m - 1 = Len(tokens) /\ m \in Nat /\ m # 0
    BY <1>1, <1>m
  <2>4. tokens'[m] = t
    BY <1>4, <1>m
  <2>5. m - 1 # 0 => tokens'[m - 1] = tokens[m - 1]
    BY <1>1, <1>4, <2>0
  <2>1. EndOf(m)' = from + length /\ EndOf(m - 1)' = Last
    BY <2>0, <2>4, <2>5, <1>t DEF Last, EndOf
  <2>2. LineAt(EndOf(m))' = LineAt(from + length)
    BY <2>1 DEF LineAt, Newlines
  <2>3. ASSUME NEW i PROVE Skipped(i, EndOf(m - 1))' <=> Skipped(i, Last)
    BY <2>1 DEF Skipped, At
  <2>6. EndOf(m - 1)' <= from /\ EndOf(m)' <= current' /\ from > 0
    BY <2>1 DEF SkippedTo
  <2>7. \A i \in EndOf(m - 1)' .. from - 1 : Skipped(i, EndOf(m - 1))'
    BY <2>1, <2>3 DEF SkippedTo
  <2>8. tokens'[m].type = type /\ tokens'[m].start = from /\ tokens'[m].length = length
        /\ tokens'[m].line = LineAt(EndOf(m))'
    BY <2>2, <2>4, <1>t
  <2> QED BY <2>6, <2>7, <2>8 DEF Tiles
<1>8. DOMAIN tokens' = 1 .. Len(tokens) + 1
  BY <1>4, LenProperties
<1>9. ASSUME NEW n \in DOMAIN tokens' PROVE Tiles(n)'
  <2>1. n \in DOMAIN tokens \/ n = m
    BY <1>1, <1>8, <1>m
  <2> QED BY <2>1, <1>6, <1>7
<1> QED BY <1>4, <1>5, <1>9 DEF Tiled, t, Record
-----------------------------------------------------------------------------
(* The steps: what each leaves between the tokens and the next character.  *)
LEMMA SkippedToSame ==
  ASSUME source' = source, Last' = Last, NEW end
  PROVE  SkippedTo(end)' <=> SkippedTo(end)
BY DEF SkippedTo, Skipped, At

LEMMA Makes ==
  ASSUME ScannerAssumption, TInv, source' = source, NEW type \in Types,
         NEW from \in Nat \ {0}, NEW to \in Nat, start' = from, current' = to,
         from <= to, current <= to, to <= Len(source) + 1, SkippedTo(from),
         line' = LineAt(to), from < to \/ type = "EOF",
         type = "EOF" => to = Len(source) + 1, make_token(type)
  PROVE  TInv'
<1>1. Position /\ Tiled /\ Len(source) \in Nat
  BY Reads DEF TInv
<1>2. tokens' = Append(tokens, Token(type, from, to - from, LineAt(from + (to - from))))
  <2>1. from + (to - from) = to
    OBVIOUS
  <2> QED BY <2>1 DEF make_token, Token
<1>3. Tiled' /\ Last' = from + (to - from)
  <2>1. to - from \in Nat /\ (to - from > 0 \/ type = "EOF") /\ from + (to - from) <= to
    OBVIOUS
  <2> QED BY <1>1, <1>2, <2>1, NewTile
<1>4. Last' = to
  BY <1>3
<1>5. LineAt(current)' = LineAt(to)
  BY DEF LineAt, Newlines
<1>6. pc' \in {"skip", "done"} /\ (pc' = "done" <=> type = "EOF")
  BY DEF make_token
<1>7. Position'
  BY <1>1, <1>5, <1>6 DEF Position
<1>8. SkippedTo(current)'
  BY <1>1, <1>4 DEF SkippedTo
<1> QED BY <1>3, <1>4, <1>6, <1>7, <1>8 DEF TInv, Between

(* A step within a token.                                                  *)
LEMMA MovesOn ==
  ASSUME ScannerAssumption, TInv, source' = source, tokens' = tokens, start' \in Nat \ {0},
         peek # NUL, advance_current, SkippedTo(start'), start' <= current,
         pc' \in {"identifier", "number", "fraction", "string"}
  PROVE  TInv'
<1>1. Position /\ Tiled /\ current \in Nat
  BY Reads DEF TInv
<1>2. current' = current + 1 /\ current' \in 2 .. Len(source) + 1 /\ line' = LineAt(current)'
  BY <1>1, Advances
<1>3. Tiled' /\ Last' = Last
  BY <1>1, <1>2, StaysTiled
<1>4. Position'
  BY <1>1, <1>2 DEF Position
<1>5. SkippedTo(start)'
  BY <1>3 DEF SkippedTo, Skipped, At
<1> QED BY <1>1, <1>2, <1>3, <1>4, <1>5 DEF TInv, Between

LEMMA WhitespaceTiles ==
  ASSUME ScannerAssumption, TInv, skip_whitespace
  PROVE  TInv'
<1>1. Position /\ Tiled /\ current \in Nat \ {0} /\ Len(source) \in Nat /\ SkippedTo(current)
  BY Reads DEF TInv, Between, skip_whitespace
<1>l. Last \in Nat \ {0} /\ Last <= current
  BY <1>1, EndIs DEF Last
<1>2. CASE peek \in White /\ advance_current /\ pc' = "skip"
  <2>1. peek # NUL /\ peek = source[current] /\ current \in DOMAIN source
    BY <1>1, <1>2, Reads DEF NUL, White
  <2>2. current' = current + 1 /\ current' \in 2 .. Len(source) + 1 /\ line' = LineAt(current)'
    BY <1>1, <1>2, <2>1, Advances DEF skip_whitespace
  <2>3. Tiled' /\ Last' = Last
    BY <1>1, <2>2, StaysTiled DEF skip_whitespace
  <2>4. Position'
    BY <1>1, <1>2, <2>2 DEF Position, skip_whitespace
  <2>5. SkippedTo(current + 1)
    BY <1>1, <1>l, <1>2, <2>1 DEF SkippedTo, Skipped
  <2>6. SkippedTo(current)'
    BY <2>2, <2>3, <2>5 DEF SkippedTo, Skipped, At, skip_whitespace
  <2> QED BY <1>2, <2>3, <2>4, <2>6 DEF TInv, Between
<1>3. CASE CommentStarts /\ pc' = "comment" /\ UNCHANGED <<current, line>>
  <2>1. Tiled' /\ Last' = Last
    BY <1>1, <1>3, StaysTiled DEF skip_whitespace
  <2>2. Position'
    BY <1>1, <1>3 DEF Position, skip_whitespace, LineAt, Newlines
  <2>3. SkippedTo(current)'
    BY <1>1, <1>3, <2>1 DEF SkippedTo, Skipped, At, skip_whitespace
  <2>4. At(current) = "/" /\ At(current + 1) = "/"
    BY <1>3 DEF CommentStarts, peek, peek_next, NUL
  <2>5. CommentTo(current)
    BY <1>1, <1>l, <2>4 DEF CommentTo
  <2>6. CommentTo(current)'
    BY <1>3, <2>1, <2>5 DEF CommentTo, At, skip_whitespace
  <2> QED BY <1>3, <2>1, <2>2, <2>3, <2>6 DEF TInv, Between
<1> QED BY <1>2, <1>3 DEF skip_whitespace

LEMMA CommentTiles ==
  ASSUME ScannerAssumption, TInv, skip_comment
  PROVE  TInv'
<1>1. /\ Position /\ Tiled /\ current \in Nat \ {0} /\ Len(source) \in Nat
      /\ SkippedTo(current) /\ CommentTo(current)
  BY Reads DEF TInv, Between, skip_comment
<1>l. Last \in Nat \ {0} /\ Last <= current
  BY <1>1, EndIs DEF Last
<1>2. CASE peek \notin {"NL", NUL}
  <2>1. peek # NUL /\ peek = source[current] /\ current \in DOMAIN source /\ advance_current
        /\ source[current] # "NL"
    BY <1>1, <1>2, Reads DEF skip_comment
  <2>2. current' = current + 1 /\ current' \in 2 .. Len(source) + 1 /\ line' = LineAt(current)'
    BY <1>1, <2>1, Advances DEF skip_comment
  <2>3. Tiled' /\ Last' = Last
    BY <1>1, <2>2, StaysTiled DEF skip_comment
  <2>4. Position'
    BY <1>1, <1>2, <2>2 DEF Position, skip_comment
  <2>5. PICK c \in Last .. current : /\ At(c) = "/" /\ At(c + 1) = "/"
                                     /\ \A k \in c .. current - 1 : source[k] # "NL"
    BY <1>1 DEF CommentTo
  <2>6. \A k \in c .. current : source[k] # "NL"
    BY <1>1, <1>l, <2>1, <2>5
  <2>7. CommentTo(current + 1)
    BY <1>1, <1>l, <2>5, <2>6 DEF CommentTo
  <2>8. Skipped(current, Last)
    BY <1>1, <1>l, <2>5, <2>6 DEF Skipped
  <2>9. SkippedTo(current + 1)
    BY <1>1, <1>l, <2>8 DEF SkippedTo
  <2>10. SkippedTo(current)'
    BY <2>2, <2>3, <2>9 DEF SkippedTo, Skipped, At, skip_comment
  <2>11. CommentTo(current)'
    BY <2>2, <2>3, <2>7 DEF CommentTo, At, skip_comment
  <2> QED BY <1>2, <2>3, <2>4, <2>10, <2>11 DEF TInv, Between, skip_comment
<1>3. CASE peek \in {"NL", NUL}
  <2>0. pc' = "skip" /\ UNCHANGED <<current, line, source, start, tokens>>
    BY <1>3 DEF skip_comment
  <2>1. Tiled' /\ Last' = Last
    BY <1>1, <2>0, StaysTiled
  <2>2. Position'
    BY <1>1, <2>0 DEF Position, LineAt, Newlines
  <2>3. SkippedTo(current)'
    BY <1>1, <2>0, <2>1 DEF SkippedTo, Skipped, At
  <2> QED BY <2>0, <2>1, <2>2, <2>3 DEF TInv, Between
<1> QED BY <1>2, <1>3
-----------------------------------------------------------------------------
(* The types of tokens.                                                    *)
LEMMA TypesOfOperators ==
  ASSUME NEW c \in MaybeEqual
  PROVE  WithEqual[c] \in Types /\ WithEqual[c] \notin {"EOF", "ERROR", "IDENTIFIER"}
<1>1. WithEqual[c] \in {WithEqual[d] : d \in MaybeEqual}
  OBVIOUS
<1>2. WithEqual[c] \in {"-=", "+=", "/=", "*=", "!=", "==", "<=", ">="}
  BY DEF WithEqual, MaybeEqual
<1> QED BY <1>1, <1>2 DEF Types

LEMMA TypesOfWords == identifier_type \in Types /\ identifier_type \notin {"EOF", "ERROR"}
<1> DEFINE W == {"IDENTIFIER", "AND", "BREAK", "CLASS", "CASE", "CONST", "DEFAULT", "DEF",
                 "ELSE", "FALSE", "FOR", "FUN", "IF", "NIL", "NEXT", "OR", "PRINT", "RETURN",
                 "SUPER", "SELF", "SWITCH", "TRUE", "VAR", "WHILE"}
<1>1. \A n, rest : \A type \in W : check_keyword(n, rest, type) \in W
  BY DEF check_keyword
<1> HIDE DEF W
<1>2. /\ "AND" \in W /\ "BREAK" \in W /\ "CLASS" \in W /\ "CASE" \in W /\ "CONST" \in W
      /\ "DEFAULT" \in W /\ "DEF" \in W /\ "ELSE" \in W /\ "FALSE" \in W /\ "FOR" \in W
      /\ "FUN" \in W /\ "IF" \in W /\ "NIL" \in W /\ "NEXT" \in W /\ "OR" \in W
      /\ "PRINT" \in W /\ "RETURN" \in W /\ "SUPER" \in W /\ "SELF" \in W /\ "SWITCH" \in W
      /\ "TRUE" \in W /\ "VAR" \in W /\ "WHILE" \in W /\ "IDENTIFIER" \in W
  BY DEF W
<1>3. identifier_type \in W
  BY <1>1, <1>2 DEF identifier_type
<1> QED BY <1>3 DEF W, Types

(* A token of one character, or the first character of a longer one.       *)
LEMMA ScanTokenTiles ==
  ASSUME ScannerAssumption, TInv, scan_token
  PROVE  TInv'
<1>1. /\ Position /\ Tiled /\ current \in Nat \ {0} /\ Len(source) \in Nat
      /\ DOMAIN source = 1 .. Len(source)
      /\ SkippedTo(current) /\ current <= Len(source) + 1
  BY Reads DEF TInv, Between, scan_token, Position
<1>2. source' = source /\ start' = current
  BY DEF scan_token
<1>3. CASE peek = NUL
  <2>1. current = Len(source) + 1
    BY <1>1, <1>3, Reads
  <2>2. current' = current /\ line' = LineAt(current) /\ make_token("EOF")
    BY <1>1, <1>3 DEF scan_token, Position
  <2>3. "EOF" \in Types
    BY DEF Types
  <2> QED BY <1>1, <1>2, <2>1, <2>2, <2>3, Makes
<1>4. ASSUME peek # NUL, advance_current, NEW type \in Types, type # "EOF", make_token(type)
      PROVE  TInv'
  <2>1. current' = current + 1 /\ current' \in 2 .. Len(source) + 1 /\ line' = LineAt(current + 1)
    BY <1>1, <1>2, <1>4, Advances
  <2> QED BY <1>1, <1>2, <1>4, <2>1, Makes
<1>5. CASE peek # NUL /\ (is_alpha(peek) \/ is_digit(peek) \/ peek \in Quote) /\ advance_current
           /\ pc' \in {"identifier", "number", "string"} /\ UNCHANGED tokens
  BY <1>1, <1>2, <1>5, MovesOn
<1>6. CASE peek # NUL /\ peek \in Single /\ advance_current /\ make_token(peek)
  <2>1. peek \in Types /\ peek # "EOF"
    BY <1>6 DEF Types, Single
  <2> QED BY <1>4, <1>6, <2>1
<1>7. CASE peek # NUL /\ peek \in MaybeEqual
           /\ IF peek_next = "=" THEN /\ current' = current + 2 /\ UNCHANGED line
                                      /\ make_token(WithEqual[peek])
                                 ELSE advance_current /\ make_token(peek)
  <2>1. CASE peek_next = "="
    <3>1. /\ current \in DOMAIN source /\ peek = source[current]
          /\ current + 1 \in DOMAIN source /\ source[current + 1] = "="
      BY <1>1, <1>7, <2>1, Reads DEF NUL
    <3>2. source[current] # "NL" /\ source[current + 1] # "NL"
      BY <1>7, <3>1 DEF MaybeEqual
    <3>3. LineAt(current + 2) = LineAt(current)
      <4>1. PICK n \in Nat \ {0} : n = current + 1
        BY <1>1
      <4>2. LineAt(n) = LineAt(current)
        BY <1>1, <3>2, <4>1, LineAdvances
      <4>3. LineAt(n + 1) = LineAt(n)
        BY <3>2, <4>1, LineAdvances
      <4>4. n + 1 = current + 2
        BY <1>1, <4>1
      <4> QED BY <4>2, <4>3, <4>4
    <3>4. current' = current + 2 /\ line' = LineAt(current + 2) /\ make_token(WithEqual[peek])
      BY <1>1, <1>7, <2>1, <3>3 DEF Position
    <3>5. current + 2 <= Len(source) + 1
      BY <1>1, <3>1
    <3> DEFINE type == WithEqual[peek]
    <3>6. type \in Types /\ type # "EOF"
      BY <1>7, TypesOfOperators
    <3>7. make_token(type)
      BY <3>4
    <3> HIDE DEF type
    <3> QED BY <1>1, <1>2, <3>4, <3>5, <3>6, <3>7, Makes
  <2>2. CASE peek_next # "="
    <3>1. peek \in Types /\ peek # "EOF"
      BY <1>7 DEF Types, MaybeEqual
    <3> QED BY <1>4, <1>7, <2>2, <3>1
  <2> QED BY <2>1, <2>2
<1>8. CASE peek # NUL /\ peek \in Other /\ advance_current /\ make_token("ERROR")
  <2>1. "ERROR" \in Types
    BY DEF Types
  <2> QED BY <1>4, <1>8, <2>1
<1>9. peek # NUL =>
        \/ /\ is_alpha(peek) \/ is_digit(peek) \/ peek \in Quote
           /\ advance_current /\ pc' \in {"identifier", "number", "string"} /\ UNCHANGED tokens
        \/ peek \in Single /\ advance_current /\ make_token(peek)
        \/ /\ peek \in MaybeEqual
           /\ IF peek_next = "=" THEN /\ current' = current + 2 /\ UNCHANGED line
                                      /\ make_token(WithEqual[peek])
                                 ELSE advance_current /\ make_token(peek)
        \/ peek \in Other /\ advance_current /\ make_token("ERROR")
  BY DEF scan_token
<1> QED BY <1>3, <1>5, <1>6, <1>7, <1>8, <1>9

(* Words, numbers and strings.                                             *)
LEMMA InToken ==
  ASSUME ScannerAssumption, TInv, pc \in {"identifier", "number", "fraction", "string"}
  PROVE  /\ Position /\ Tiled /\ SkippedTo(start) /\ start < current
         /\ start \in Nat \ {0} /\ current \in Nat \ {0} /\ Len(source) \in Nat
         /\ DOMAIN source = 1 .. Len(source)
         /\ current <= Len(source) + 1 /\ line = LineAt(current)
BY Reads DEF TInv, Between, Position

LEMMA EndsToken ==
  ASSUME ScannerAssumption, TInv, pc \in {"identifier", "number", "fraction", "string"},
         UNCHANGED <<source, start, current, line>>,
         NEW type \in Types, type # "EOF", make_token(type)
  PROVE  TInv'
<1>1. /\ SkippedTo(start) /\ start < current /\ start \in Nat \ {0} /\ current \in Nat \ {0}
      /\ Len(source) \in Nat /\ current <= Len(source) + 1 /\ line = LineAt(current)
  BY InToken
<1> QED BY <1>1, Makes

LEMMA StaysInToken ==
  ASSUME ScannerAssumption, TInv, pc \in {"identifier", "number", "fraction", "string"},
         UNCHANGED <<source, start, tokens>>, peek # NUL, advance_current,
         pc' \in {"identifier", "number", "fraction", "string"}
  PROVE  TInv'
<1>1. SkippedTo(start) /\ start < current /\ start \in Nat \ {0} /\ current \in Nat \ {0}
  BY InToken
<1> QED BY <1>1, MovesOn

LEMMA NoNUL ==
  ASSUME ScannerAssumption
  PROVE  ~is_alpha(NUL) /\ ~is_digit(NUL) /\ NUL \notin Quote
BY DEF ScannerAssumption, is_alpha, is_digit, NUL, Quote

LEMMA IdentifierTiles ==
  ASSUME ScannerAssumption, TInv, identifier
  PROVE  TInv'
<1>1. CASE is_alpha(peek) \/ is_digit(peek)
  BY <1>1, NoNUL, StaysInToken DEF identifier
<1>2. CASE ~(is_alpha(peek) \/ is_digit(peek))
  <2> DEFINE type == identifier_type
  <2>1. type \in Types /\ type # "EOF" /\ make_token(type)
        /\ UNCHANGED <<source, start, current, line>>
    BY <1>2, TypesOfWords DEF identifier
  <2>2. pc = "identifier"
    BY DEF identifier
  <2> HIDE DEF type
  <2> QED BY <2>1, <2>2, EndsToken
<1> QED BY <1>1, <1>2

LEMMA NumberTiles ==
  ASSUME ScannerAssumption, TInv, number \/ fraction
  PROVE  TInv'
<1>1. pc \in {"number", "fraction"} /\ UNCHANGED <<source, start>>
  BY DEF number, fraction
<1>2. "NUMBER" \in Types
  BY DEF Types
<1>3. \/ /\ peek # NUL /\ advance_current /\ UNCHANGED tokens
         /\ pc' \in {"number", "fraction"}
      \/ UNCHANGED <<current, line>> /\ make_token("NUMBER")
  BY <1>1, NoNUL DEF number, fraction, NUL
<1> QED BY <1>1, <1>2, <1>3, StaysInToken, EndsToken

LEMMA StringTiles ==
  ASSUME ScannerAssumption, TInv, string
  PROVE  TInv'
<1>1. pc = "string" /\ UNCHANGED <<source, start>>
  BY DEF string
<1>2. "ERROR" \in Types /\ "STRING" \in Types
  BY DEF Types
<1>3. CASE peek \notin Quote \cup {NUL}
  BY <1>1, <1>3, StaysInToken DEF string
<1>4. CASE peek = NUL
  BY <1>1, <1>2, <1>4, EndsToken DEF string
<1>5. CASE peek \in Quote
  <2>1. peek # NUL /\ advance_current /\ make_token("STRING")
    BY <1>5, NoNUL DEF string
  <2>2. /\ SkippedTo(start) /\ start < current /\ start \in Nat \ {0} /\ current \in Nat \ {0}
        /\ Len(source) \in Nat /\ Position
    BY <1>1, InToken
  <2>3. current' = current + 1 /\ current' \in 2 .. Len(source) + 1 /\ line' = LineAt(current + 1)
    BY <1>1, <2>1, <2>2, Advances
  <2> QED BY <1>1, <1>2, <2>1, <2>2, <2>3, Makes
<1> QED BY <1>3, <1>4, <1>5
-----------------------------------------------------------------------------
LEMMA TInvInit ==
  ASSUME ScannerAssumption, init_scanner
  PROVE  TInv
<1>1. source \in Seq(Chars)
  BY DEF ScannerAssumption, init_scanner, Chars
<1>2. Len(source) \in Nat /\ start = 1 /\ current = 1 /\ line = 1 /\ pc = "skip" /\ tokens = <<>>
  BY <1>1 DEF init_scanner
<1>3. LineAt(1) = 1
  BY LineIsNat
<1>4. Position
  BY <1>1, <1>2, <1>3 DEF Position
<1>5. tokens \in Seq([type : Types, start : Nat, length : Nat, line : Nat]) /\ DOMAIN tokens = {}
  BY <1>2
<1>6. Len(tokens) = 0 /\ Last = 1
  BY <1>2 DEF Last, EndOf
<1> QED BY <1>2, <1>4, <1>5, <1>6 DEF TInv, Tiled, Between, SkippedTo

LEMMA TInvNext ==
  ASSUME ScannerAssumption, TInv, [Next]_vars
  PROVE  TInv'
<1>1. CASE UNCHANGED vars
  <2>1. Position /\ Tiled /\ current \in Nat /\ current <= current
    BY Reads DEF TInv
  <2>2. Tiled' /\ Last' = Last
    BY <1>1, <2>1, StaysTiled DEF vars
  <2>3. Position'
    BY <1>1, <2>1 DEF vars, Position, LineAt, Newlines
  <2>4. (SkippedTo(current)' <=> SkippedTo(current)) /\ (SkippedTo(start)' <=> SkippedTo(start))
    BY <1>1, <2>2 DEF vars, SkippedTo, Skipped, At
  <2>5. CommentTo(current)' <=> CommentTo(current)
    BY <1>1, <2>2 DEF vars, CommentTo, At
  <2> QED BY <1>1, <2>2, <2>3, <2>4, <2>5 DEF vars, TInv, Between
<1> QED BY <1>1, WhitespaceTiles, CommentTiles, ScanTokenTiles, IdentifierTiles, NumberTiles,
           StringTiles DEF Next

LEMMA TInvTiles ==
  ASSUME ScannerAssumption, TInv
  PROVE  TokensTile
<1>1. Position /\ Tiled
  BY DEF TInv
<1>2. /\ current \in Nat \ {0} /\ Len(source) \in Nat /\ current <= Len(source) + 1
      /\ start \in 1 .. current
  BY <1>1, Reads DEF Position
<1>3. line \in 1 .. Len(source) + 1
  BY <1>1, <1>2, LineIsNat DEF Position
<1>4. TypeOK
  BY <1>1, <1>2, <1>3 DEF TypeOK, Position, Tiled
<1>5. LinesAreRight
  BY <1>1 DEF LinesAreRight, Tiled, Tiles, LineAt, Newlines
<1>6. \A n \in DOMAIN tokens :
       /\ EndOf(n - 1) <= tokens[n].start /\ EndOf(n) <= current
       /\ tokens[n].length > 0 \/ tokens[n].type = "EOF"
       /\ \A i \in EndOf(n - 1) .. tokens[n].start - 1 : Skipped(i, EndOf(n - 1))
  BY <1>1 DEF Tiled, Tiles
<1>7. pc = "done" => EndOf(Len(tokens)) = Len(source) + 1
  BY DEF TInv, Between, Last
<1> QED BY <1>4, <1>5, <1>6, <1>7 DEF TokensTile

LEMMA TInvHolds ==
  ASSUME ScannerAssumption
  PROVE  Spec => []TInv
<1>1. init_scanner => TInv
  BY TInvInit
<1>2. TInv /\ [Next]_vars => TInv'
  BY TInvNext
<1> QED BY <1>1, <1>2, PTL DEF Spec

(* The tokens of a source of any length cover it: what is between them is  *)
(* white space and comments, and the line of each is that of its end.      *)
THEOREM TokensTileHolds ==
  ASSUME ScannerAssumption
  PROVE  Spec => []TokensTile
<1>1. TInv => TokensTile
  BY TInvTiles
<1> QED BY <1>1, TInvHolds, PTL
-----------------------------------------------------------------------------
(* The longest token: what can be read from a character on.                *)
LEMMA TextIs ==
  ASSUME source \in Seq(Chars), NEW i \in Nat \ {0}, NEW j \in Nat, i <= j, j <= Len(source) + 1
  PROVE  /\ Text(i, j) \in Seq(Chars) /\ Len(Text(i, j)) = j - i
         /\ DOMAIN Text(i, j) = 1 .. j - i
         /\ \A k \in 1 .. j - i : Text(i, j)[k] = source[i + k - 1]
         /\ \A k \in i .. j - 1 : k - i + 1 \in 1 .. j - i /\ Text(i, j)[k - i + 1] = source[k]
<1>1. Len(source) \in Nat
  OBVIOUS
<1>2. /\ Text(i, j) \in Seq(Chars) /\ Len(Text(i, j)) = j - i
      /\ \A k \in 1 .. j - i : Text(i, j)[k] = source[i + k - 1]
  <2>1. CASE i = j
    BY <1>1, <2>1, SubSeqEmpty DEF Text
  <2>2. CASE i < j
    <3>1. j - 1 \in i .. Len(source) /\ i \in 1 .. Len(source) + 1 /\ j - 1 - i + 1 = j - i
      BY <1>1, <2>2
    <3> QED BY <1>1, <2>2, <3>1, SubSeqProperties DEF Text
  <2> QED BY <2>1, <2>2
<1>3. DOMAIN Text(i, j) = 1 .. j - i
  BY <1>2, LenProperties
<1>4. ASSUME NEW k \in i .. j - 1
      PROVE  k - i + 1 \in 1 .. j - i /\ Text(i, j)[k - i + 1] = source[k]
  <2>1. k - i + 1 \in 1 .. j - i /\ i + (k - i + 1) - 1 = k
    OBVIOUS
  <2> QED BY <1>2, <2>1
<1> QED BY <1>2, <1>3, <1>4

(* The kinds of characters.                                                *)
Kinds(c) ==
  /\ c \in Letters => c \notin Digits \cup Other \cup Single \cup MaybeEqual \cup Quote
  /\ c \in Digits => c \notin Other \cup Single \cup MaybeEqual \cup Quote /\ c # "."
  /\ c \in Other => c \notin Single \cup MaybeEqual \cup Quote
  /\ c \in Single => c \notin MaybeEqual \cup Quote
  /\ c \in MaybeEqual => c \notin Quote

LEMMA KindsApart ==
  ASSUME ScannerAssumption, NEW c
  PROVE  Kinds(c)
<1> DEFINE Marks == Single \cup MaybeEqual \cup White \cup Quote
<1> DEFINE kinds == <<Letters, Digits, Other, Marks>>
<1>1. \A k, l \in 1 .. 4 : k # l => kinds[k] \cap kinds[l] = {}
  BY DEF ScannerAssumption
<1>2. kinds[1] = Letters /\ kinds[2] = Digits /\ kinds[3] = Other /\ kinds[4] = Marks
  OBVIOUS
<1> HIDE DEF kinds
<1>3. /\ Letters \cap Digits = {} /\ Letters \cap Other = {} /\ Letters \cap Marks = {}
      /\ Digits \cap Other = {} /\ Digits \cap Marks = {} /\ Other \cap Marks = {}
  BY <1>1, <1>2
<1>4. Single \cap (MaybeEqual \cup Quote) = {} /\ MaybeEqual \cap Quote = {} /\ "." \in Single
  BY DEF Single, MaybeEqual, Quote
<1> QED BY <1>3, <1>4 DEF Kinds

(* What a text begins with says which lexeme it can be.                    *)
LEMMA FirstDecides ==
  ASSUME ScannerAssumption, NEW s \in Seq(Chars), Len(s) > 0
  PROVE  /\ IsWord(s) => s[1] \in Letters
         /\ IsNumber(s) => s[1] \in Digits
         /\ IsString(s) => s[1] \in Quote
         /\ IsOperator(s) => s[1] \in Single \cup MaybeEqual
<1>1. DOMAIN s = 1 .. Len(s) /\ Len(s) \in Nat /\ 1 \in DOMAIN s
  OBVIOUS
<1>2. IsNumber(s) => s[1] \in Digits
  BY <1>1 DEF IsNumber, AllIn
<1>3. IsString(s) => s[1] \in Quote
  BY <1>1 DEF IsString
<1> QED BY <1>2, <1>3 DEF IsWord, IsOperator

LEMMA WordIsLongest ==
  ASSUME ScannerAssumption, source \in Seq(Chars), NEW from \in Nat \ {0}, NEW to \in Nat,
         from < to, to <= Len(source) + 1, source[from] \in Letters,
         \A k \in from .. to - 1 : source[k] \in Letters \cup Digits,
         to <= Len(source) => source[to] \notin Letters \cup Digits
  PROVE  /\ IsWord(Text(from, to))
         /\ \A j \in to + 1 .. Len(source) + 1 : ~IsLexeme(Text(from, j))
<1>1. IsWord(Text(from, to))
  <2> DEFINE s == Text(from, to)
  <2>1. DOMAIN s = 1 .. to - from /\ s \in Seq(Chars) /\ Len(s) = to - from
        /\ \A k \in 1 .. to - from : s[k] = source[from + k - 1]
    <3>1. from <= to
      OBVIOUS
    <3> QED BY <3>1, TextIs
  <2> HIDE DEF s
  <2>2. s[1] \in Letters /\ s # <<>>
    BY <2>1
  <2>3. ASSUME NEW k \in 1 .. to - from PROVE s[k] \in Letters \cup Digits
    <3>1. from + k - 1 \in from .. to - 1
      OBVIOUS
    <3> QED BY <2>1, <3>1
  <2> QED BY <2>1, <2>2, <2>3 DEF IsWord, AllIn, s
<1>2. ASSUME NEW j \in to + 1 .. Len(source) + 1, IsLexeme(Text(from, j)) PROVE FALSE
  <2> DEFINE s == Text(from, j)
  <2>0. j \in Nat /\ from <= j /\ j <= Len(source) + 1
    OBVIOUS
  <2>1. /\ DOMAIN s = 1 .. j - from /\ s \in Seq(Chars) /\ Len(s) = j - from
        /\ \A k \in from .. j - 1 : k - from + 1 \in 1 .. j - from /\ s[k - from + 1] = source[k]
    BY <2>0, TextIs
  <2>l. IsLexeme(s)
    BY <1>2
  <2> HIDE DEF s
  <2>2. s[1] = source[from] /\ Len(s) > 0
    BY <2>0, <2>1
  <2>3. IsWord(s)
    BY <2>l, <2>1, <2>2, FirstDecides, KindsApart DEF IsLexeme, Kinds
  <2>4. to - from + 1 \in DOMAIN s /\ s[to - from + 1] = source[to]
    BY <2>0, <2>1
  <2> QED BY <2>3, <2>4 DEF IsWord, AllIn
<1> QED BY <1>1, <1>2

(* A number without a point, or with one in its middle, after which there  *)
(* is no digit, and no point before one.                                   *)
LEMMA NumberIsLongest ==
  ASSUME ScannerAssumption, source \in Seq(Chars), NEW from \in Nat \ {0}, NEW to \in Nat,
         from < to, to <= Len(source) + 1, source[from] \in Digits,
         NEW points, points = {k \in from .. to - 1 : source[k] = "."},
         \A k \in from .. to - 1 : source[k] \in Digits \cup {"."},
         \A k, l \in points : k = l /\ k \in from + 1 .. to - 2,
         to <= Len(source) => source[to] \notin Digits,
         points = {} => ~(At(to) = "." /\ is_digit(At(to + 1)))
  PROVE  /\ IsNumber(Text(from, to))
         /\ \A j \in to + 1 .. Len(source) + 1 : ~IsLexeme(Text(from, j))
<1>1. IsNumber(Text(from, to))
  <2> DEFINE s == Text(from, to)
  <2>1. DOMAIN s = 1 .. to - from /\ s \in Seq(Chars) /\ Len(s) = to - from
        /\ \A k \in 1 .. to - from : s[k] = source[from + k - 1]
    <3>1. from <= to
      OBVIOUS
    <3> QED BY <3>1, TextIs, ZenonT(30)
  <2> HIDE DEF s
  <2>2. s # <<>>
    BY <2>1
  <2>3. ASSUME NEW k \in 1 .. to - from
        PROVE  s[k] \in Digits \cup {"."} /\ (s[k] = "." => from + k - 1 \in points)
    <3>1. from + k - 1 \in from .. to - 1
      OBVIOUS
    <3> QED BY <2>1, <3>1
  <2>4. ASSUME NEW k \in 1 .. to - from, NEW l \in 1 .. to - from, s[k] = "."
        PROVE  k \in 2 .. to - from - 1 /\ (s[l] = "." => k = l)
    <3>1. from + k - 1 \in points /\ (s[l] = "." => from + l - 1 \in points)
      BY <2>3, <2>4
    <3> QED BY <3>1
  <2> QED BY <2>1, <2>2, <2>3, <2>4 DEF IsNumber, AllIn, s
<1>2. ASSUME NEW j \in to + 1 .. Len(source) + 1, IsLexeme(Text(from, j)) PROVE FALSE
  <2> DEFINE s == Text(from, j)
  <2>0. j \in Nat /\ from <= j /\ j <= Len(source) + 1 /\ Len(source) \in Nat
    OBVIOUS
  <2>1. /\ DOMAIN s = 1 .. j - from /\ s \in Seq(Chars) /\ Len(s) = j - from
        /\ \A k \in from .. j - 1 : k - from + 1 \in 1 .. j - from /\ s[k - from + 1] = source[k]
    BY <2>0, TextIs
  <2>l. IsLexeme(s)
    BY <1>2
  <2> HIDE DEF s
  <2>2. s[1] = source[from] /\ Len(s) > 0
    BY <2>0, <2>1
  <2>3. IsNumber(s)
    BY <2>l, <2>1, <2>2, FirstDecides, KindsApart DEF IsLexeme, Kinds
  <2>4. to - from + 1 \in DOMAIN s /\ s[to - from + 1] = source[to]
    BY <2>0, <2>1
  <2>5. source[to] = "."
    BY <2>0, <2>3, <2>4 DEF IsNumber, AllIn
  <2>6. to - from + 1 \in 2 .. j - from - 1
    BY <2>1, <2>3, <2>4, <2>5 DEF IsNumber
  <2>7. points = {}
    <3>1. ASSUME NEW k \in points PROVE FALSE
      <4>1. k \in from .. to - 1 /\ source[k] = "."
        OBVIOUS
      <4>2. k - from + 1 \in DOMAIN s /\ s[k - from + 1] = "."
        BY <2>0, <2>1, <4>1
      <4>3. k - from + 1 = to - from + 1
        BY <2>3, <2>4, <2>5, <4>2 DEF IsNumber
      <4> QED BY <4>1, <4>3
    <3> QED BY <3>1
  <2>8. to + 1 \in DOMAIN source /\ to \in DOMAIN source /\ to + 1 \in from .. j - 1
    BY <2>0, <2>6
  <2>9. source[to + 1] \notin Digits
    BY <2>5, <2>7, <2>8 DEF At, is_digit
  <2>10. to + 1 - from + 1 \in DOMAIN s /\ s[to + 1 - from + 1] = source[to + 1]
    BY <2>1, <2>8
  <2>11. s[to + 1 - from + 1] = "."
    BY <2>3, <2>9, <2>10 DEF IsNumber, AllIn
  <2>12. to + 1 - from + 1 = to - from + 1
    BY <2>3, <2>4, <2>5, <2>10, <2>11 DEF IsNumber
  <2> QED BY <2>12
<1> QED BY <1>1, <1>2

(* What no lexeme but one of another kind begins like is not one.          *)
LEMMA NotALexeme ==
  ASSUME ScannerAssumption, source \in Seq(Chars), NEW from \in Nat \ {0},
         NEW j \in from + 1 .. Len(source) + 1
  PROVE  /\ source[from] \in Other => ~IsLexeme(Text(from, j))
         /\ source[from] \in Quote => (IsLexeme(Text(from, j)) <=> IsString(Text(from, j)))
         /\ source[from] \in Single \cup MaybeEqual =>
              (IsLexeme(Text(from, j)) <=> IsOperator(Text(from, j)))
         /\ source[from] \notin Letters => ~IsWord(Text(from, j))
<1> DEFINE s == Text(from, j)
<1>0. j \in Nat /\ from <= j /\ j <= Len(source) + 1 /\ Len(source) \in Nat
  OBVIOUS
<1>1. /\ s \in Seq(Chars) /\ Len(s) = j - from
      /\ \A k \in 1 .. j - from : s[k] = source[from + k - 1]
  BY <1>0, TextIs
<1> HIDE DEF s
<1>2. s[1] = source[from] /\ Len(s) > 0
  BY <1>0, <1>1
<1>3. Kinds(source[from])
  BY KindsApart
<1>4. /\ IsWord(s) => s[1] \in Letters
      /\ IsNumber(s) => s[1] \in Digits
      /\ IsString(s) => s[1] \in Quote
      /\ IsOperator(s) => s[1] \in Single \cup MaybeEqual
  BY <1>1, <1>2, FirstDecides
<1>5. IsLexeme(s) <=> IsWord(s) \/ IsNumber(s) \/ IsString(s) \/ IsOperator(s)
  BY DEF IsLexeme
<1> QED BY <1>2, <1>3, <1>4, <1>5 DEF Kinds, s

LEMMA TextFrom ==
  ASSUME source \in Seq(Chars), NEW from \in Nat \ {0}, NEW j \in from + 1 .. Len(source) + 1
  PROVE  /\ Text(from, j) \in Seq(Chars) /\ Len(Text(from, j)) = j - from
         /\ DOMAIN Text(from, j) = 1 .. j - from
         /\ Text(from, j)[1] = source[from]
         /\ \A k \in from .. j - 1 : /\ k - from + 1 \in 1 .. j - from
                                     /\ Text(from, j)[k - from + 1] = source[k]
         /\ \A k \in 1 .. j - from : Text(from, j)[k] = source[from + k - 1]
<1>0. j \in Nat /\ from <= j /\ j <= Len(source) + 1 /\ Len(source) \in Nat
  OBVIOUS
<1>1. /\ DOMAIN Text(from, j) = 1 .. j - from /\ Text(from, j) \in Seq(Chars)
      /\ Len(Text(from, j)) = j - from
      /\ \A k \in from .. j - 1 : /\ k - from + 1 \in 1 .. j - from
                                  /\ Text(from, j)[k - from + 1] = source[k]
      /\ \A k \in 1 .. j - from : Text(from, j)[k] = source[from + k - 1]
  BY <1>0, TextIs
<1>2. Text(from, j)[1] = source[from]
  <2>1. 1 \in 1 .. j - from /\ from + 1 - 1 = from
    BY <1>0
  <2> QED BY <1>1, <2>1
<1> QED BY <1>1, <1>2

LEMMA StringIsLongest ==
  ASSUME ScannerAssumption, source \in Seq(Chars), NEW from \in Nat \ {0},
         NEW to \in from + 2 .. Len(source) + 1, source[from] \in Quote, source[to - 1] \in Quote,
         \A k \in from + 1 .. to - 2 : source[k] \notin Quote
  PROVE  /\ IsString(Text(from, to)) /\ ~IsWord(Text(from, to))
         /\ \A j \in to + 1 .. Len(source) + 1 : ~IsLexeme(Text(from, j))
<1>0. Len(source) \in Nat
  OBVIOUS
<1>1. IsString(Text(from, to)) /\ ~IsWord(Text(from, to))
  <2> DEFINE s == Text(from, to)
  <2>1. to \in from + 1 .. Len(source) + 1
    BY <1>0
  <2>2. /\ ~IsWord(s) /\ Len(s) = to - from /\ DOMAIN s = 1 .. to - from
        /\ \A k \in 1 .. to - from : s[k] = source[from + k - 1]
    BY <2>1, NotALexeme, TextFrom, KindsApart DEF Kinds
  <2> HIDE DEF s
  <2>3. ASSUME NEW k \in 1 .. to - from PROVE s[k] \in Quote <=> k = 1 \/ k = to - from
    <3>1. k # 1 /\ k # to - from => from + k - 1 \in from + 1 .. to - 2
      OBVIOUS
    <3>2. k = 1 => from + k - 1 = from
      OBVIOUS
    <3>3. k = to - from => from + k - 1 = to - 1
      OBVIOUS
    <3> QED BY <2>2, <3>1, <3>2, <3>3
  <2>4. {k \in DOMAIN s : s[k] \in Quote} = {1, Len(s)}
    BY <2>2, <2>3
  <2> QED BY <2>2, <2>4 DEF IsString, s
<1>2. ASSUME NEW j \in to + 1 .. Len(source) + 1, IsLexeme(Text(from, j)) PROVE FALSE
  <2> DEFINE s == Text(from, j)
  <2>1. j \in from + 1 .. Len(source) + 1 /\ to - 1 \in from .. j - 1
    BY <1>0
  <2>2. /\ IsLexeme(s) <=> IsString(s)
        /\ Len(s) = j - from /\ DOMAIN s = 1 .. j - from
        /\ \A k \in from .. j - 1 : k - from + 1 \in 1 .. j - from /\ s[k - from + 1] = source[k]
    BY <2>1, NotALexeme, TextFrom, KindsApart DEF Kinds
  <2>3. IsString(s)
    BY <1>2, <2>2
  <2> HIDE DEF s
  <2>4. to - 1 - from + 1 \in DOMAIN s /\ s[to - 1 - from + 1] \in Quote
    BY <2>1, <2>2
  <2>5. to - 1 - from + 1 \in {1, j - from}
    BY <2>2, <2>3, <2>4 DEF IsString
  <2> QED BY <1>0, <2>1, <2>5
<1> QED BY <1>1, <1>2

LEMMA OpenStringIsNone ==
  ASSUME ScannerAssumption, source \in Seq(Chars), NEW from \in 1 .. Len(source),
         source[from] \in Quote, \A k \in from + 1 .. Len(source) : source[k] \notin Quote,
         NEW j \in from + 1 .. Len(source) + 1
  PROVE  ~IsLexeme(Text(from, j)) /\ ~IsWord(Text(from, j))
<1> DEFINE s == Text(from, j)
<1>0. Len(source) \in Nat /\ from \in Nat \ {0}
  OBVIOUS
<1>1. /\ IsLexeme(s) <=> IsString(s)
      /\ ~IsWord(s) /\ Len(s) = j - from /\ DOMAIN s = 1 .. j - from
      /\ \A k \in 1 .. j - from : s[k] = source[from + k - 1]
  BY <1>0, NotALexeme, TextFrom, KindsApart DEF Kinds
<1> SUFFICES ASSUME IsString(s) PROVE FALSE
  BY <1>1
<1> HIDE DEF s
<1>2. Len(s) >= 2 /\ Len(s) \in DOMAIN s /\ s[Len(s)] \in Quote
  BY <1>0, <1>1 DEF IsString
<1>3. s[Len(s)] = source[j - 1] /\ j - 1 \in from + 1 .. Len(source)
  <2>1. from + (j - from) - 1 = j - 1
    BY <1>0
  <2>2. s[j - from] = source[from + (j - from) - 1]
    BY <1>1, <1>2
  <2> QED BY <1>0, <1>1, <1>2, <2>1, <2>2
<1> QED BY <1>2, <1>3

LEMMA OperatorIsLongest ==
  ASSUME ScannerAssumption, source \in Seq(Chars), NEW from \in 1 .. Len(source),
         NEW to \in from + 1 .. Len(source) + 1,
         \/ to = from + 1 /\ source[from] \in Single
         \/ to = from + 1 /\ source[from] \in MaybeEqual /\ At(from + 1) # "="
         \/ to = from + 2 /\ source[from] \in MaybeEqual /\ source[from + 1] = "="
  PROVE  /\ IsOperator(Text(from, to)) /\ ~IsWord(Text(from, to))
         /\ \A j \in to + 1 .. Len(source) + 1 : ~IsLexeme(Text(from, j))
<1>0. Len(source) \in Nat /\ from \in Nat \ {0} /\ DOMAIN source = 1 .. Len(source)
      /\ source[from] \in Single \cup MaybeEqual
  OBVIOUS
<1>1. IsOperator(Text(from, to)) /\ ~IsWord(Text(from, to))
  <2> DEFINE s == Text(from, to)
  <2>1. /\ ~IsWord(s) /\ Len(s) = to - from /\ s[1] = source[from]
        /\ \A k \in from .. to - 1 : k - from + 1 \in 1 .. to - from /\ s[k - from + 1] = source[k]
    BY <1>0, NotALexeme, TextFrom, KindsApart DEF Kinds
  <2> HIDE DEF s
  <2>2. to = from + 2 => s[2] = source[from + 1]
    <3>1. to = from + 2 => from + 1 \in from .. to - 1 /\ from + 1 - from + 1 = 2
      BY <1>0
    <3> QED BY <2>1, <3>1
  <2> QED BY <1>0, <2>1, <2>2 DEF IsOperator, s
<1>2. ASSUME NEW j \in to + 1 .. Len(source) + 1, IsLexeme(Text(from, j)) PROVE FALSE
  <2> DEFINE s == Text(from, j)
  <2>1. j \in from + 1 .. Len(source) + 1 /\ j >= from + 2
    BY <1>0
  <2>2. /\ IsLexeme(s) <=> IsOperator(s)
        /\ Len(s) = j - from /\ s[1] = source[from]
        /\ \A k \in from .. j - 1 : k - from + 1 \in 1 .. j - from /\ s[k - from + 1] = source[k]
    BY <1>0, <2>1, NotALexeme, TextFrom, KindsApart DEF Kinds
  <2>3. IsOperator(s)
    BY <1>2, <2>2
  <2> HIDE DEF s
  <2>4. Len(s) = 2 /\ s[1] \in MaybeEqual /\ s[2] = "="
    BY <1>0, <2>1, <2>2, <2>3 DEF IsOperator
  <2>5. j = from + 2 /\ to = from + 1 /\ from + 1 \in DOMAIN source
    <3>1. j - from = 2
      BY <2>2, <2>4
    <3> QED BY <1>0, <2>1, <3>1
  <2>6. s[2] = source[from + 1]
    <3>1. from + 1 \in from .. j - 1 /\ from + 1 - from + 1 = 2
      BY <1>0, <2>1
    <3> QED BY <2>2, <3>1
  <2>7. source[from] \notin Single
    BY <2>2, <2>4, KindsApart DEF Kinds
  <2> QED BY <2>2, <2>4, <2>5, <2>6, <2>7 DEF At
<1> QED BY <1>1, <1>2
-----------------------------------------------------------------------------
(* Keywords, letter by letter.                                             *)
Lower == {"a", "b", "c", "d", "e", "f", "g", "h", "i", "j", "k", "l", "m", "n", "o", "p",
          "q", "r", "s", "t", "u", "v", "w", "x", "y", "z"}

Spelt(s, w) == Len(s) = Len(w) /\ \A k \in 1 .. Len(w) : s[k] = w[k]

LEMMA SpeltIs ==
  ASSUME NEW S, NEW T, NEW s \in Seq(S), NEW w \in Seq(T)
  PROVE  s = w <=> Spelt(s, w)
BY SeqEqual, SeqMonotonic DEF Spelt

(* From the n-th letter on, rest follows and nothing else.                 *)
Ends(n, rest) ==
  Len(Lexeme) = n + Len(rest) /\ \A k \in 1 .. Len(rest) : Lexeme[n + k] = rest[k]

LEMMA CheckKeyword ==
  ASSUME Lexeme \in Seq(Chars), NEW n \in Nat, NEW rest \in Seq(Lower),
         NEW type, type # "IDENTIFIER"
  PROVE  check_keyword(n, rest, type) = "IDENTIFIER" <=> ~Ends(n, rest)
<1> DEFINE s == Lexeme
<1> DEFINE m == n + Len(rest)
<1>1. Len(rest) \in Nat /\ s \in Seq(Chars)
  OBVIOUS
<1> HIDE DEF s
<1>2. ASSUME Len(s) = m
      PROVE  SubSeq(s, n + 1, m) = rest <=> \A k \in 1 .. Len(rest) : s[n + k] = rest[k]
  <2> DEFINE t == SubSeq(s, n + 1, m)
  <2>1. t \in Seq(Chars) /\ Len(t) = Len(rest) /\ \A k \in 1 .. Len(rest) : t[k] = s[n + k]
    <3>1. m \in (n + 1) - 1 .. Len(s) /\ n + 1 \in 1 .. Len(s) + 1 /\ m - (n + 1) + 1 = Len(rest)
      BY <1>1, <1>2
    <3>2. \A k \in 1 .. Len(rest) : n + 1 + k - 1 = n + k
      OBVIOUS
    <3> HIDE DEF m
    <3>3. t \in Seq(Chars) /\ Len(t) = m - (n + 1) + 1
          /\ \A k \in 1 .. m - (n + 1) + 1 : t[k] = s[n + 1 + k - 1]
      BY <1>1, <3>1, SubSeqProperties
    <3> QED BY <3>1, <3>2, <3>3
  <2> HIDE DEF t
  <2>2. t = rest <=> Spelt(t, rest)
    BY <2>1, SpeltIs
  <2>3. Spelt(t, rest) <=> \A k \in 1 .. Len(rest) : s[n + k] = rest[k]
    BY <2>1 DEF Spelt
  <2> QED BY <2>2, <2>3 DEF t
<1> QED BY <1>2 DEF check_keyword, Ends, s

(* identifier_type tells the keywords from the names.                      *)
LEMMA KeywordsAreTold ==
  ASSUME Lexeme \in Seq(Chars), Lexeme # <<>>
  PROVE  identifier_type = "IDENTIFIER" <=> Lexeme \notin Keywords
<1>1. CASE Lexeme[1] = "a"
  <2>1. <<"n", "d">> \in Seq(Lower)
    BY DEF Lower
  <2>2. identifier_type = check_keyword(1, <<"n", "d">>, "AND")
    BY <1>1 DEF identifier_type
  <2>3. Ends(1, <<"n", "d">>) <=> Lexeme = <<"a", "n", "d">>
    BY <1>1 DEF Ends
  <2>4. Lexeme \in Keywords <=> Lexeme = <<"a", "n", "d">>
    BY <1>1 DEF Keywords
  <2> QED BY <2>1, <2>2, <2>3, <2>4, CheckKeyword
<1>2. CASE Lexeme[1] = "b"
  <2>1. <<"r", "e", "a", "k">> \in Seq(Lower)
    BY DEF Lower
  <2>2. identifier_type = check_keyword(1, <<"r", "e", "a", "k">>, "BREAK")
    BY <1>2 DEF identifier_type
  <2>3. Ends(1, <<"r", "e", "a", "k">>) <=> Lexeme = <<"b", "r", "e", "a", "k">>
    BY <1>2 DEF Ends
  <2>4. Lexeme \in Keywords <=> Lexeme = <<"b", "r", "e", "a", "k">>
    BY <1>2 DEF Keywords
  <2> QED BY <2>1, <2>2, <2>3, <2>4, CheckKeyword
<1>3. CASE Lexeme[1] = "e"
  <2>1. <<"l", "s", "e">> \in Seq(Lower)
    BY DEF Lower
  <2>2. identifier_type = check_keyword(1, <<"l", "s", "e">>, "ELSE")
    BY <1>3 DEF identifier_type
  <2>3. Ends(1, <<"l", "s", "e">>) <=> Lexeme = <<"e", "l", "s", "e">>
    BY <1>3 DEF Ends
  <2>4. Lexeme \in Keywords <=> Lexeme = <<"e", "l", "s", "e">>
    BY <1>3 DEF Keywords
  <2> QED BY <2>1, <2>2, <2>3, <2>4, CheckKeyword
<1>4. CASE Lexeme[1] = "i"
  <2>1. <<"f">> \in Seq(Lower)
    BY DEF Lower
  <2>2. identifier_type = check_keyword(1, <<"f">>, "IF")
    BY <1>4 DEF identifier_type
  <2>3. Ends(1, <<"f">>) <=> Lexeme = <<"i", "f">>
    BY <1>4 DEF Ends
  <2>4. Lexeme \in Keywords <=> Lexeme = <<"i", "f">>
    BY <1>4 DEF Keywords
  <2> QED BY <2>1, <2>2, <2>3, <2>4, CheckKeyword
<1>5. CASE Lexeme[1] = "o"
  <2>1. <<"r">> \in Seq(Lower)
    BY DEF Lower
  <2>2. identifier_type = check_keyword(1, <<"r">>, "OR")
    BY <1>5 DEF identifier_type
  <2>3. Ends(1, <<"r">>) <=> Lexeme = <<"o", "r">>
    BY <1>5 DEF Ends
  <2>4. Lexeme \in Keywords <=> Lexeme = <<"o", "r">>
    BY <1>5 DEF Keywords
  <2> QED BY <2>1, <2>2, <2>3, <2>4, CheckKeyword
<1>6. CASE Lexeme[1] = "p"
  <2>1. <<"r", "i", "n", "t">> \in Seq(Lower)
    BY DEF Lower
  <2>2. identifier_type = check_keyword(1, <<"r", "i", "n", "t">>, "PRINT")
    BY <1>6 DEF identifier_type
  <2>3. Ends(1, <<"r", "i", "n", "t">>) <=> Lexeme = <<"p", "r", "i", "n", "t">>
    BY <1>6 DEF Ends
  <2>4. Lexeme \in Keywords <=> Lexeme = <<"p", "r", "i", "n", "t">>
    BY <1>6 DEF Keywords
  <2> QED BY <2>1, <2>2, <2>3, <2>4, CheckKeyword
<1>7. CASE Lexeme[1] = "r"
  <2>1. <<"e", "t", "u", "r", "n">> \in Seq(Lower)
    BY DEF Lower
  <2>2. identifier_type = check_keyword(1, <<"e", "t", "u", "r", "n">>, "RETURN")
    BY <1>7 DEF identifier_type
  <2>3. Ends(1, <<"e", "t", "u", "r", "n">>) <=> Lexeme = <<"r", "e", "t", "u", "r", "n">>
    BY <1>7 DEF Ends
  <2>4. Lexeme \in Keywords <=> Lexeme = <<"r", "e", "t", "u", "r", "n">>
    BY <1>7 DEF Keywords
  <2> QED BY <2>1, <2>2, <2>3, <2>4, CheckKeyword
<1>8. CASE Lexeme[1] = "t"
  <2>1. <<"r", "u", "e">> \in Seq(Lower)
    BY DEF Lower
  <2>2. identifier_type = check_keyword(1, <<"r", "u", "e">>, "TRUE")
    BY <1>8 DEF identifier_type
  <2>3. Ends(1, <<"r", "u", "e">>) <=> Lexeme = <<"t", "r", "u", "e">>
    BY <1>8 DEF Ends
  <2>4. Lexeme \in Keywords <=> Lexeme = <<"t", "r", "u", "e">>
    BY <1>8 DEF Keywords
  <2> QED BY <2>1, <2>2, <2>3, <2>4, CheckKeyword
<1>9. CASE Lexeme[1] = "v"
  <2>1. <<"a", "r">> \in Seq(Lower)
    BY DEF Lower
  <2>2. identifier_type = check_keyword(1, <<"a", "r">>, "VAR")
    BY <1>9 DEF identifier_type
  <2>3. Ends(1, <<"a", "r">>) <=> Lexeme = <<"v", "a", "r">>
    BY <1>9 DEF Ends
  <2>4. Lexeme \in Keywords <=> Lexeme = <<"v", "a", "r">>
    BY <1>9 DEF Keywords
  <2> QED BY <2>1, <2>2, <2>3, <2>4, CheckKeyword
<1>10. CASE Lexeme[1] = "w"
  <2>1. <<"h", "i", "l", "e">> \in Seq(Lower)
    BY DEF Lower
  <2>2. identifier_type = check_keyword(1, <<"h", "i", "l", "e">>, "WHILE")
    BY <1>10 DEF identifier_type
  <2>3. Ends(1, <<"h", "i", "l", "e">>) <=> Lexeme = <<"w", "h", "i", "l", "e">>
    BY <1>10 DEF Ends
  <2>4. Lexeme \in Keywords <=> Lexeme = <<"w", "h", "i", "l", "e">>
    BY <1>10 DEF Keywords
  <2> QED BY <2>1, <2>2, <2>3, <2>4, CheckKeyword
<1>11. CASE Lexeme[1] = "d"
  <2> DEFINE long == <<"e", "f", "a", "u", "l", "t">>
  <2> DEFINE short == <<"e", "f">>
  <2>1. long \in Seq(Lower) /\ short \in Seq(Lower)
    BY DEF Lower
  <2>2. identifier_type = IF Len(Lexeme) > 3 THEN check_keyword(1, long, "DEFAULT")
                                             ELSE check_keyword(1, short, "DEF")
    BY <1>11 DEF identifier_type
  <2>3. /\ Ends(1, long) <=> Lexeme = <<"d", "e", "f", "a", "u", "l", "t">>
        /\ Ends(1, short) <=> Lexeme = <<"d", "e", "f">>
    BY <1>11 DEF Ends
  <2>4. Lexeme \in Keywords <=>
          Lexeme = <<"d", "e", "f">> \/ Lexeme = <<"d", "e", "f", "a", "u", "l", "t">>
    BY <1>11 DEF Keywords
  <2>5. (Ends(1, long) => Len(Lexeme) > 3) /\ (Ends(1, short) => ~(Len(Lexeme) > 3))
    <3>1. Len(long) = 6 /\ Len(short) = 2
      OBVIOUS
    <3> HIDE DEF long, short
    <3>2. (Ends(1, long) => Len(Lexeme) = 7) /\ (Ends(1, short) => Len(Lexeme) = 3)
      BY <3>1 DEF Ends
    <3> QED BY <3>2, SMTT(30)
  <2> HIDE DEF long, short
  <2>6. /\ check_keyword(1, long, "DEFAULT") = "IDENTIFIER" <=> ~Ends(1, long)
        /\ check_keyword(1, short, "DEF") = "IDENTIFIER" <=> ~Ends(1, short)
    BY <2>1, CheckKeyword
  <2> QED BY <2>2, <2>3, <2>4, <2>5, <2>6
<1>12. CASE Lexeme[1] = "c"
  <2>1. /\ <<"a", "s", "s">> \in Seq(Lower)
        /\ <<"s", "e">> \in Seq(Lower)
        /\ <<"n", "s", "t">> \in Seq(Lower)
    BY DEF Lower
  <2>2. identifier_type =
         IF Len(Lexeme) > 1 /\ Lexeme[2] = "l" THEN check_keyword(2, <<"a", "s", "s">>, "CLASS")
         ELSE IF Len(Lexeme) > 1 /\ Lexeme[2] = "a" THEN check_keyword(2, <<"s", "e">>, "CASE")
         ELSE IF Len(Lexeme) > 1 /\ Lexeme[2] = "o" THEN check_keyword(2, <<"n", "s", "t">>, "CONST")
         ELSE "IDENTIFIER"
    BY <1>12 DEF identifier_type, NUL
  <2>3. /\ Lexeme[2] = "l" /\ Ends(2, <<"a", "s", "s">>) <=> Lexeme = <<"c", "l", "a", "s", "s">>
        /\ Lexeme[2] = "a" /\ Ends(2, <<"s", "e">>) <=> Lexeme = <<"c", "a", "s", "e">>
        /\ Lexeme[2] = "o" /\ Ends(2, <<"n", "s", "t">>) <=> Lexeme = <<"c", "o", "n", "s", "t">>
    BY <1>12 DEF Ends
  <2>4. Lexeme \in Keywords <=>
          Lexeme \in {<<"c", "l", "a", "s", "s">>,
                     <<"c", "a", "s", "e">>,
                     <<"c", "o", "n", "s", "t">>}
    BY <1>12 DEF Keywords
  <2>5. Lexeme \in Keywords => Len(Lexeme) > 1 /\ Lexeme[2] \in {"l", "a", "o"}
    BY <2>4
  <2> QED BY <2>1, <2>2, <2>3, <2>4, <2>5, CheckKeyword
<1>13. CASE Lexeme[1] = "f"
  <2>1. /\ <<"l", "s", "e">> \in Seq(Lower)
        /\ <<"r">> \in Seq(Lower)
        /\ <<"n">> \in Seq(Lower)
    BY DEF Lower
  <2>2. identifier_type =
         IF Len(Lexeme) > 1 /\ Lexeme[2] = "a" THEN check_keyword(2, <<"l", "s", "e">>, "FALSE")
         ELSE IF Len(Lexeme) > 1 /\ Lexeme[2] = "o" THEN check_keyword(2, <<"r">>, "FOR")
         ELSE IF Len(Lexeme) > 1 /\ Lexeme[2] = "u" THEN check_keyword(2, <<"n">>, "FUN")
         ELSE "IDENTIFIER"
    BY <1>13 DEF identifier_type, NUL
  <2>3. /\ Lexeme[2] = "a" /\ Ends(2, <<"l", "s", "e">>) <=> Lexeme = <<"f", "a", "l", "s", "e">>
        /\ Lexeme[2] = "o" /\ Ends(2, <<"r">>) <=> Lexeme = <<"f", "o", "r">>
        /\ Lexeme[2] = "u" /\ Ends(2, <<"n">>) <=> Lexeme = <<"f", "u", "n">>
    BY <1>13 DEF Ends
  <2>4. Lexeme \in Keywords <=>
          Lexeme \in {<<"f", "a", "l", "s", "e">>,
                     <<"f", "o", "r">>,
                     <<"f", "u", "n">>}
    BY <1>13 DEF Keywords
  <2>5. Lexeme \in Keywords => Len(Lexeme) > 1 /\ Lexeme[2] \in {"a", "o", "u"}
    BY <2>4
  <2> QED BY <2>1, <2>2, <2>3, <2>4, <2>5, CheckKeyword
<1>14. CASE Lexeme[1] = "n"
  <2>1. /\ <<"l">> \in Seq(Lower)
        /\ <<"x", "t">> \in Seq(Lower)
    BY DEF Lower
  <2>2. identifier_type =
         IF Len(Lexeme) > 1 /\ Lexeme[2] = "i" THEN check_keyword(2, <<"l">>, "NIL")
         ELSE IF Len(Lexeme) > 1 /\ Lexeme[2] = "e" THEN check_keyword(2, <<"x", "t">>, "NEXT")
         ELSE "IDENTIFIER"
    BY <1>14 DEF identifier_type, NUL
  <2>3. /\ Lexeme[2] = "i" /\ Ends(2, <<"l">>) <=> Lexeme = <<"n", "i", "l">>
        /\ Lexeme[2] = "e" /\ Ends(2, <<"x", "t">>) <=> Lexeme = <<"n", "e", "x", "t">>
    BY <1>14 DEF Ends
  <2>4. Lexeme \in Keywords <=>
          Lexeme \in {<<"n", "i", "l">>,
                     <<"n", "e", "x", "t">>}
    BY <1>14 DEF Keywords
  <2>5. Lexeme \in Keywords => Len(Lexeme) > 1 /\ Lexeme[2] \in {"i", "e"}
    BY <2>4
  <2> QED BY <2>1, <2>2, <2>3, <2>4, <2>5, CheckKeyword
<1>15. CASE Lexeme[1] = "s"
  <2>1. /\ <<"p", "e", "r">> \in Seq(Lower)
        /\ <<"l", "f">> \in Seq(Lower)
        /\ <<"i", "t", "c", "h">> \in Seq(Lower)
    BY DEF Lower
  <2>2. identifier_type =
         IF Len(Lexeme) > 1 /\ Lexeme[2] = "u" THEN check_keyword(2, <<"p", "e", "r">>, "SUPER")
         ELSE IF Len(Lexeme) > 1 /\ Lexeme[2] = "e" THEN check_keyword(2, <<"l", "f">>, "SELF")
         ELSE IF Len(Lexeme) > 1 /\ Lexeme[2] = "w"
              THEN check_keyword(2, <<"i", "t", "c", "h">>, "SWITCH")
         ELSE "IDENTIFIER"
    BY <1>15 DEF identifier_type, NUL
  <2>3. /\ Lexeme[2] = "u" /\ Ends(2, <<"p", "e", "r">>) <=> Lexeme = <<"s", "u", "p", "e", "r">>
        /\ Lexeme[2] = "e" /\ Ends(2, <<"l", "f">>) <=> Lexeme = <<"s", "e", "l", "f">>
        /\ Lexeme[2] = "w" /\ Ends(2, <<"i", "t", "c", "h">>)
             <=> Lexeme = <<"s", "w", "i", "t", "c", "h">>
    BY <1>15 DEF Ends
  <2>4. Lexeme \in Keywords <=>
          Lexeme \in {<<"s", "u", "p", "e", "r">>,
                     <<"s", "e", "l", "f">>,
                     <<"s", "w", "i", "t", "c", "h">>}
    BY <1>15 DEF Keywords
  <2>5. Lexeme \in Keywords => Len(Lexeme) > 1 /\ Lexeme[2] \in {"u", "e", "w"}
    BY <2>4
  <2> QED BY <2>1, <2>2, <2>3, <2>4, <2>5, CheckKeyword
<1>16. CASE Lexeme[1] \notin {"a", "b", "c", "d", "e", "f",
                              "i", "n", "o", "p", "r", "s", "t", "v", "w"}
  <2>1. identifier_type = "IDENTIFIER"
    BY <1>16 DEF identifier_type
  <2>2. Lexeme \notin Keywords
    BY <1>16 DEF Keywords
  <2> QED BY <2>1, <2>2
<1> QED BY <1>1, <1>2, <1>3, <1>4, <1>5, <1>6, <1>7, <1>8, <1>9,
            <1>10, <1>11, <1>12, <1>13, <1>14, <1>15, <1>16
-----------------------------------------------------------------------------
(* What has been read of the token under way.                              *)
Reading ==
  /\ pc = "identifier" => /\ source[start] \in Letters
                          /\ \A k \in start .. current - 1 : source[k] \in Letters \cup Digits
  /\ pc = "number" => \A k \in start .. current - 1 : source[k] \in Digits
  /\ pc = "fraction" =>
       \E d \in start + 1 .. current - 1 :
         /\ source[d] = "." /\ (d = current - 1 => is_digit(peek))
         /\ \A k \in start .. current - 1 : k # d => source[k] \in Digits
  /\ pc = "string" => /\ source[start] \in Quote
                      /\ \A k \in start + 1 .. current - 1 : source[k] \notin Quote

(* What LongestToken says of a token of that type and place.               *)
Right(type, from, to) ==
  /\ type \notin {"ERROR", "EOF"} => IsLexeme(Text(from, to))
  /\ \A j \in from + 1 .. Len(source) + 1 :
       (j > to \/ type = "ERROR") => ~IsLexeme(Text(from, j))
  /\ IsWord(Text(from, to)) => (Text(from, to) \notin Keywords <=> type = "IDENTIFIER")

Rights == \A n \in DOMAIN tokens : Right(tokens[n].type, tokens[n].start, EndOf(n))

WInv == TInv /\ Reading /\ Rights

LEMMA StaysRight ==
  ASSUME UNCHANGED <<source, tokens>>, Rights
  PROVE  Rights'
BY DEF Rights, Right, Text, EndOf

LEMMA NewRight ==
  ASSUME ScannerAssumption, TInv, Rights, source' = source, NEW type,
         NEW from \in Nat, NEW to \in Nat, start' = from, current' = to, from <= to,
         Right(type, from, to), type \in Types, make_token(type)
  PROVE  Rights' /\ Reading'
<1> DEFINE t == [type |-> type, start |-> from, length |-> to - from, line |-> line']
<1>1. Len(tokens) \in Nat /\ DOMAIN tokens = 1 .. Len(tokens)
  BY EndIs DEF TInv
<1>2. tokens' = Append(tokens, t) /\ pc' \in {"skip", "done"}
  BY DEF make_token
<1>t. t.type = type /\ t.start = from /\ t.length = to - from
  OBVIOUS
<1> HIDE DEF t
<1>3. /\ DOMAIN tokens' = 1 .. Len(tokens) + 1 /\ tokens'[Len(tokens) + 1] = t
      /\ \A n \in 1 .. Len(tokens) : tokens'[n] = tokens[n]
  <2> DEFINE Any == {tokens[n] : n \in DOMAIN tokens} \cup {t}
  <2>1. tokens \in Seq(Any) /\ t \in Any
    <3>1. tokens \in Seq([type : Types, start : Nat, length : Nat, line : Nat])
      BY DEF TInv, Tiled
    <3>2. tokens = [n \in 1 .. Len(tokens) |-> tokens[n]]
      BY <3>1
    <3> QED BY <1>1, <3>2, IsASeq
  <2> HIDE DEF Any
  <2> QED BY <1>1, <1>2, <2>1, AppendProperties, LenProperties
<1>4. ASSUME NEW n \in DOMAIN tokens'
      PROVE  Right(tokens[n].type, tokens[n].start, EndOf(n))'
  <2>1. CASE n \in 1 .. Len(tokens)
    <3>1. tokens'[n] = tokens[n] /\ Right(tokens[n].type, tokens[n].start, EndOf(n))
      BY <1>1, <1>3, <2>1 DEF Rights
    <3> QED BY <2>1, <3>1 DEF Right, Text, EndOf
  <2>2. CASE n = Len(tokens) + 1
    <3>1. tokens'[n].type = type /\ tokens'[n].start = from /\ EndOf(n)' = to
      BY <1>1, <1>3, <1>t, <2>2 DEF EndOf
    <3> QED BY <3>1 DEF Right, Text
  <2> QED BY <1>3, <2>1, <2>2
<1>5. Rights'
  BY <1>4 DEF Rights
<1>6. Reading'
  BY <1>2 DEF Reading
<1> QED BY <1>5, <1>6

(* Steps that make no token.                                               *)
LEMMA SkipRight ==
  ASSUME ScannerAssumption, WInv, skip_whitespace \/ skip_comment
  PROVE  Rights' /\ Reading'
<1>1. UNCHANGED <<source, tokens>> /\ pc' \in {"skip", "comment"}
  BY DEF skip_whitespace, skip_comment
<1> QED BY <1>1, StaysRight DEF WInv, Reading

(* A word goes on, or ends.                                                *)
LEMMA IdentifierRight ==
  ASSUME ScannerAssumption, WInv, identifier
  PROVE  Rights' /\ Reading'
<1>1. /\ start < current /\ start \in Nat \ {0} /\ current \in Nat \ {0} /\ Len(source) \in Nat
      /\ DOMAIN source = 1 .. Len(source) /\ current <= Len(source) + 1 /\ source \in Seq(Chars)
      /\ source[start] \in Letters
      /\ \A k \in start .. current - 1 : source[k] \in Letters \cup Digits
      /\ TInv /\ Rights /\ Position
  BY InToken DEF WInv, Reading, identifier, Position
<1>2. CASE is_alpha(peek) \/ is_digit(peek)
  <2>1. peek # NUL /\ advance_current /\ UNCHANGED <<pc, tokens, source, start>>
    BY <1>2, NoNUL DEF identifier
  <2>2. peek = source[current] /\ current' = current + 1
    BY <1>1, <2>1, Reads DEF advance_current
  <2>3. \A k \in start .. current : source[k] \in Letters \cup Digits
    BY <1>1, <1>2, <2>2 DEF is_alpha, is_digit
  <2>4. \A k \in start' .. current' - 1 : source'[k] \in Letters \cup Digits
    BY <1>1, <2>1, <2>2, <2>3
  <2>5. pc' = "identifier"
    BY <2>1 DEF identifier
  <2> QED BY <1>1, <2>1, <2>4, <2>5, StaysRight DEF Reading
<1>3. CASE ~(is_alpha(peek) \/ is_digit(peek))
  <2> DEFINE type == identifier_type
  <2>1. make_token(type) /\ UNCHANGED <<source, start, current, line>>
    BY <1>3 DEF identifier
  <2>2. type \in Types /\ type \notin {"EOF", "ERROR"}
    BY TypesOfWords
  <2>3. current <= Len(source) => source[current] \notin Letters \cup Digits
    BY <1>1, <1>3 DEF is_alpha, is_digit, peek, At
  <2>4. /\ IsWord(Text(start, current))
        /\ \A j \in current + 1 .. Len(source) + 1 : ~IsLexeme(Text(start, j))
    BY <1>1, <2>3, WordIsLongest
  <2>5. Lexeme \in Seq(Chars) /\ Lexeme # <<>>
    BY <1>1, TextFrom, <2>4 DEF Lexeme, IsWord
  <2>6. type = "IDENTIFIER" <=> Text(start, current) \notin Keywords
    BY <2>5, KeywordsAreTold DEF Lexeme
  <2>7. Right(type, start, current)
    <3>1. IsLexeme(Text(start, current))
      BY <2>4 DEF IsLexeme
    <3> HIDE DEF type
    <3>2. \A j \in start + 1 .. Len(source) + 1 : j > current => j \in current + 1 .. Len(source) + 1
      BY <1>1
    <3> QED BY <1>1, <2>2, <2>4, <2>6, <3>1, <3>2 DEF Right
  <2> HIDE DEF type
  <2> QED BY <1>1, <2>1, <2>2, <2>7, NewRight
<1> QED BY <1>2, <1>3

(* A token that ends where the scanner stands.                             *)
LEMMA EndsRight ==
  ASSUME ScannerAssumption, WInv, pc \in {"identifier", "number", "fraction", "string"},
         UNCHANGED <<source, start, current>>, NEW type \in Types, make_token(type),
         type \notin {"ERROR", "EOF", "IDENTIFIER"}, IsLexeme(Text(start, current)),
         ~IsWord(Text(start, current)),
         \A j \in current + 1 .. Len(source) + 1 : ~IsLexeme(Text(start, j))
  PROVE  Rights' /\ Reading'
<1>1. /\ start < current /\ start \in Nat \ {0} /\ current \in Nat \ {0} /\ Len(source) \in Nat
      /\ TInv /\ Rights
  BY InToken DEF WInv
<1>2. \A j \in start + 1 .. Len(source) + 1 : j > current => j \in current + 1 .. Len(source) + 1
  BY <1>1
<1>3. Right(type, start, current)
  BY <1>2 DEF Right
<1> QED BY <1>1, <1>3, NewRight

LEMMA InNumber ==
  ASSUME ScannerAssumption, WInv, pc \in {"number", "fraction", "string"}
  PROVE  /\ start < current /\ start \in Nat \ {0} /\ current \in Nat \ {0} /\ Len(source) \in Nat
         /\ DOMAIN source = 1 .. Len(source) /\ current <= Len(source) + 1
         /\ source \in Seq(Chars) /\ TInv /\ Rights /\ Position /\ start \in start .. current - 1
<1>1. /\ start < current /\ start \in Nat \ {0} /\ current \in Nat \ {0} /\ Len(source) \in Nat
      /\ DOMAIN source = 1 .. Len(source) /\ current <= Len(source) + 1
      /\ TInv /\ Rights /\ Position
  BY InToken DEF WInv
<1> QED BY <1>1 DEF Position

LEMMA NumberRight ==
  ASSUME ScannerAssumption, WInv, number
  PROVE  Rights' /\ Reading'
<1>1. /\ start < current /\ start \in Nat \ {0} /\ current \in Nat \ {0} /\ Len(source) \in Nat
      /\ DOMAIN source = 1 .. Len(source) /\ current <= Len(source) + 1
      /\ source \in Seq(Chars) /\ TInv /\ Rights /\ Position /\ start \in start .. current - 1
  BY InNumber DEF number
<1>2. (\A k \in start .. current - 1 : source[k] \in Digits) /\ UNCHANGED <<source, start>>
      /\ pc = "number"
  BY DEF number, WInv, Reading
<1>3. CASE is_digit(peek)
  <2>1. peek # NUL /\ advance_current /\ UNCHANGED <<pc, tokens>>
    BY <1>3, NoNUL DEF number
  <2>2. peek = source[current] /\ current' = current + 1
    BY <1>1, <2>1, Reads DEF advance_current
  <2>3. \A k \in start .. current : source[k] \in Digits
    BY <1>1, <1>2, <1>3, <2>2 DEF is_digit
  <2>4. \A k \in start' .. current' - 1 : source'[k] \in Digits
    BY <1>1, <1>2, <2>2, <2>3
  <2> QED BY <1>1, <1>2, <2>1, <2>4, StaysRight DEF Reading
<1>4. CASE ~is_digit(peek) /\ peek = "." /\ is_digit(peek_next)
  <2>1. advance_current /\ pc' = "fraction" /\ UNCHANGED tokens /\ peek # NUL
    BY <1>4 DEF number, NUL
  <2>2. peek = source[current] /\ current' = current + 1 /\ current \in DOMAIN source
    BY <1>1, <2>1, Reads DEF advance_current
  <2>3. peek' = peek_next
    BY <1>2, <2>1, <2>2 DEF peek, peek_next, At
  <2>4. /\ current \in start' + 1 .. current' - 1 /\ source'[current] = "."
        /\ is_digit(peek)' /\ current = current' - 1
        /\ \A k \in start' .. current' - 1 : k # current => source'[k] \in Digits
    BY <1>1, <1>2, <1>4, <2>2, <2>3 DEF is_digit
  <2>5. \E d \in start' + 1 .. current' - 1 :
          /\ source'[d] = "." /\ (d = current' - 1 => is_digit(peek)')
          /\ \A k \in start' .. current' - 1 : k # d => source'[k] \in Digits
    BY <2>4
  <2> QED BY <1>1, <1>2, <2>1, <2>5, StaysRight DEF Reading
<1>5. CASE ~is_digit(peek) /\ ~(peek = "." /\ is_digit(peek_next))
  <2>1. UNCHANGED <<current, line>> /\ make_token("NUMBER")
    BY <1>5 DEF number
  <2> DEFINE points == {k \in start .. current - 1 : source[k] = "."}
  <2>2. points = {}
    <3>1. \A k \in start .. current - 1 : source[k] # "."
      BY <1>2, KindsApart DEF Kinds
    <3> QED BY <3>1
  <2>3. current <= Len(source) => source[current] \notin Digits
    BY <1>1, <1>5 DEF is_digit, peek, At
  <2>4. ~(At(current) = "." /\ is_digit(At(current + 1)))
    BY <1>5 DEF peek, peek_next, NUL
  <2>5. \A k \in start .. current - 1 : source[k] \in Digits \cup {"."}
    BY <1>2
  <2>6. source[start] \in Digits
    BY <1>1, <1>2
  <2>7. \A k, l \in points : k = l /\ k \in start + 1 .. current - 2
    BY <2>2
  <2>p. points = {k \in start .. current - 1 : source[k] = "."}
    OBVIOUS
  <2> HIDE DEF points
  <2>8. /\ IsNumber(Text(start, current))
        /\ \A j \in current + 1 .. Len(source) + 1 : ~IsLexeme(Text(start, j))
    BY <1>1, <2>2, <2>3, <2>4, <2>5, <2>6, <2>7, <2>p, NumberIsLongest
  <2>9. ~IsWord(Text(start, current)) /\ IsLexeme(Text(start, current))
    BY <1>1, <2>6, <2>8, NotALexeme, KindsApart DEF Kinds, IsLexeme
  <2>10. "NUMBER" \in Types
    BY DEF Types
  <2> QED BY <1>2, <2>1, <2>8, <2>9, <2>10, EndsRight
<1> QED BY <1>3, <1>4, <1>5

LEMMA FractionRight ==
  ASSUME ScannerAssumption, WInv, fraction
  PROVE  Rights' /\ Reading'
<1>1. /\ start < current /\ start \in Nat \ {0} /\ current \in Nat \ {0} /\ Len(source) \in Nat
      /\ DOMAIN source = 1 .. Len(source) /\ current <= Len(source) + 1
      /\ source \in Seq(Chars) /\ TInv /\ Rights /\ Position /\ start \in start .. current - 1
  BY InNumber DEF fraction
<1>2. UNCHANGED <<source, start>> /\ pc = "fraction"
  BY DEF fraction
<1>d. PICK d \in start + 1 .. current - 1 :
         /\ source[d] = "." /\ (d = current - 1 => is_digit(peek))
         /\ \A k \in start .. current - 1 : k # d => source[k] \in Digits
  BY <1>2 DEF WInv, Reading
<1>3. CASE is_digit(peek)
  <2>1. peek # NUL /\ advance_current /\ UNCHANGED <<pc, tokens>>
    BY <1>3, NoNUL DEF fraction
  <2>2. peek = source[current] /\ current' = current + 1
    BY <1>1, <2>1, Reads DEF advance_current
  <2>3. \A k \in start .. current : k # d => source[k] \in Digits
    BY <1>1, <1>3, <1>d, <2>2 DEF is_digit
  <2>4. /\ d \in start' + 1 .. current' - 1 /\ source'[d] = "." /\ d # current' - 1
        /\ \A k \in start' .. current' - 1 : k # d => source'[k] \in Digits
    BY <1>1, <1>2, <1>d, <2>2, <2>3
  <2>5. \E e \in start' + 1 .. current' - 1 :
          /\ source'[e] = "." /\ (e = current' - 1 => is_digit(peek)')
          /\ \A k \in start' .. current' - 1 : k # e => source'[k] \in Digits
    BY <2>4
  <2> QED BY <1>1, <1>2, <2>1, <2>5, StaysRight DEF Reading
<1>4. CASE ~is_digit(peek)
  <2>1. UNCHANGED <<current, line>> /\ make_token("NUMBER")
    BY <1>4 DEF fraction
  <2> DEFINE points == {k \in start .. current - 1 : source[k] = "."}
  <2>2. points = {d}
    <3>1. \A k \in start .. current - 1 : k # d => source[k] # "."
      BY <1>d, KindsApart DEF Kinds
    <3>2. d \in points
      BY <1>1, <1>d
    <3> QED BY <3>1, <3>2
  <2>3. current <= Len(source) => source[current] \notin Digits
    BY <1>1, <1>4 DEF is_digit, peek, At
  <2>4. points # {}
    BY <2>2
  <2>5. \A k \in start .. current - 1 : source[k] \in Digits \cup {"."}
    BY <1>d
  <2>6. source[start] \in Digits
    BY <1>1, <1>d
  <2>7. \A k, l \in points : k = l /\ k \in start + 1 .. current - 2
    BY <1>1, <1>4, <1>d, <2>2
  <2>p. points = {k \in start .. current - 1 : source[k] = "."}
    OBVIOUS
  <2> HIDE DEF points
  <2>8. /\ IsNumber(Text(start, current))
        /\ \A j \in current + 1 .. Len(source) + 1 : ~IsLexeme(Text(start, j))
    BY <1>1, <2>3, <2>4, <2>5, <2>6, <2>7, <2>p, NumberIsLongest
  <2>9. ~IsWord(Text(start, current)) /\ IsLexeme(Text(start, current))
    BY <1>1, <2>6, <2>8, NotALexeme, KindsApart DEF Kinds, IsLexeme
  <2>10. "NUMBER" \in Types
    BY DEF Types
  <2> QED BY <1>2, <2>1, <2>8, <2>9, <2>10, EndsRight
<1> QED BY <1>3, <1>4

LEMMA StringRight ==
  ASSUME ScannerAssumption, WInv, string
  PROVE  Rights' /\ Reading'
<1>1. /\ start < current /\ start \in Nat \ {0} /\ current \in Nat \ {0} /\ Len(source) \in Nat
      /\ DOMAIN source = 1 .. Len(source) /\ current <= Len(source) + 1
      /\ source \in Seq(Chars) /\ TInv /\ Rights /\ Position /\ start \in start .. current - 1
  BY InNumber DEF string
<1>2. /\ UNCHANGED <<source, start>> /\ pc = "string" /\ source[start] \in Quote
      /\ \A k \in start + 1 .. current - 1 : source[k] \notin Quote
  BY DEF string, WInv, Reading
<1>3. CASE peek \notin Quote \cup {NUL}
  <2>1. peek # NUL /\ advance_current /\ UNCHANGED <<pc, tokens>>
    BY <1>3 DEF string
  <2>2. peek = source[current] /\ current' = current + 1
    BY <1>1, <2>1, Reads DEF advance_current
  <2>3. \A k \in start + 1 .. current : source[k] \notin Quote
    BY <1>1, <1>2, <1>3, <2>2
  <2>4. /\ source'[start'] \in Quote
        /\ \A k \in start' + 1 .. current' - 1 : source'[k] \notin Quote
    BY <1>1, <1>2, <2>2, <2>3
  <2> QED BY <1>1, <1>2, <2>1, <2>4, StaysRight DEF Reading
<1>4. CASE peek = NUL
  <2>1. UNCHANGED <<current, line>> /\ make_token("ERROR") /\ "ERROR" \in Types
    BY <1>4 DEF string, Types
  <2>2. current = Len(source) + 1
    BY <1>1, <1>4, Reads
  <2>3. \A k \in start + 1 .. Len(source) : source[k] \notin Quote
    BY <1>1, <1>2, <2>2
  <2>4. \A j \in start + 1 .. Len(source) + 1 : ~IsLexeme(Text(start, j)) /\ ~IsWord(Text(start, j))
    <3>1. start \in 1 .. Len(source)
      BY <1>1, <2>2
    <3> QED BY <1>1, <1>2, <2>3, <3>1, OpenStringIsNone
  <2>5. current \in start + 1 .. Len(source) + 1
    BY <1>1, <2>2
  <2>6. Right("ERROR", start, current)
    BY <2>4, <2>5 DEF Right
  <2> QED BY <1>1, <1>2, <2>1, <2>6, NewRight
<1>5. CASE peek \in Quote
  <2>1. peek # NUL /\ advance_current /\ make_token("STRING") /\ "STRING" \in Types
    BY <1>5, NoNUL DEF string, Types
  <2>2. peek = source[current] /\ current' = current + 1 /\ current \in DOMAIN source
    BY <1>1, <2>1, Reads DEF advance_current
  <2> DEFINE to == current + 1
  <2>3. to \in start + 2 .. Len(source) + 1 /\ to - 1 = current /\ to - 2 = current - 1 /\ to \in Nat
    BY <1>1, <2>2
  <2>4. source[to - 1] \in Quote /\ \A k \in start + 1 .. to - 2 : source[k] \notin Quote
    BY <1>2, <1>5, <2>2, <2>3
  <2>5. /\ IsString(Text(start, to)) /\ ~IsWord(Text(start, to))
        /\ \A j \in to + 1 .. Len(source) + 1 : ~IsLexeme(Text(start, j))
    BY <1>1, <1>2, <2>3, <2>4, StringIsLongest
  <2>6. \A j \in start + 1 .. Len(source) + 1 : j > to => j \in to + 1 .. Len(source) + 1
    BY <1>1
  <2>t. current' = to
    BY <2>2
  <2> HIDE DEF to
  <2>7. Right("STRING", start, to)
    BY <2>5, <2>6 DEF Right, IsLexeme
  <2>8. start <= to
    BY <1>1, <2>3
  <2> QED BY <1>1, <1>2, <2>1, <2>t, <2>3, <2>7, <2>8, NewRight
<1> QED BY <1>3, <1>4, <1>5

(* scan_token makes the tokens of one or two characters, and begins the    *)
(* longer ones.                                                            *)
LEMMA OperatorRight ==
  ASSUME ScannerAssumption, WInv, source' = source, start' = current, peek # NUL,
         NEW to \in Nat, current' = to, to \in current + 1 .. Len(source) + 1,
         NEW type \in Types, make_token(type), type \notin {"ERROR", "EOF", "IDENTIFIER"},
         \/ to = current + 1 /\ peek \in Single
         \/ to = current + 1 /\ peek \in MaybeEqual /\ peek_next # "="
         \/ to = current + 2 /\ peek \in MaybeEqual /\ peek_next = "="
  PROVE  Rights' /\ Reading'
<1>1. /\ TInv /\ Rights /\ Position /\ source \in Seq(Chars) /\ current \in DOMAIN source
      /\ DOMAIN source = 1 .. Len(source) /\ Len(source) \in Nat /\ peek = source[current]
      /\ current \in Nat
  BY Reads DEF WInv, TInv, Position
<1>2. peek_next = At(current + 1) /\ (peek_next = "=" => source[current + 1] = "=")
  BY <1>1, Reads DEF peek_next, NUL
<1>3. /\ IsOperator(Text(current, to)) /\ ~IsWord(Text(current, to))
      /\ \A j \in to + 1 .. Len(source) + 1 : ~IsLexeme(Text(current, j))
  BY <1>1, <1>2, OperatorIsLongest
<1>4. \A j \in current + 1 .. Len(source) + 1 : j > to => j \in to + 1 .. Len(source) + 1
  BY <1>1
<1>5. Right(type, current, to)
  BY <1>3, <1>4 DEF Right, IsLexeme
<1>6. current <= to
  BY <1>1
<1> QED BY <1>1, <1>5, <1>6, NewRight

LEMMA ScanTokenRight ==
  ASSUME ScannerAssumption, WInv, scan_token
  PROVE  Rights' /\ Reading'
<1>1. /\ TInv /\ Rights /\ Position /\ source \in Seq(Chars) /\ current \in Nat \ {0}
      /\ DOMAIN source = 1 .. Len(source) /\ Len(source) \in Nat /\ current <= Len(source) + 1
      /\ UNCHANGED source /\ start' = current
  BY Reads DEF WInv, TInv, Position, scan_token
<1>2. CASE peek = NUL
  <2>1. current = Len(source) + 1
    BY <1>1, <1>2, Reads
  <2>2. current' = current /\ make_token("EOF") /\ "EOF" \in Types
    BY <1>2 DEF scan_token, Types
  <2>3. Text(current, current) = <<>>
    BY <1>1, SubSeqEmpty DEF Text
  <2>4. Right("EOF", current, current)
    BY <1>1, <2>1, <2>3 DEF Right, IsWord
  <2> QED BY <1>1, <2>2, <2>4, NewRight
<1>3. ASSUME peek # NUL
      PROVE  current \in DOMAIN source /\ peek = source[current] /\ Kinds(peek)
  BY <1>1, <1>3, Reads, KindsApart
<1>4. CASE /\ peek # NUL
           /\ is_alpha(peek) \/ is_digit(peek) \/ peek \in Quote
           /\ advance_current /\ UNCHANGED tokens
           /\ pc' = IF is_alpha(peek) THEN "identifier"
                    ELSE IF is_digit(peek) THEN "number" ELSE "string"
  <2>1. current' = current + 1 /\ peek = source[current] /\ UNCHANGED <<source, tokens>>
    BY <1>1, <1>3, <1>4 DEF advance_current
  <2>2. \A k \in start' .. current' - 1 : source'[k] = peek
    BY <1>1, <2>1
  <2>3. source'[start'] = peek /\ start' + 1 .. current' - 1 = {}
    BY <1>1, <2>1
  <2>4. \/ pc' = "identifier" /\ peek \in Letters
        \/ pc' = "number" /\ peek \in Digits
        \/ pc' = "string" /\ peek \in Quote
    BY <1>4 DEF is_alpha, is_digit
  <2> QED BY <1>1, <2>1, <2>2, <2>3, <2>4, StaysRight DEF Reading
<1>5. CASE peek # NUL /\ peek \in Single /\ advance_current /\ make_token(peek)
  <2>1. peek \in Types /\ peek \notin {"ERROR", "EOF", "IDENTIFIER"}
    BY <1>5 DEF Types, Single
  <2>2. current' = current + 1 /\ current' \in current + 1 .. Len(source) + 1
    BY <1>1, <1>3, <1>5 DEF advance_current
  <2> QED BY <1>1, <1>5, <2>1, <2>2, OperatorRight
<1>6. CASE /\ peek # NUL /\ peek \in MaybeEqual
           /\ IF peek_next = "=" THEN /\ current' = current + 2 /\ UNCHANGED line
                                      /\ make_token(WithEqual[peek])
                                 ELSE advance_current /\ make_token(peek)
  <2>1. CASE peek_next = "="
    <3> DEFINE type == WithEqual[peek]
    <3>1. type \in Types /\ type \notin {"ERROR", "EOF", "IDENTIFIER"}
      BY <1>6, TypesOfOperators
    <3>2. current + 1 \in DOMAIN source
      BY <1>1, <2>1, Reads DEF NUL
    <3>3. current' = current + 2 /\ current' \in current + 1 .. Len(source) + 1
      BY <1>1, <1>6, <2>1, <3>2
    <3>4. make_token(type)
      BY <1>6, <2>1
    <3> HIDE DEF type
    <3> QED BY <1>1, <1>6, <2>1, <3>1, <3>3, <3>4, OperatorRight
  <2>2. CASE peek_next # "="
    <3>1. peek \in Types /\ peek \notin {"ERROR", "EOF", "IDENTIFIER"}
      BY <1>6 DEF Types, MaybeEqual
    <3>2. current' = current + 1 /\ current' \in current + 1 .. Len(source) + 1
      BY <1>1, <1>3, <1>6, <2>2 DEF advance_current
    <3> QED BY <1>1, <1>6, <2>2, <3>1, <3>2, OperatorRight
  <2> QED BY <2>1, <2>2
<1>7. CASE peek # NUL /\ peek \in Other /\ advance_current /\ make_token("ERROR")
  <2>1. current' = current + 1 /\ current + 1 \in Nat /\ current + 1 \in current + 1 .. Len(source) + 1
        /\ source[current] \in Other
    BY <1>1, <1>3, <1>7 DEF advance_current
  <2>2. \A j \in current + 1 .. Len(source) + 1 :
          ~IsLexeme(Text(current, j)) /\ ~IsWord(Text(current, j))
    BY <1>1, <2>1, NotALexeme, KindsApart DEF Kinds
  <2>3. Right("ERROR", current, current + 1) /\ "ERROR" \in Types
    BY <2>1, <2>2 DEF Right, Types
  <2> QED BY <1>1, <1>7, <2>1, <2>3, NewRight
<1>8. peek # NUL =>
        \/ /\ is_alpha(peek) \/ is_digit(peek) \/ peek \in Quote
           /\ advance_current /\ UNCHANGED tokens
           /\ pc' = IF is_alpha(peek) THEN "identifier"
                    ELSE IF is_digit(peek) THEN "number" ELSE "string"
        \/ peek \in Single /\ advance_current /\ make_token(peek)
        \/ /\ peek \in MaybeEqual
           /\ IF peek_next = "=" THEN /\ current' = current + 2 /\ UNCHANGED line
                                      /\ make_token(WithEqual[peek])
                                 ELSE advance_current /\ make_token(peek)
        \/ peek \in Other /\ advance_current /\ make_token("ERROR")
  BY DEF scan_token
<1> QED BY <1>2, <1>4, <1>5, <1>6, <1>7, <1>8
-----------------------------------------------------------------------------
LEMMA WInvNext ==
  ASSUME ScannerAssumption, WInv, [Next]_vars
  PROVE  WInv'
<1>1. TInv'
  BY TInvNext DEF WInv
<1>2. CASE UNCHANGED vars
  <2>1. Rights'
    BY <1>2, StaysRight DEF vars, WInv
  <2>2. Reading'
    BY <1>2 DEF vars, WInv, Reading, peek, At
  <2> QED BY <1>1, <2>1, <2>2 DEF WInv
<1>3. CASE Next
  BY <1>1, <1>3, SkipRight, ScanTokenRight, IdentifierRight, NumberRight, FractionRight,
     StringRight DEF Next, WInv
<1> QED BY <1>2, <1>3

LEMMA WInvRight ==
  ASSUME ScannerAssumption, WInv
  PROVE  LongestToken
<1>1. ASSUME NEW n \in DOMAIN tokens
      PROVE  /\ Right(tokens[n].type, tokens[n].start, EndOf(n))
             /\ TokenText(tokens[n]) = Text(tokens[n].start, EndOf(n))
  <2>1. n # 0
    BY EndIs DEF WInv, TInv
  <2> QED BY <2>1 DEF WInv, Rights, TokenText, EndOf
<1>2. KeywordsAreExact
  BY <1>1 DEF KeywordsAreExact, Right
<1>3. ASSUME NEW n \in DOMAIN tokens
      PROVE  /\ tokens[n].type \notin {"ERROR", "EOF"} => IsLexeme(TokenText(tokens[n]))
             /\ \A j \in tokens[n].start + 1 .. Len(source) + 1 :
                  (j > EndOf(n) \/ tokens[n].type = "ERROR") => ~IsLexeme(Text(tokens[n].start, j))
  BY <1>1 DEF Right
<1> QED BY <1>2, <1>3 DEF LongestToken

(* Each token is the longest that can be read where it starts, an error    *)
(* token is where none can, and a word is a keyword if and only if it is   *)
(* one of the list: for any source, letters and digits.                    *)
THEOREM LongestTokenHolds ==
  ASSUME ScannerAssumption
  PROVE  Spec => []LongestToken
<1>1. init_scanner => WInv
  <2> SUFFICES ASSUME init_scanner PROVE WInv
    OBVIOUS
  <2>1. TInv
    BY TInvInit
  <2>2. Reading /\ Rights
    BY DEF init_scanner, Reading, Rights
  <2> QED BY <2>1, <2>2 DEF WInv
<1>2. WInv /\ [Next]_vars => WInv'
  BY WInvNext
<1>3. WInv => LongestToken
  BY WInvRight
<1> QED BY <1>1, <1>2, <1>3, PTL DEF Spec
=============================================================================
