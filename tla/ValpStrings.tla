---------------------------- MODULE ValpStrings ----------------------------
(***************************************************************************)
(* Strings with their characters: interning (valp_object.c), the methods   *)
(* of types/string.c, and concatenation.  Strings are interned, and yet    *)
(* reverse and replace write into the string they are called on.           *)
(*                                                                         *)
(* A string is numbered by its address.  Its chars are the bytes up to its *)
(* length, among them the NULs that split puts there.  The hash is         *)
(* abstracted to the characters that were hashed, when the string was      *)
(* made.  No string is collected: ValpMemory has the collector.            *)
(***************************************************************************)
EXTENDS Integers, SequencesExt

CONSTANTS
  Char,               \* characters
  NUL,                \* the character that ends a C string
  Garbage,            \* what may lie on the C stack: sequences of MaxText bytes
  MaxText, MaxStrings \* bounds of the model: no step after more strings

StringAssumption ==
  /\ NUL \notin Char /\ {MaxText, MaxStrings} \subseteq Nat
  /\ Garbage \subseteq [1 .. MaxText -> Char \cup {NUL}]

VARIABLES
  heap,      \* the strings, all of them in vm.strings: [chars, hash]
  constants, \* the literals of the code that runs: their text, and the string
  written,   \* not in the program: the strings reverse or replace changed
  result     \* the call that returned last: [call, text, with, value]

vars == <<heap, constants, written, result>>

Returns(call, text, with, value) ==
  result' = [call |-> call, text |-> text, with |-> with, value |-> value]

Init ==
  /\ heap = <<>> /\ constants = {} /\ written = {}
  /\ result = [call |-> "none", text |-> <<>>, with |-> <<>>, value |-> <<>>]

(* strlen, and the characters strcmp and printf see.                       *)
CString(s) ==
  LET ends == {n \in DOMAIN s : s[n] = NUL}
  IN  IF ends = {} THEN s ELSE SubSeq(s, 1, (CHOOSE n \in ends : \A m \in ends : n <= m) - 1)
-----------------------------------------------------------------------------
Made(chars) == [chars |-> chars, hash |-> chars]

(* Mutant: strings of the same hash are taken for the same.                *)
hash_find_string_hash(h, chars) ==
  {s \in DOMAIN h : Len(h[s].chars) = Len(chars) /\ h[s].hash = chars}

hash_find_string(h, chars) ==
  {s \in DOMAIN h : /\ Len(h[s].chars) = Len(chars) /\ h[s].hash = chars
                    /\ h[s].chars = chars}

(* Mutant: a new string each time.                                         *)
copy_string_new(h, chars) ==
  [heap |-> Append(h, Made(chars)), string |-> Len(h) + 1]

(* copy_string and take_string: the string that is there, or a new one.    *)
copy_string(h, chars) ==
  LET found == hash_find_string(h, chars)
  IN  IF found # {}
      THEN [heap |-> h, string |-> CHOOSE s \in found : TRUE]
      ELSE [heap |-> Append(h, Made(chars)), string |-> Len(h) + 1]

(* One after the other of these texts.                                     *)
copy_strings(h, texts) ==
  LET copies[n \in 0 .. Len(texts)] ==
        IF n = 0 THEN [heap |-> h, strings |-> <<>>]
        ELSE LET before == copies[n - 1]
                 copy == copy_string(before.heap, texts[n])
             IN  [heap |-> copy.heap, strings |-> Append(before.strings, copy.string)]
  IN  copies[Len(texts)]

(* The compiler's string() makes a constant of a literal.                  *)
literal(text) ==
  LET copy == copy_string(heap, text)
  IN  /\ heap' = copy.heap
      /\ constants' = constants \cup {[text |-> text, string |-> copy.string]}
      /\ Returns("literal", text, <<>>, copy.string)
      /\ UNCHANGED written

concatenate(a, b) ==
  LET text == heap[a].chars \o heap[b].chars
      copy == copy_string(heap, text)
  IN  /\ Len(text) <= MaxText
      /\ heap' = copy.heap
      /\ Returns("concatenate", text, <<>>, copy.string)
      /\ UNCHANGED <<constants, written>>
-----------------------------------------------------------------------------
string_length(s) == Len(heap[s].chars)
IsCharacter(s) == string_length(s) = 1

Writes(s, chars) ==
  /\ heap' = [heap EXCEPT ![s].chars = chars]
  /\ written' = written \cup {s}
  /\ UNCHANGED constants

(* The characters before the first NUL change places.                      *)
string_reverse(s) ==
  LET text == CString(heap[s].chars)
      length == Len(text)
      chars == [n \in DOMAIN heap[s].chars |-> IF n <= length THEN text[length + 1 - n]
                                               ELSE heap[s].chars[n]]
  IN  Writes(s, chars) /\ Returns("reverse", text, <<>>, s)

string_replace(s, x, y) ==
  LET old == heap[x].chars[1]
      new == heap[y].chars[1]
      text == heap[s].chars
  IN  /\ IsCharacter(x) /\ IsCharacter(y)
      /\ Writes(s, [n \in DOMAIN text |-> IF text[n] = old THEN new ELSE text[n]])
      /\ Returns("replace", text, <<old, new>>, s)

(* The loop of split over the bytes of a string: where it cuts.  Behind a  *)
(* separator it goes on two bytes further.                                 *)
cuts(text, c) ==
  LET from[i \in 0 .. Len(text) + 2] ==
        IF i > Len(text) THEN <<>>
        ELSE IF i = Len(text) \/ text[i + 1] = c THEN <<i>> \o from[i + 2]
        ELSE from[i + 1]
  IN  from[0]

(* Mutant: a piece begins with the separator before it.                    *)
slices_from(text, c) ==
  LET ends == cuts(text, c)
  IN  [n \in DOMAIN ends |-> [start |-> IF n = 1 THEN 0 ELSE ends[n - 1], end |-> ends[n]]]

(* The pieces: prev_begin is behind the separator before.                  *)
slices(text, c) ==
  LET ends == cuts(text, c)
  IN  [n \in DOMAIN ends |-> [start |-> IF n = 1 THEN 0 ELSE ends[n - 1] + 1, end |-> ends[n]]]

(* get_slice puts the piece and a NUL in a buffer of just that size, and   *)
(* copy_string takes as many bytes as i says, not as there are: behind the *)
(* buffer it reads what is on the C stack.                                 *)
SliceBytes(text, slice, garbage) ==
  SubSeq(CString(SubSeq(text, slice.start + 1, slice.end)) \o <<NUL>> \o garbage,
         1, slice.end)

string_split(s, x) ==
  LET text == heap[s].chars
      pieces == slices(text, heap[x].chars[1])
  IN  /\ IsCharacter(x)
      /\ \E garbage \in Garbage :
           LET all == copy_strings(heap, [n \in DOMAIN pieces |->
                                            SliceBytes(text, pieces[n], garbage)])
           IN  /\ heap' = all.heap
               /\ Returns("split", text, heap[x].chars, all.strings)
      /\ UNCHANGED <<constants, written>>
-----------------------------------------------------------------------------
Texts == UNION {[1 .. n -> Char] : n \in 0 .. MaxText}

Next ==
  /\ Len(heap) <= MaxStrings
  /\ \/ \E text \in Texts : literal(text)
     \/ \E s \in DOMAIN heap :
          \/ \E t \in DOMAIN heap : concatenate(s, t) \/ string_split(s, t)
          \/ string_reverse(s)
          \/ \E x, y \in DOMAIN heap : string_replace(s, x, y)

Spec == Init /\ [][Next]_vars
-----------------------------------------------------------------------------
Bytes == UNION {[1 .. n -> Char \cup {NUL}] : n \in 0 .. MaxText}

(* The types.                                                              *)
TypeOK ==
  /\ heap \in Seq([chars : Bytes, hash : Bytes])
  /\ \A s \in DOMAIN heap : Len(heap[s].chars) = Len(heap[s].hash)
  /\ written \subseteq DOMAIN heap
  /\ \A k \in constants : k.string \in DOMAIN heap

(* The types; and a literal that is compiled, and a concatenation, gets its*)
(* characters, though strings that were interned with them have other ones *)
(* by now.                                                                 *)
CopiesAreRight ==
  TypeOK /\ (result.call \in {"literal", "concatenate"} => heap[result.value].chars = result.text)

(* Equal strings are one object, on which hash tables rely, for all the    *)
(* strings that nobody wrote into.                                         *)
EqualStringsAreOne ==
  \A s, t \in DOMAIN heap \ written : heap[s].chars = heap[t].chars => s = t

(* Text is cut before its first byte, at every c, and behind its last.     *)
AreFields(pieces, text, c) ==
  \E at \in [0 .. Len(pieces) -> 0 .. Len(text) + 1] :
    /\ {at[n] : n \in DOMAIN at} = {n \in DOMAIN text : text[n] = c} \cup {0, Len(text) + 1}
    /\ \A n \in DOMAIN pieces : /\ at[n - 1] < at[n]
                                /\ pieces[n] = SubSeq(text, at[n - 1] + 1, at[n] - 1)

Pieces == [n \in DOMAIN result.value |-> heap[result.value[n]].chars]

(* split sees every separator of text: there is no NUL, and behind a       *)
(* separator another character.                                            *)
Splits(text, c) ==
  /\ CString(text) = text
  /\ \A n \in DOMAIN text : text[n] = c => n < Len(text) /\ text[n + 1] # c

(* What the methods give, as the characters a program prints: reverse and  *)
(* replace as their names say, and split the pieces between separators,    *)
(* if it sees them all.                                                    *)
MethodsGive ==
  LET text == result.text
  IN  /\ result.call = "reverse" => CString(heap[result.value].chars) = Reverse(text)
      /\ result.call = "replace" =>
           heap[result.value].chars = ReplaceAll(text, result.with[1], result.with[2])
      /\ result.call = "split" /\ Splits(text, result.with[1]) =>
           AreFields([n \in DOMAIN Pieces |-> CString(Pieces[n])], text, result.with[1])

(* A literal is the text the program says, whenever it is evaluated.       *)
LiteralsStay == \A k \in constants : heap[k.string].chars = k.text

(* The len() of a piece that split gives is the number of its characters.  *)
LengthsAreRight ==
  result.call = "split" /\ Splits(result.text, result.with[1]) =>
    \A n \in DOMAIN result.value :
      string_length(result.value[n]) = Len(CString(Pieces[n]))
=============================================================================
