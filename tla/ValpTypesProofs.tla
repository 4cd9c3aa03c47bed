--------------------------- MODULE ValpTypesProofs ---------------------------
(***************************************************************************)
(* Proofs about the built-in types, for any characters, values and bounds: *)
(* strings that nobody writes into are interned, the methods of            *)
(* ValpStrings give what their names say, and ValpArrays implements Lists. *)
(***************************************************************************)
EXTENDS ValpTypes, SequenceTheorems, FiniteSetTheorems, WellFoundedInduction, TLAPS
-----------------------------------------------------------------------------
(* A set of naturals that is not empty has a least element.                *)
LEMMA LeastElement ==
  ASSUME NEW S \in SUBSET Nat, S # {}
  PROVE  \E d \in S : \A e \in S : d <= e
<1> DEFINE R == {ss \in Nat \X Nat : ss[1] < ss[2]}
<1>1. IsWellFoundedOn(R, Nat)
  BY NatLessThanWellFounded DEF OpToRel
<1> HIDE DEF R
<1>2. PICK d \in S : \A e \in S : ~(<<e, d>> \in R)
  BY <1>1, WFMin
<1>3. ASSUME NEW e \in S PROVE d <= e
  <2>1. d \in Nat /\ e \in Nat
    OBVIOUS
  <2>2. e < d => <<e, d>> \in R
    BY <2>1 DEF R
  <2> QED BY <1>2, <2>1, <2>2
<1> QED BY <1>3

(* A set of naturals that has 0 and is closed under successors has all.    *)
LEMMA Naturals ==
  ASSUME NEW S \in SUBSET Nat, 0 \in S, \A n \in S : n + 1 \in S
  PROVE  S = Nat
<1> DEFINE T == Nat \ S
<1>1. SUFFICES ASSUME T # {} PROVE FALSE
  OBVIOUS
<1>2. PICK n \in T : \A m \in T : n <= m
  BY <1>1, LeastElement
<1>3. n \in Nat /\ n - 1 \in Nat /\ ~(n <= n - 1) /\ (n - 1) + 1 = n
  OBVIOUS
<1>4. n - 1 \in S
  BY <1>2, <1>3
<1> QED BY <1>3, <1>4

Appended(t, S, s, e) ==
  /\ t \in Seq(S) /\ Len(t) = Len(s) + 1
  /\ \A n \in 1 .. Len(s) : t[n] = s[n]
  /\ t[Len(s) + 1] = e

LEMMA AppendIs ==
  ASSUME NEW S, NEW s, s \in Seq(S), NEW e, e \in S
  PROVE  Appended(Append(s, e), S, s, e)
BY DEF Appended
-----------------------------------------------------------------------------
(* Characters.                                                             *)
Byte == Char \cup {NUL}

LEMMA BytesAre ==
  ASSUME Str!StringAssumption, NEW b
  PROVE  b \in Str!Bytes <=> b \in Seq(Byte) /\ Len(b) <= MaxText
<1>1. MaxText \in Nat
  BY DEF Str!StringAssumption
<1>2. ASSUME b \in Str!Bytes PROVE b \in Seq(Byte) /\ Len(b) <= MaxText
  <2>1. PICK n \in 0 .. MaxText : b \in [1 .. n -> Byte]
    BY <1>2 DEF Str!Bytes, Byte
  <2>2. n \in Nat /\ b \in Seq(Byte) /\ Len(b) = n
    BY <1>1, <2>1
  <2> QED BY <1>1, <2>2
<1>3. ASSUME b \in Seq(Byte), Len(b) <= MaxText PROVE b \in Str!Bytes
  <2>1. Len(b) \in 0 .. MaxText /\ b \in [1 .. Len(b) -> Byte]
    BY <1>1, <1>3
  <2> QED BY <2>1 DEF Str!Bytes, Byte
<1> QED BY <1>2, <1>3

(* strlen counts up to the first NUL.                                      *)
LEMMA CStringIs ==
  ASSUME NEW S, NEW s \in Seq(S), NEW t, t = Str!CString(s)
  PROVE  /\ t \in Seq(S) /\ Len(t) <= Len(s)
         /\ \A n \in 1 .. Len(t) : t[n] = s[n] /\ s[n] # NUL
         /\ Len(t) < Len(s) => s[Len(t) + 1] = NUL
<1> DEFINE ends == {n \in DOMAIN s : s[n] = NUL}
           m == CHOOSE n \in ends : \A k \in ends : n <= k
<1>1. t = IF ends = {} THEN s ELSE SubSeq(s, 1, m - 1)
  BY DEF Str!CString
<1>2. CASE ends = {}
  BY <1>1, <1>2
<1>3. CASE ends # {}
  <2>1. m \in ends /\ \A k \in ends : m <= k
    <3>1. \E n \in ends : \A k \in ends : n <= k
      <4>1. ends \in SUBSET Nat
        OBVIOUS
      <4> HIDE DEF ends
      <4> QED BY <1>3, <4>1, LeastElement
    <3> HIDE DEF ends
    <3> QED BY <3>1
  <2> HIDE DEF m
  <2>2. m \in 1 .. Len(s) /\ s[m] = NUL /\ \A n \in 1 .. m - 1 : s[n] # NUL
    <3>1. m \in 1 .. Len(s) /\ s[m] = NUL
      BY <2>1
    <3>2. ASSUME NEW n \in 1 .. m - 1 PROVE s[n] # NUL
      <4>1. n \in DOMAIN s /\ ~(m <= n)
        BY <3>1
      <4> QED BY <2>1, <4>1
    <3> QED BY <3>1, <3>2
  <2>3. t = SubSeq(s, 1, m - 1)
    BY <1>1, <1>3
  <2> HIDE DEF ends
  <2>4. t \in Seq(S) /\ Len(t) = m - 1 /\ \A n \in 1 .. m - 1 : t[n] = s[n]
    BY <2>2, <2>3
  <2>5. Len(s) \in Nat /\ Len(t) + 1 = m
    BY <2>2, <2>4
  <2> QED BY <2>2, <2>4, <2>5
<1> QED BY <1>2, <1>3

LEMMA CStringOf ==
  ASSUME NEW S, NEW s \in Seq(S), NEW t \in Seq(S), Len(t) <= Len(s),
         \A n \in 1 .. Len(t) : t[n] = s[n] /\ s[n] # NUL,
         Len(t) < Len(s) => s[Len(t) + 1] = NUL
  PROVE  Str!CString(s) = t
<1> DEFINE u == Str!CString(s)
<1>1. /\ u \in Seq(S) /\ Len(u) <= Len(s)
      /\ \A n \in 1 .. Len(u) : u[n] = s[n] /\ s[n] # NUL
      /\ Len(u) < Len(s) => s[Len(u) + 1] = NUL
  BY CStringIs
<1> HIDE DEF u
<1>2. Len(u) \in Nat /\ Len(t) \in Nat /\ Len(s) \in Nat
  BY <1>1
<1>3. ~(Len(u) < Len(t))
  <2>1. Len(u) < Len(t) => Len(u) + 1 \in 1 .. Len(t) /\ Len(u) < Len(s)
    BY <1>2
  <2> QED BY <1>1, <2>1
<1>4. ~(Len(t) < Len(u))
  <2>1. Len(t) < Len(u) => Len(t) + 1 \in 1 .. Len(u) /\ Len(t) < Len(s)
    BY <1>1, <1>2
  <2> QED BY <1>1, <2>1
<1>5. Len(t) = Len(u)
  BY <1>2, <1>3, <1>4
<1>6. \A n \in 1 .. Len(t) : t[n] = u[n]
  BY <1>1, <1>5
<1>7. t = u
  BY <1>1, <1>5, <1>6
<1> QED BY <1>7 DEF u
-----------------------------------------------------------------------------
(* Interning.                                                              *)
Record == [chars : Str!Bytes, hash : Str!Bytes]

HeapOK(h) == h \in Seq(Record) /\ \A s \in DOMAIN h : Len(h[s].chars) = Len(h[s].hash)

(* The strings nobody wrote into are found under their characters, and no  *)
(* two of them have the same.                                              *)
Sealed(h, w) ==
  /\ \A s \in DOMAIN h \ w : h[s].hash = h[s].chars
  /\ \A s, t \in DOMAIN h \ w : h[s].chars = h[t].chars => s = t

(* The heap g has the strings of h and perhaps more.                       *)
Grows(h, g, w) ==
  /\ HeapOK(g) /\ Len(h) <= Len(g)
  /\ \A s \in DOMAIN h : g[s] = h[s]
  /\ Sealed(h, w) => Sealed(g, w)

LEMMA HeapIs ==
  ASSUME NEW h, HeapOK(h)
  PROVE  /\ Len(h) \in Nat /\ DOMAIN h = 1 .. Len(h)
         /\ \A s \in DOMAIN h : h[s] \in Record /\ h[s].chars \in Str!Bytes
<1>1. h \in Seq(Record)
  BY DEF HeapOK
<1>2. Len(h) \in Nat /\ DOMAIN h = 1 .. Len(h) /\ \A s \in DOMAIN h : h[s] \in Record
  BY <1>1
<1> QED BY <1>2 DEF Record

(* copy_string gives a string of the characters.                           *)
LEMMA CopyIs ==
  ASSUME NEW h, HeapOK(h), NEW w, NEW chars \in Str!Bytes,
         NEW copy, copy = Str!copy_string(h, chars)
  PROVE  /\ Grows(h, copy.heap, w)
         /\ copy.string \in DOMAIN copy.heap
         /\ copy.heap[copy.string].chars = chars
<1> DEFINE found == Str!hash_find_string(h, chars)
           new == Str!Made(chars)
           g == Append(h, new)
<1>1. /\ Len(h) \in Nat /\ DOMAIN h = 1 .. Len(h) /\ h \in Seq(Record)
      /\ \A s \in DOMAIN h : h[s] \in Record
  BY HeapIs DEF HeapOK
<1>2. /\ \A s \in found : s \in DOMAIN h /\ h[s].chars = chars
      /\ \A s \in DOMAIN h : h[s].chars = chars /\ h[s].hash = chars => s \in found
  BY DEF Str!hash_find_string
<1>3. copy = IF found # {} THEN [heap |-> h, string |-> CHOOSE s \in found : TRUE]
             ELSE [heap |-> g, string |-> Len(h) + 1]
  BY DEF Str!copy_string
<1>4. new \in Record /\ new.chars = chars /\ new.hash = chars
  BY DEF Record, Str!Made
<1> HIDE DEF found, new
<1>5. CASE found # {}
  <2>1. copy.heap = h /\ copy.string \in found
    BY <1>3, <1>5
  <2>2. Grows(h, h, w)
    BY <1>1 DEF Grows
  <2> QED BY <1>2, <2>1, <2>2
<1>6. CASE found = {}
  <2>1. copy.heap = g /\ copy.string = Len(h) + 1
    BY <1>3, <1>6
  <2>2. /\ g \in Seq(Record) /\ Len(g) = Len(h) + 1 /\ DOMAIN g = 1 .. Len(h) + 1
        /\ \A s \in DOMAIN h : g[s] = h[s]
        /\ g[Len(h) + 1] = new
    BY <1>1, <1>4
  <2> HIDE DEF g
  <2>3. \A s \in DOMAIN g : s \in DOMAIN h \/ s = Len(h) + 1
    BY <1>1, <2>2
  <2>4. HeapOK(g)
    BY <1>4, <2>2, <2>3 DEF HeapOK
  <2>5. ASSUME Sealed(h, w) PROVE Sealed(g, w)
    <3>1. \A s \in DOMAIN g \ w : g[s].hash = g[s].chars
      BY <1>4, <2>2, <2>3, <2>5 DEF Sealed
    <3>2. ASSUME NEW s \in DOMAIN g \ w, NEW t \in DOMAIN g \ w, g[s].chars = g[t].chars
          PROVE  s = t
      <4>1. ASSUME NEW r \in DOMAIN h \ w PROVE h[r].chars # chars
        BY <1>2, <1>6, <2>5, <4>1 DEF Sealed
      <4> QED BY <1>4, <2>2, <2>3, <2>5, <3>2, <4>1 DEF Sealed
    <3> QED BY <3>1, <3>2 DEF Sealed
  <2>6. Len(h) <= Len(g) /\ Len(h) + 1 \in DOMAIN g
    BY <1>1, <2>2
  <2>7. Grows(h, g, w)
    BY <2>2, <2>4, <2>5, <2>6 DEF Grows
  <2> QED BY <1>4, <2>1, <2>2, <2>6, <2>7
<1> QED BY <1>5, <1>6

LEMMA GrowsOn ==
  ASSUME NEW h, HeapOK(h), NEW g, NEW k, NEW w, Grows(h, g, w), Grows(g, k, w)
  PROVE  Grows(h, k, w)
<1>1. /\ Len(h) \in Nat /\ Len(g) \in Nat /\ Len(k) \in Nat
      /\ DOMAIN h = 1 .. Len(h) /\ DOMAIN g = 1 .. Len(g) /\ Len(h) <= Len(g) /\ Len(g) <= Len(k)
  BY HeapIs DEF Grows
<1>2. DOMAIN h \subseteq DOMAIN g /\ Len(h) <= Len(k)
  BY <1>1
<1> QED BY <1>2 DEF Grows
-----------------------------------------------------------------------------
(* The strings of several texts.                                           *)
Copied(copies, h, texts, n) ==
  IF n = 0 THEN [heap |-> h, strings |-> <<>>]
  ELSE LET before == copies[n - 1]
           copy == Str!copy_string(before.heap, texts[n])
       IN  [heap |-> copy.heap, strings |-> Append(before.strings, copy.string)]

AreCopies(copies, h, texts, m) == copies = [n \in 0 .. m |-> Copied(copies, h, texts, n)]

LEMMA CopiesExist ==
  ASSUME NEW h, NEW texts, NEW m \in Nat
  PROVE  \E copies : AreCopies(copies, h, texts, m)
<1> DEFINE S == {k \in Nat : \E copies : AreCopies(copies, h, texts, k)}
<1>1. 0 \in S
  <2> DEFINE f == [n \in 0 .. 0 |-> Copied(<<>>, h, texts, 0)]
  <2>1. f = [n \in 0 .. 0 |-> Copied(f, h, texts, n)]
    BY DEF Copied
  <2> HIDE DEF f
  <2> QED BY <2>1 DEF AreCopies
<1>2. ASSUME NEW k \in S PROVE k + 1 \in S
  <2>1. PICK f : AreCopies(f, h, texts, k)
    OBVIOUS
  <2> DEFINE c == Copied(f, h, texts, k + 1)
             g == [n \in 0 .. k + 1 |-> IF n = k + 1 THEN c ELSE f[n]]
  <2>2. k \in Nat /\ k + 1 \in Nat
    OBVIOUS
  <2>3. ASSUME NEW n \in 0 .. k + 1 PROVE g[n] = Copied(g, h, texts, n)
    <3>1. n # 0 => g[n - 1] = f[n - 1]
      BY <2>2
    <3>2. Copied(g, h, texts, n) = Copied(f, h, texts, n)
      <4> HIDE DEF g
      <4> QED BY <3>1 DEF Copied
    <3>3. CASE n = k + 1
      BY <3>2, <3>3
    <3>4. CASE n # k + 1
      <4>1. n \in 0 .. k /\ g[n] = f[n]
        BY <2>2, <3>4
      <4>2. f[n] = Copied(f, h, texts, n)
        BY <2>1, <4>1 DEF AreCopies
      <4> QED BY <3>2, <4>1, <4>2
    <3> QED BY <3>3, <3>4
  <2>4. g = [n \in 0 .. k + 1 |-> g[n]]
    OBVIOUS
  <2> HIDE DEF g
  <2>5. AreCopies(g, h, texts, k + 1)
    BY <2>3, <2>4 DEF AreCopies
  <2> QED BY <2>2, <2>5
<1>3. S = Nat
  <2> HIDE DEF S
  <2>1. S \in SUBSET Nat
    BY DEF S
  <2> QED BY <1>1, <1>2, <2>1, Naturals
<1> QED BY <1>3

(* After n of them.                                                        *)
NCopied(a, n, h, w, texts) ==
  /\ Grows(h, a.heap, w)
  /\ a.strings \in Seq(DOMAIN a.heap) /\ Len(a.strings) = n
  /\ \A k \in 1 .. n : a.heap[a.strings[k]].chars = texts[k]

(* Each of them is of its text, in the heap that results.                  *)
(* Every one of the texts was copied. *)
AllCopied(h, w, texts, all) ==
  /\ Grows(h, all.heap, w)
  /\ all.strings \in Seq(DOMAIN all.heap) /\ Len(all.strings) = Len(texts)
  /\ \A n \in DOMAIN texts : all.heap[all.strings[n]].chars = texts[n]

LEMMA CopiesAre ==
  ASSUME NEW h, HeapOK(h), NEW w, NEW texts, texts \in Seq(Str!Bytes)
  PROVE  AllCopied(h, w, texts, Str!copy_strings(h, texts))
<1> DEFINE all == Str!copy_strings(h, texts)
<1> DEFINE m == Len(texts)
           Good(a, n) == NCopied(a, n, h, w, texts)
<1>1. m \in Nat /\ DOMAIN texts = 1 .. m /\ \A n \in 1 .. m : texts[n] \in Str!Bytes
  OBVIOUS
<1>2. PICK copies : AreCopies(copies, h, texts, m) /\ all = copies[m]
  <2> DEFINE f == CHOOSE f : AreCopies(f, h, texts, m)
  <2>1. all = f[m]
    BY DEF Str!copy_strings, AreCopies, Copied
  <2>2. AreCopies(f, h, texts, m)
    BY <1>1, CopiesExist
  <2> QED BY <2>1, <2>2
<1>3. \A n \in 0 .. m : copies[n] = Copied(copies, h, texts, n)
  BY <1>2 DEF AreCopies
<1> DEFINE S == {n \in Nat : n <= m => Good(copies[n], n)}
<1>4. 0 \in S
  <2>1. copies[0] = [heap |-> h, strings |-> <<>>]
    <3>1. Copied(copies, h, texts, 0) = [heap |-> h, strings |-> <<>>]
      BY DEF Copied
    <3>2. copies[0] = Copied(copies, h, texts, 0)
      BY <1>1, <1>3
    <3> QED BY <3>1, <3>2
  <2>2. Grows(h, h, w)
    BY HeapIs DEF Grows
  <2>3. <<>> \in Seq(DOMAIN h) /\ Len(<<>>) = 0
    OBVIOUS
  <2>4. Good([heap |-> h, strings |-> <<>>], 0)
    BY <2>2, <2>3 DEF NCopied
  <2> QED BY <2>1, <2>4
<1>5. ASSUME NEW n \in S PROVE n + 1 \in S
  <2> SUFFICES ASSUME n + 1 <= m PROVE Good(copies[n + 1], n + 1)
    OBVIOUS
  <2> DEFINE a == copies[n]
             copy == Str!copy_string(a.heap, texts[n + 1])
             strings == Append(a.strings, copy.string)
  <2>1. n \in Nat /\ n + 1 \in 0 .. m /\ n + 1 # 0 /\ (n + 1) - 1 = n /\ n <= m /\ n + 1 \in 1 .. m
    BY <1>1
  <2>2. copies[n + 1] = [heap |-> copy.heap, strings |-> strings]
    BY <1>3, <2>1 DEF Copied
  <2>3. Good(a, n)
    BY <2>1
  <2> HIDE DEF a
  <2>4. HeapOK(a.heap) /\ texts[n + 1] \in Str!Bytes
    BY <1>1, <2>1, <2>3 DEF NCopied, Grows
  <2>0. copy = Str!copy_string(a.heap, texts[n + 1])
    OBVIOUS
  <2> HIDE DEF copy
  <2>5. /\ Grows(a.heap, copy.heap, w) /\ copy.string \in DOMAIN copy.heap
        /\ copy.heap[copy.string].chars = texts[n + 1]
    BY <2>0, <2>4, CopyIs
  <2>6. Grows(h, copy.heap, w)
    BY <2>3, <2>5, GrowsOn DEF NCopied
  <2>7. DOMAIN a.heap \subseteq DOMAIN copy.heap /\ \A s \in DOMAIN a.heap : copy.heap[s] = a.heap[s]
    <3>1. /\ DOMAIN a.heap = 1 .. Len(a.heap) /\ DOMAIN copy.heap = 1 .. Len(copy.heap)
          /\ Len(a.heap) \in Nat /\ Len(copy.heap) \in Nat /\ Len(a.heap) <= Len(copy.heap)
      BY <2>4, <2>5, HeapIs DEF Grows
    <3>2. DOMAIN a.heap \subseteq DOMAIN copy.heap
      BY <3>1
    <3> QED BY <3>2, <2>5 DEF Grows
  <2>8. a.strings \in Seq(DOMAIN copy.heap) /\ \A k \in 1 .. n : a.strings[k] \in DOMAIN a.heap
    <3>1. a.strings \in Seq(DOMAIN a.heap) /\ Len(a.strings) = n
      BY <2>3 DEF NCopied
    <3>2. \A k \in 1 .. n : a.strings[k] \in DOMAIN a.heap
      BY <3>1
    <3>3. a.strings \in Seq(DOMAIN copy.heap)
      BY <2>1, <2>7, <3>1, <3>2
    <3> QED BY <3>2, <3>3
  <2>9. /\ strings \in Seq(DOMAIN copy.heap) /\ Len(strings) = n + 1
        /\ \A k \in 1 .. n : strings[k] = a.strings[k]
        /\ strings[n + 1] = copy.string
    <3>1. Len(a.strings) = n
      BY <2>3 DEF NCopied
    <3>2. copy.string \in DOMAIN copy.heap
      BY <2>5
    <3> HIDE DEF strings
    <3>3. /\ strings \in Seq(DOMAIN copy.heap) /\ Len(strings) = Len(a.strings) + 1
          /\ \A k \in 1 .. Len(a.strings) : strings[k] = a.strings[k]
          /\ strings[Len(a.strings) + 1] = copy.string
      <4>1. Appended(strings, DOMAIN copy.heap, a.strings, copy.string)
        BY <2>8, <3>2, AppendIs DEF strings
      <4> QED BY <4>1 DEF Appended
    <3> QED BY <3>1, <3>3
  <2> HIDE DEF strings
  <2>10. ASSUME NEW k \in 1 .. n + 1 PROVE copy.heap[strings[k]].chars = texts[k]
    <3>1. CASE k = n + 1
      BY <2>5, <2>9, <3>1
    <3>2. CASE k # n + 1
      <4>1. k \in 1 .. n
        BY <2>1, <3>2
      <4>2. a.heap[a.strings[k]].chars = texts[k]
        BY <2>3, <4>1 DEF NCopied
      <4> QED BY <2>7, <2>8, <2>9, <4>1, <4>2
    <3> QED BY <3>1, <3>2
  <2>11. Good([heap |-> copy.heap, strings |-> strings], n + 1)
    BY <2>6, <2>9, <2>10 DEF NCopied
  <2> QED BY <2>2, <2>11
<1>6. S = Nat
  <2> HIDE DEF S
  <2>1. S \in SUBSET Nat
    BY DEF S
  <2> QED BY <1>4, <1>5, <2>1, Naturals
<1>7. Good(copies[m], m)
  BY <1>1, <1>6
<1>8. AllCopied(h, w, texts, copies[m])
  BY <1>1, <1>7 DEF NCopied, AllCopied
<1> QED BY <1>2, <1>8
-----------------------------------------------------------------------------
(* Where split cuts.                                                       *)
Cut(from, text, c, j) ==
  IF j > Len(text) THEN <<>>
  ELSE IF j = Len(text) \/ text[j + 1] = c THEN <<j>> \o from[j + 2]
  ELSE from[j + 1]

AreCuts(from, text, c) == from = [j \in 0 .. Len(text) + 2 |-> Cut(from, text, c, j)]

LEMMA CutsExist ==
  ASSUME NEW text, Len(text) \in Nat, NEW c
  PROVE  \E from : AreCuts(from, text, c)
<1> DEFINE last == Len(text) + 2
           From(k, f) == /\ f = [j \in 0 .. last |-> f[j]]
                         /\ \A j \in 0 .. last : j + k >= last => f[j] = Cut(f, text, c, j)
           S == {k \in Nat : \E f : From(k, f)}
<1>1. 0 \in S
  <2> DEFINE f == [j \in 0 .. last |-> <<>>]
  <2>1. f = [j \in 0 .. last |-> f[j]]
    OBVIOUS
  <2>2. ASSUME NEW j \in 0 .. last, j >= last PROVE f[j] = Cut(f, text, c, j)
    BY <2>2 DEF Cut
  <2> HIDE DEF f
  <2>3. From(0, f)
    BY <2>1, <2>2
  <2> QED BY <2>3
<1>2. ASSUME NEW k \in S PROVE k + 1 \in S
  <2>1. PICK f : From(k, f)
    OBVIOUS
  <2> DEFINE n == last - (k + 1)
             new == Cut(f, text, c, n)
             g == [j \in 0 .. last |-> IF j = n THEN new ELSE f[j]]
  <2>2. ASSUME NEW j \in 0 .. last, j + (k + 1) >= last PROVE g[j] = Cut(g, text, c, j)
    <3>0. k \in Nat
      OBVIOUS
    <3>1. /\ j <= Len(text) => j + 1 \in 0 .. last /\ j + 2 \in 0 .. last /\ j + 1 # n /\ j + 2 # n
          /\ j > Len(text) \/ j <= Len(text)
          /\ j = n \/ j + k >= last
      <4> HIDE DEF S
      <4> QED BY <2>2, <3>0
    <3>2. j <= Len(text) => g[j + 1] = f[j + 1] /\ g[j + 2] = f[j + 2]
      BY <3>1
    <3>3. Cut(g, text, c, j) = Cut(f, text, c, j)
      <4> HIDE DEF g, last, n, new
      <4> QED BY <3>1, <3>2 DEF Cut
    <3>4. CASE j = n
      BY <3>3, <3>4
    <3>5. CASE j # n
      <4>1. g[j] = f[j]
        BY <3>5
      <4>2. f[j] = Cut(f, text, c, j)
        BY <2>1, <3>1, <3>5
      <4> QED BY <3>3, <4>1, <4>2
    <3> QED BY <3>4, <3>5
  <2>3. g = [j \in 0 .. last |-> g[j]]
    OBVIOUS
  <2> HIDE DEF g
  <2>4. From(k + 1, g)
    BY <2>2, <2>3
  <2> QED BY <2>4
<1>3. last \in S
  <2> HIDE DEF S
  <2>1. S \in SUBSET Nat
    BY DEF S
  <2> QED BY <1>1, <1>2, <2>1, Naturals
<1>4. PICK f : From(last, f)
  BY <1>3
<1>5. \A j \in 0 .. last : j + last >= last
  OBVIOUS
<1>6. \A j \in 0 .. last : f[j] = Cut(f, text, c, j)
  BY <1>4, <1>5
<1> QED BY <1>4, <1>6 DEF AreCuts

(* No separator is the last byte, or has another one behind it.            *)
Sees(text, c) == \A n \in DOMAIN text : text[n] = c => n < Len(text) /\ text[n + 1] # c

(* The cuts from j on: in order, at separators or the end, and, where      *)
(* split sees them, at all of these.                                       *)
CutsFrom(s, text, c, j) ==
  /\ s \in Seq(Nat)
  /\ \A k \in 1 .. Len(s) : s[k] \in j .. Len(text) /\ (s[k] = Len(text) \/ text[s[k] + 1] = c)
  /\ \A l, k \in 1 .. Len(s) : l < k => s[l] < s[k]
  /\ j <= Len(text) /\ Sees(text, c) =>
       \A e \in j .. Len(text) : e = Len(text) \/ text[e + 1] = c => \E k \in 1 .. Len(s) : s[k] = e

LEMMA ConsIs ==
  ASSUME NEW j \in Nat, NEW s \in Seq(Nat), NEW t, t = <<j>> \o s
  PROVE  /\ t \in Seq(Nat) /\ Len(t) = Len(s) + 1 /\ t[1] = j /\ Len(s) \in Nat
         /\ \A k \in 1 .. Len(s) : t[k + 1] = s[k]
         /\ \A k \in 2 .. Len(t) : k - 1 \in 1 .. Len(s) /\ t[k] = s[k - 1]
<1>1. /\ t \in Seq(Nat) /\ Len(t) = Len(s) + 1 /\ t[1] = j /\ Len(s) \in Nat
      /\ \A k \in 1 .. Len(s) : t[k + 1] = s[k]
  OBVIOUS
<1>2. ASSUME NEW k \in 2 .. Len(t) PROVE k - 1 \in 1 .. Len(s) /\ t[k] = s[k - 1]
  <2>1. k - 1 \in 1 .. Len(s) /\ (k - 1) + 1 = k
    BY <1>1
  <2> QED BY <1>1, <2>1
<1> QED BY <1>1, <1>2

LEMMA CutsAre ==
  ASSUME NEW text, Len(text) \in Nat, DOMAIN text = 1 .. Len(text), NEW c
  PROVE  CutsFrom(Str!cuts(text, c), text, c, 0)
<1> DEFINE last == Len(text)
<1>1. PICK f : AreCuts(f, text, c) /\ Str!cuts(text, c) = f[0]
  <2> DEFINE f == CHOOSE f : AreCuts(f, text, c)
  <2>1. Str!cuts(text, c) = f[0]
    BY DEF Str!cuts, AreCuts, Cut
  <2>2. AreCuts(f, text, c)
    BY CutsExist
  <2> QED BY <2>1, <2>2
<1>2. \A j \in 0 .. last + 2 : f[j] = Cut(f, text, c, j)
  BY <1>1 DEF AreCuts
<1> DEFINE P(j) == CutsFrom(f[j], text, c, j)
           S == {k \in Nat : \A j \in 0 .. last + 2 : j + k >= last + 1 => P(j)}
<1>3. ASSUME NEW j \in 0 .. last + 2, j > last PROVE P(j)
  <2>1. f[j] = <<>>
    BY <1>2, <1>3 DEF Cut
  <2>2. <<>> \in Seq(Nat) /\ Len(<<>>) = 0 /\ 1 .. 0 = {} /\ ~(j <= last)
    BY <1>3
  <2> QED BY <2>1, <2>2 DEF CutsFrom
<1>4. 0 \in S
  BY <1>3
<1>5. ASSUME NEW k \in S PROVE k + 1 \in S
  <2> SUFFICES ASSUME NEW j \in 0 .. last + 2, j + (k + 1) >= last + 1, j <= last PROVE P(j)
    BY <1>3
  <2>1. j \in Nat /\ j + 1 \in 0 .. last + 2 /\ j + 2 \in 0 .. last + 2
    OBVIOUS
  <2>2. P(j + 1) /\ P(j + 2)
    BY <2>1
  <2>0. k \in Nat
    OBVIOUS
  <2>a. last \in Nat
    OBVIOUS
  <2> HIDE DEF S, P, last
  <2>3. CASE j = last \/ text[j + 1] = c
    <3> DEFINE s == f[j + 2]
               t == f[j]
    <3>1. t = <<j>> \o s
      <4>1. f[j] = Cut(f, text, c, j) /\ ~(j > Len(text))
        BY <1>2, <2>1 DEF last
      <4>2. Cut(f, text, c, j) = <<j>> \o f[j + 2]
        BY <2>3, <4>1 DEF Cut, last
      <4> QED BY <4>1, <4>2
    <3>2. CutsFrom(s, text, c, j + 2)
      BY <2>2 DEF P, last
    <3> HIDE DEF s, t
    <3>3. s \in Seq(Nat)
      BY <3>2 DEF CutsFrom, last
    <3>4. /\ t \in Seq(Nat) /\ Len(t) = Len(s) + 1 /\ t[1] = j /\ Len(s) \in Nat
          /\ \A n \in 1 .. Len(s) : t[n + 1] = s[n]
          /\ \A n \in 2 .. Len(t) : n - 1 \in 1 .. Len(s) /\ t[n] = s[n - 1]
      BY <2>1, <2>a, <3>1, <3>3, ConsIs
    <3>5. ASSUME NEW n \in 2 .. Len(t)
          PROVE  t[n] \in j + 2 .. last /\ (t[n] = last \/ text[t[n] + 1] = c)
      <4>1. n - 1 \in 1 .. Len(s) /\ t[n] = s[n - 1]
        BY <3>4
      <4>2. s[n - 1] \in j + 2 .. last /\ (s[n - 1] = last \/ text[s[n - 1] + 1] = c)
        BY <3>2, <4>1 DEF CutsFrom, last
      <4> QED BY <4>1, <4>2
    <3>6. \A n \in 1 .. Len(t) : t[n] \in j .. last /\ (t[n] = last \/ text[t[n] + 1] = c)
      <4> SUFFICES ASSUME NEW n \in 1 .. Len(t)
                   PROVE  t[n] \in j .. last /\ (t[n] = last \/ text[t[n] + 1] = c)
        OBVIOUS
      <4>1. CASE n = 1
        <5>1. t[n] = j
          BY <3>4, <4>1
        <5>2. j \in j .. last
          BY <2>1, <2>a
        <5> QED BY <2>3, <5>1, <5>2
      <4>2. CASE n # 1
        <5>1. n \in 2 .. Len(t)
          BY <4>2
        <5>2. t[n] \in j + 2 .. last
          BY <3>5, <5>1
        <5>3. t[n] \in j .. last
          BY <2>1, <2>a, <5>2
        <5> QED BY <3>5, <5>1, <5>3
      <4> QED BY <4>1, <4>2
    <3>7. ASSUME NEW m \in 1 .. Len(t), NEW n \in 1 .. Len(t), m < n PROVE t[m] < t[n]
      <4>0. n \in 2 .. Len(t) /\ (m = 1 \/ m \in 2 .. Len(t))
        BY <3>7
      <4>1. CASE m = 1
        <5>1. t[n] \in j + 2 .. last
          BY <3>5, <4>0
        <5> QED BY <2>1, <2>a, <3>4, <4>1, <5>1
      <4>2. CASE m \in 2 .. Len(t)
        <5>1. m - 1 \in 1 .. Len(s) /\ n - 1 \in 1 .. Len(s) /\ m - 1 < n - 1
          BY <3>4, <3>7, <4>0, <4>2
        <5>2. s[m - 1] < s[n - 1]
          BY <3>2, <5>1 DEF CutsFrom, last
        <5> QED BY <3>4, <4>0, <4>2, <5>2
      <4> QED BY <4>0, <4>1, <4>2
    <3>8. ASSUME Sees(text, c), NEW e \in j .. last, e = last \/ text[e + 1] = c
          PROVE  \E n \in 1 .. Len(t) : t[n] = e
      <4>0. 1 \in 1 .. Len(t)
        BY <3>4
      <4>1. CASE e = j
        BY <3>4, <4>0, <4>1
      <4>2. CASE e # j
        <5>1. j < last /\ text[j + 1] = c /\ j + 1 \in DOMAIN text
          <6>1. j < last
            BY <2>1, <2>a, <4>2
          <6>2. text[j + 1] = c
            <7>1. j # last
              BY <2>1, <2>a, <6>1
            <7> QED BY <2>3, <7>1, Zenon
          <6>3. j + 1 \in 1 .. last
            BY <2>1, <2>a, <6>1
          <6> QED BY <6>1, <6>2, <6>3 DEF last
        <5>2. j + 1 < last /\ text[j + 1 + 1] # c
          BY <3>8, <5>1 DEF Sees, last
        <5>3. e # j + 1
          <6> SUFFICES ASSUME e = j + 1 PROVE FALSE
            OBVIOUS
          <6>1. e # last
            <7>1. j + 1 < last
              BY <5>2, Zenon
            <7> QED BY <2>1, <2>a, <7>1
          <6>2. text[e + 1] = c
            BY <3>8, <6>1
          <6> QED BY <5>2, <6>2
        <5>4. j + 2 <= last /\ e \in j + 2 .. last
          BY <2>1, <2>a, <4>2, <5>2, <5>3
        <5>5. PICK n \in 1 .. Len(s) : s[n] = e
          BY <3>2, <3>8, <5>4 DEF CutsFrom, last
        <5>6. n + 1 \in 1 .. Len(t) /\ t[n + 1] = e
          BY <3>4, <5>5
        <5> QED BY <5>6
      <4> QED BY <4>1, <4>2
    <3>9. CutsFrom(t, text, c, j)
      BY <3>4, <3>6, <3>7, <3>8 DEF CutsFrom, last
    <3> QED BY <3>9 DEF P, t
  <2>4. CASE ~(j = last \/ text[j + 1] = c)
    <3> DEFINE s == f[j + 1]
    <3>1. f[j] = s
      <4>1. f[j] = Cut(f, text, c, j) /\ ~(j > Len(text))
        BY <1>2, <2>1 DEF last
      <4>2. Cut(f, text, c, j) = f[j + 1]
        BY <2>4, <4>1 DEF Cut, last
      <4> QED BY <4>1, <4>2
    <3>2. CutsFrom(s, text, c, j + 1)
      BY <2>2 DEF P, last
    <3> HIDE DEF s
    <3>3. \A e \in j + 1 .. last : e \in j .. last
      BY <2>1, <2>a
    <3>4. j + 1 <= last /\ \A e \in j .. last : e = last \/ text[e + 1] = c => e \in j + 1 .. last
      <4>1. j + 1 <= last
        <5>1. j # last
          BY <2>4, Zenon
        <5> QED BY <2>1, <2>a, <5>1
      <4>2. ASSUME NEW e \in j .. last, e = last \/ text[e + 1] = c PROVE e \in j + 1 .. last
        <5>1. e # j
          BY <2>4, <4>2
        <5> QED BY <2>1, <2>a, <5>1
      <4> QED BY <4>1, <4>2
    <3>5. CutsFrom(s, text, c, j)
      BY <3>2, <3>3, <3>4 DEF CutsFrom, last
    <3> QED BY <3>1, <3>5 DEF P, last
  <2> QED BY <2>3, <2>4
<1>6. last + 1 \in S
  <2> HIDE DEF S
  <2>1. S \in SUBSET Nat
    BY DEF S
  <2> QED BY <1>4, <1>5, <2>1, Naturals
<1>7. 0 \in 0 .. last + 2 /\ 0 + (last + 1) >= last + 1
  OBVIOUS
<1>8. P(0)
  BY <1>6, <1>7
<1> QED BY <1>1, <1>8
-----------------------------------------------------------------------------
LEMMA ConcatIs ==
  ASSUME NEW S, NEW s \in Seq(S), NEW t \in Seq(S)
  PROVE  /\ s \o t \in Seq(S) /\ Len(s \o t) = Len(s) + Len(t)
         /\ \A n \in 1 .. Len(s) : (s \o t)[n] = s[n]
OBVIOUS

IsPrefixTo(t, S, s, e) ==
  /\ t \in Seq(S) /\ Len(t) = e
  /\ \A n \in 1 .. e : t[n] = s[n]

LEMMA PrefixIs ==
  ASSUME NEW S, NEW s, s \in Seq(S), NEW e, e \in Nat, e <= Len(s)
  PROVE  IsPrefixTo(SubSeq(s, 1, e), S, s, e)
BY DEF IsPrefixTo

IsPiece(bytes, text, start, end) ==
  /\ bytes \in Str!Bytes
  /\ (\A n \in DOMAIN text : text[n] # NUL) => Str!CString(bytes) = SubSeq(text, start + 1, end)

(* A piece is as long as its end says, and as a C string it is the bytes   *)
(* between the cuts, if there is no NUL among them.                        *)
LEMMA SliceIs ==
  ASSUME Str!StringAssumption, NEW text \in Seq(Byte), Len(text) <= MaxText,
         NEW start \in Nat, NEW end \in Nat, start <= end, end <= Len(text),
         NEW garbage \in Garbage, NEW slice, slice = [start |-> start, end |-> end],
         NEW bytes, bytes = Str!SliceBytes(text, slice, garbage)
  PROVE  IsPiece(bytes, text, start, end)
<1> DEFINE p == SubSeq(text, start + 1, end)
           q == Str!CString(p)
           all == q \o <<NUL>> \o garbage
<1>1. Len(text) \in Nat /\ MaxText \in Nat /\ DOMAIN text = 1 .. Len(text) /\ end <= MaxText
  BY DEF Str!StringAssumption
<1>2. garbage \in Seq(Byte) /\ Len(garbage) = MaxText
  <2>1. garbage \in [1 .. MaxText -> Byte]
    BY DEF Str!StringAssumption, Byte
  <2> QED BY <1>1, <2>1
<1>3. /\ p \in Seq(Byte) /\ Len(p) = end - start
      /\ \A n \in 1 .. Len(p) : start + n \in DOMAIN text /\ p[n] = text[start + n]
  BY <1>1
<1>4. q \in Seq(Byte) /\ Len(q) <= Len(p) /\ Len(q) \in Nat
  <2> HIDE DEF p
  <2>1. p \in Seq(Byte)
    BY <1>3
  <2>2. q \in Seq(Byte) /\ Len(q) <= Len(p)
    BY <2>1, CStringIs
  <2> QED BY <2>2
<1>5. bytes = SubSeq(all, 1, end)
  BY DEF Str!SliceBytes
<1> HIDE DEF p, q
<1>6. /\ all \in Seq(Byte) /\ Len(all) = Len(q) + 1 + MaxText
      /\ \A n \in 1 .. Len(q) : all[n] = q[n]
      /\ all[Len(q) + 1] = NUL
  <2> DEFINE z == q \o <<NUL>>
  <2>1. /\ z \in Seq(Byte) /\ Len(z) = Len(q) + 1 /\ z[Len(q) + 1] = NUL
        /\ \A n \in 1 .. Len(q) : z[n] = q[n]
    BY <1>4 DEF Byte
  <2> HIDE DEF z
  <2>2. /\ z \o garbage \in Seq(Byte) /\ Len(z \o garbage) = Len(q) + 1 + MaxText
        /\ \A n \in 1 .. Len(q) + 1 : (z \o garbage)[n] = z[n]
    <3>1. /\ z \o garbage \in Seq(Byte) /\ Len(z \o garbage) = Len(z) + Len(garbage)
          /\ \A n \in 1 .. Len(z) : (z \o garbage)[n] = z[n]
      BY <1>2, <2>1, ConcatIs
    <3> QED BY <1>2, <2>1, <3>1
  <2>3. \A n \in 1 .. Len(q) : n \in 1 .. Len(q) + 1
    BY <1>4
  <2>4. Len(q) + 1 \in 1 .. Len(q) + 1
    BY <1>4
  <2>5. all = z \o garbage
    BY DEF z
  <2> QED BY <2>1, <2>2, <2>3, <2>4, <2>5
<1> HIDE DEF all
<1>7. /\ bytes \in Seq(Byte) /\ Len(bytes) = end
      /\ \A n \in 1 .. end : bytes[n] = all[n]
  <2>1. end <= Len(all)
    BY <1>1, <1>4, <1>6
  <2>2. all \in Seq(Byte) /\ end \in Nat
    BY <1>1, <1>5, <1>6
  <2>3. IsPrefixTo(bytes, Byte, all, end)
    BY <1>5, <2>1, <2>2, PrefixIs
  <2> QED BY <2>3 DEF IsPrefixTo
<1>8. bytes \in Str!Bytes
  BY <1>1, <1>7, BytesAre
<1>9. ASSUME \A n \in DOMAIN text : text[n] # NUL PROVE Str!CString(bytes) = p
  <2>1. \A n \in 1 .. Len(p) : p[n] # NUL
    BY <1>3, <1>9
  <2>2. q = p
    <3>1. Str!CString(p) = p
      BY <1>3, <2>1, CStringOf
    <3> QED BY <3>1 DEF q
  <2>3. Len(p) <= Len(bytes)
    BY <1>3, <1>7
  <2>4. \A n \in 1 .. Len(p) : p[n] = bytes[n] /\ bytes[n] # NUL
    <3>1. \A n \in 1 .. Len(p) : n \in 1 .. end
      BY <1>3
    <3> QED BY <1>6, <1>7, <2>1, <2>2, <3>1
  <2>5. Len(p) < Len(bytes) => bytes[Len(p) + 1] = NUL
    <3>1. Len(p) < Len(bytes) => Len(p) + 1 \in 1 .. end
      BY <1>3, <1>7
    <3> QED BY <1>6, <1>7, <2>2, <3>1
  <2> QED BY <1>3, <1>7, <2>3, <2>4, <2>5, CStringOf
<1> QED BY <1>8, <1>9 DEF p, IsPiece

LEMMA SlicesAre ==
  ASSUME NEW text, Len(text) \in Nat, DOMAIN text = 1 .. Len(text), NEW c,
         NEW ends, ends = Str!cuts(text, c), NEW n \in 1 .. Len(ends),
         NEW start, start = IF n = 1 THEN 0 ELSE ends[n - 1] + 1
  PROVE  /\ ends \in Seq(Nat) /\ DOMAIN Str!slices(text, c) = 1 .. Len(ends)
         /\ Str!slices(text, c)[n] = [start |-> start, end |-> ends[n]]
         /\ start \in Nat /\ ends[n] \in Nat /\ start <= ends[n] /\ ends[n] <= Len(text)
<1>1. CutsFrom(ends, text, c, 0)
  BY CutsAre
<1>2. ends \in Seq(Nat) /\ Len(ends) \in Nat /\ DOMAIN ends = 1 .. Len(ends)
  <2>1. ends \in Seq(Nat)
    BY <1>1 DEF CutsFrom
  <2> QED BY <2>1
<1>3. Str!slices(text, c) = [k \in DOMAIN ends |-> [start |-> IF k = 1 THEN 0 ELSE ends[k - 1] + 1,
                                                   end |-> ends[k]]]
  BY DEF Str!slices
<1>4. ends[n] \in 0 .. Len(text)
  BY <1>1 DEF CutsFrom
<1>5. CASE n = 1
  BY <1>2, <1>3, <1>4, <1>5
<1>6. CASE n # 1
  <2>1. n - 1 \in 1 .. Len(ends) /\ n - 1 < n
    BY <1>2, <1>6
  <2>2. ends[n - 1] < ends[n] /\ ends[n - 1] \in 0 .. Len(text)
    BY <1>1, <2>1 DEF CutsFrom
  <2> QED BY <1>2, <1>3, <1>4, <1>6, <2>2
<1> QED BY <1>5, <1>6

(* Where split sees all separators, what is between its cuts are the       *)
(* fields.                                                                 *)
LEMMA FieldsAre ==
  ASSUME NEW text, Len(text) \in Nat, DOMAIN text = 1 .. Len(text), NEW c, Sees(text, c),
         NEW ends, ends = Str!cuts(text, c), NEW pieces \in Seq(Seq(Byte)), Len(pieces) = Len(ends),
         \A n \in 1 .. Len(ends) :
           pieces[n] = SubSeq(text, (IF n = 1 THEN 0 ELSE ends[n - 1] + 1) + 1, ends[n])
  PROVE  Str!AreFields(pieces, text, c)
<1> DEFINE last == Len(text)
           m == Len(pieces)
           at == [n \in 0 .. m |-> IF n = 0 THEN 0 ELSE ends[n] + 1]
           positions == {n \in DOMAIN text : text[n] = c} \cup {0, last + 1}
<1>1. CutsFrom(ends, text, c, 0)
  BY CutsAre
<1>2. ends \in Seq(Nat) /\ m \in Nat /\ m = Len(ends) /\ DOMAIN pieces = 1 .. m
  <2>1. ends \in Seq(Nat)
    BY <1>1 DEF CutsFrom
  <2> QED BY <2>1
<1>a. /\ \A k \in 1 .. m : ends[k] \in 0 .. last /\ (ends[k] = last \/ text[ends[k] + 1] = c)
      /\ \A j, k \in 1 .. m : j < k => ends[j] < ends[k]
  BY <1>1, <1>2 DEF CutsFrom
<1>b. \A e \in 0 .. last : e = last \/ text[e + 1] = c => \E k \in 1 .. m : ends[k] = e
  <2>1. 0 <= last
    OBVIOUS
  <2> HIDE DEF m
  <2> QED BY <1>1, <1>2, <2>1 DEF CutsFrom
<1> HIDE DEF m
<1>3. /\ at[0] = 0 /\ DOMAIN at = 0 .. m
      /\ \A n \in 1 .. m : at[n] = ends[n] + 1
  BY <1>2
<1>4. at \in [0 .. m -> 0 .. last + 1]
  <2>1. \A n \in 0 .. m : at[n] \in 0 .. last + 1
    <3> SUFFICES ASSUME NEW n \in 0 .. m PROVE at[n] \in 0 .. last + 1
      OBVIOUS
    <3>1. CASE n = 0
      BY <1>3, <3>1
    <3>2. CASE n # 0
      <4>1. n \in 1 .. m
        BY <1>2, <3>2
      <4>2. at[n] = ends[n] + 1 /\ ends[n] \in 0 .. last
        BY <1>a, <1>3, <4>1
      <4> QED BY <4>2
    <3> QED BY <3>1, <3>2
  <2> QED BY <1>3, <2>1
<1> HIDE DEF at
<1>5. ASSUME NEW n \in 1 .. m
      PROVE  at[n - 1] < at[n] /\ pieces[n] = SubSeq(text, at[n - 1] + 1, at[n] - 1)
  <2>1. at[n - 1] = IF n = 1 THEN 0 ELSE ends[n - 1] + 1
    <3>1. CASE n = 1
      BY <1>3, <3>1
    <3>2. CASE n # 1
      <4>1. n - 1 \in 1 .. m
        BY <1>2, <3>2
      <4> QED BY <1>3, <3>2, <4>1
    <3> QED BY <3>1, <3>2
  <2>2. ends[n] \in Nat /\ at[n] = ends[n] + 1 /\ at[n] - 1 = ends[n]
    BY <1>a, <1>3
  <2>3. at[n - 1] < at[n]
    <3>1. CASE n = 1
      BY <1>3, <2>1, <2>2, <3>1
    <3>2. CASE n # 1
      <4>1. n - 1 \in 1 .. m /\ n - 1 < n
        BY <1>2, <3>2
      <4>2. ends[n - 1] < ends[n] /\ ends[n - 1] \in Nat
        BY <1>a, <4>1
      <4> QED BY <1>3, <2>1, <2>2, <3>2, <4>2
    <3> QED BY <3>1, <3>2
  <2> QED BY <1>2, <2>1, <2>2, <2>3
<1>6. {at[n] : n \in DOMAIN at} = positions
  <2>1. ASSUME NEW n \in 0 .. m PROVE at[n] \in positions
    <3>1. CASE n = 0
      BY <1>3, <3>1
    <3>2. CASE n # 0
      <4>1. n \in 1 .. m
        BY <1>2, <3>2
      <4>2. at[n] = ends[n] + 1 /\ ends[n] \in 0 .. last /\ (ends[n] = last \/ text[ends[n] + 1] = c)
        BY <1>a, <1>3, <4>1
      <4> QED BY <4>2
    <3> QED BY <3>1, <3>2
  <2>2. ASSUME NEW p \in positions PROVE \E n \in 0 .. m : at[n] = p
    <3>1. CASE p = 0
      BY <1>2, <1>3, <3>1
    <3>2. CASE p # 0
      <4>1. p - 1 \in 0 .. last /\ (p - 1) + 1 = p /\ (p - 1 = last \/ text[p] = c)
        BY <3>2
      <4>2. PICK k \in 1 .. m : ends[k] = p - 1
        BY <1>b, <4>1
      <4>3. k \in 0 .. m /\ at[k] = p
        BY <1>3, <4>1, <4>2
      <4> QED BY <4>3
    <3> QED BY <3>1, <3>2
  <2> HIDE DEF positions
  <2> QED BY <1>3, <2>1, <2>2
<1> QED BY <1>2, <1>4, <1>5, <1>6 DEF Str!AreFields, m
-----------------------------------------------------------------------------
(* The invariant of ValpStrings: in CopiesAreRight are the types, and the  *)
(* others rely on Sealed.                                                  *)
StringsInv == Str!CopiesAreRight /\ Sealed(heap, written) /\ Str!MethodsGive

LEMMA TypesAre ==
  Str!TypeOK <=> /\ HeapOK(heap) /\ written \subseteq DOMAIN heap
                 /\ \A k \in constants : k.string \in DOMAIN heap
BY DEF Str!TypeOK, HeapOK, Record

LEMMA StringsInit == Str!Init => StringsInv
<1> SUFFICES ASSUME Str!Init PROVE StringsInv
  OBVIOUS
<1>1. heap = <<>> /\ constants = {} /\ written = {} /\ returned.call = "none"
  BY DEF Str!Init
<1>2. HeapOK(heap) /\ Sealed(heap, written)
  <2>1. heap \in Seq(Record) /\ DOMAIN heap = {}
    BY <1>1
  <2> QED BY <2>1 DEF HeapOK, Sealed
<1>3. Str!CopiesAreRight
  BY <1>1, <1>2, TypesAre DEF Str!CopiesAreRight
<1>4. Str!MethodsGive
  BY <1>1 DEF Str!MethodsGive
<1> QED BY <1>2, <1>3, <1>4 DEF StringsInv

(* A step that interns strings.                                            *)
LEMMA Interned ==
  ASSUME StringsInv, Grows(heap, heap', written), written' = written,
         \A k \in constants' : k \in constants \/ k.string \in DOMAIN heap'
  PROVE  Str!TypeOK' /\ Sealed(heap, written)'
<1>1. HeapOK(heap) /\ written \subseteq DOMAIN heap /\ Sealed(heap, written)
      /\ \A k \in constants : k.string \in DOMAIN heap
  BY TypesAre DEF StringsInv, Str!CopiesAreRight
<1>2. HeapOK(heap)' /\ Sealed(heap', written)
  BY <1>1 DEF Grows, HeapOK
<1>3. DOMAIN heap \subseteq DOMAIN heap'
  <2>1. /\ DOMAIN heap = 1 .. Len(heap) /\ DOMAIN heap' = 1 .. Len(heap')
        /\ Len(heap) \in Nat /\ Len(heap') \in Nat /\ Len(heap) <= Len(heap')
    BY <1>1, HeapIs DEF Grows
  <2> QED BY <2>1
<1>4. HeapOK(heap)' /\ (written \subseteq DOMAIN heap)'
      /\ (\A k \in constants : k.string \in DOMAIN heap)'
  BY <1>1, <1>2, <1>3
<1>5. Str!TypeOK'
  BY <1>4 DEF Str!TypeOK, HeapOK, Record
<1> QED BY <1>2, <1>5

LEMMA LiteralStep ==
  ASSUME Str!StringAssumption, StringsInv, NEW text \in Str!Texts, Str!literal(text)
  PROVE  StringsInv'
<1> DEFINE copy == Str!copy_string(heap, text)
<1>1. text \in Str!Bytes
  <2>1. PICK n \in 0 .. MaxText : text \in [1 .. n -> Char]
    BY DEF Str!Texts
  <2>2. text \in [1 .. n -> Char \cup {NUL}]
    BY <2>1
  <2> QED BY <2>2 DEF Str!Bytes
<1>2. HeapOK(heap)
  BY TypesAre DEF StringsInv, Str!CopiesAreRight
<1>3. /\ Grows(heap, copy.heap, written) /\ copy.string \in DOMAIN copy.heap
      /\ copy.heap[copy.string].chars = text
  BY <1>1, <1>2, CopyIs
<1>4. /\ heap' = copy.heap /\ written' = written
      /\ constants' = constants \cup {[text |-> text, string |-> copy.string]}
      /\ returned' = [call |-> "literal", text |-> text, with |-> <<>>, value |-> copy.string]
  BY DEF Str!literal, Str!Returns
<1> HIDE DEF copy
<1>5. Str!TypeOK' /\ Sealed(heap, written)'
  BY <1>3, <1>4, Interned
<1>6. Str!CopiesAreRight' /\ Str!MethodsGive'
  BY <1>3, <1>4, <1>5 DEF Str!CopiesAreRight, Str!MethodsGive
<1> QED BY <1>5, <1>6 DEF StringsInv

LEMMA ConcatenateStep ==
  ASSUME Str!StringAssumption, StringsInv, NEW a \in DOMAIN heap, NEW b \in DOMAIN heap,
         Str!concatenate(a, b)
  PROVE  StringsInv'
<1> DEFINE text == heap[a].chars \o heap[b].chars
           copy == Str!copy_string(heap, text)
<1>1. HeapOK(heap)
  BY TypesAre DEF StringsInv, Str!CopiesAreRight
<1>2. text \in Str!Bytes
  <2>1. heap[a].chars \in Seq(Byte) /\ heap[b].chars \in Seq(Byte)
    BY <1>1, HeapIs, BytesAre
  <2>2. text \in Seq(Byte)
    BY <2>1, ConcatIs
  <2>3. Len(text) <= MaxText
    BY DEF Str!concatenate
  <2> QED BY <2>2, <2>3, BytesAre
<1>3. /\ heap' = copy.heap /\ written' = written /\ constants' = constants
      /\ returned' = [call |-> "concatenate", text |-> text, with |-> <<>>, value |-> copy.string]
  BY DEF Str!concatenate, Str!Returns
<1> HIDE DEF text
<1>4. /\ Grows(heap, copy.heap, written) /\ copy.string \in DOMAIN copy.heap
      /\ copy.heap[copy.string].chars = text
  BY <1>1, <1>2, CopyIs
<1> HIDE DEF copy
<1>5. Str!TypeOK' /\ Sealed(heap, written)'
  BY <1>3, <1>4, Interned
<1>6. Str!CopiesAreRight' /\ Str!MethodsGive'
  BY <1>3, <1>4, <1>5 DEF Str!CopiesAreRight, Str!MethodsGive
<1> QED BY <1>5, <1>6 DEF StringsInv

(* A step that writes into a string.                                       *)
LEMMA Written ==
  ASSUME Str!StringAssumption, StringsInv, NEW s \in DOMAIN heap, NEW chars \in Seq(Byte),
         Len(chars) = Len(heap[s].chars), Str!Writes(s, chars)
  PROVE  /\ Str!TypeOK' /\ Sealed(heap, written)'
         /\ heap'[s].chars = chars
<1>1. HeapOK(heap) /\ written \subseteq DOMAIN heap /\ Sealed(heap, written)
      /\ \A k \in constants : k.string \in DOMAIN heap
  BY TypesAre DEF StringsInv, Str!CopiesAreRight
<1>2. /\ Len(heap) \in Nat /\ DOMAIN heap = 1 .. Len(heap)
      /\ \A t \in DOMAIN heap : heap[t] \in Record
  BY <1>1, HeapIs
<1>3. chars \in Str!Bytes
  <2>1. heap[s].chars \in Seq(Byte) /\ Len(heap[s].chars) <= MaxText
    BY <1>1, HeapIs, BytesAre
  <2> QED BY <2>1, BytesAre
<1>4. /\ heap' = [heap EXCEPT ![s] = [heap[s] EXCEPT !.chars = chars]]
      /\ written' = written \cup {s} /\ constants' = constants
  BY DEF Str!Writes
<1> DEFINE new == [heap[s] EXCEPT !.chars = chars]
<1>5. new \in Record /\ new.chars = chars /\ new.hash = heap[s].hash
  BY <1>2, <1>3 DEF Record
<1> HIDE DEF new
<1>6. /\ heap' \in Seq(Record) /\ DOMAIN heap' = DOMAIN heap
      /\ heap'[s] = new /\ \A t \in DOMAIN heap : t # s => heap'[t] = heap[t]
  <2>1. heap \in Seq(Record) /\ heap' = [heap EXCEPT ![s] = new]
    BY <1>1, <1>4 DEF HeapOK, new
  <2> QED BY <1>2, <1>5, <2>1
<1>7. \A t \in DOMAIN heap' : Len(heap'[t].chars) = Len(heap'[t].hash)
  BY <1>1, <1>5, <1>6 DEF HeapOK
<1>8. Str!TypeOK'
  BY <1>1, <1>4, <1>6, <1>7 DEF Str!TypeOK, Record
<1>9. Sealed(heap, written)'
  <2>1. \A t \in DOMAIN heap' \ written' : t \in DOMAIN heap \ written /\ heap'[t] = heap[t]
    BY <1>4, <1>6
  <2> QED BY <1>1, <2>1 DEF Sealed
<1> QED BY <1>5, <1>6, <1>8, <1>9

LEMMA ReverseStep ==
  ASSUME Str!StringAssumption, StringsInv, NEW s \in DOMAIN heap, Str!string_reverse(s)
  PROVE  StringsInv'
<1> DEFINE old == heap[s].chars
           text == Str!CString(old)
           length == Len(text)
           chars == [n \in DOMAIN old |-> IF n <= length THEN text[length + 1 - n] ELSE old[n]]
<1>1. old \in Seq(Byte)
  <2>1. HeapOK(heap)
    BY TypesAre DEF StringsInv, Str!CopiesAreRight
  <2> QED BY <2>1, HeapIs, BytesAre
<1>2. /\ Str!Writes(s, chars)
      /\ returned' = [call |-> "reverse", text |-> text, with |-> <<>>, value |-> s]
  BY DEF Str!string_reverse, Str!Returns
<1> HIDE DEF old
<1>3. /\ text \in Seq(Byte) /\ Len(text) <= Len(old)
      /\ \A n \in 1 .. Len(text) : text[n] = old[n] /\ old[n] # NUL
      /\ Len(text) < Len(old) => old[Len(text) + 1] = NUL
  BY <1>1, CStringIs
<1> HIDE DEF text
<1>4. length \in Nat /\ Len(old) \in Nat /\ DOMAIN old = 1 .. Len(old)
  BY <1>1, <1>3
<1>5. \A n \in 1 .. length : length + 1 - n \in 1 .. length /\ n \in DOMAIN old
  BY <1>3, <1>4
<1>6. \A n \in 1 .. length : text[length + 1 - n] \in Byte /\ text[length + 1 - n] # NUL
  BY <1>3, <1>5
<1>7. /\ chars \in Seq(Byte) /\ Len(chars) = Len(old)
      /\ \A n \in 1 .. length : chars[n] = text[length + 1 - n]
      /\ length < Len(old) => chars[length + 1] = NUL
  <2>1. \A n \in 1 .. Len(old) : chars[n] \in Byte
    BY <1>1, <1>4, <1>6
  <2>2. DOMAIN chars = 1 .. Len(old)
    BY <1>4
  <2>3. \A n \in 1 .. length : chars[n] = text[length + 1 - n]
    BY <1>5
  <2>4. length < Len(old) => length + 1 \in DOMAIN old /\ ~(length + 1 <= length)
    BY <1>4
  <2>5. length < Len(old) => chars[length + 1] = old[length + 1]
    BY <2>4
  <2>6. chars \in [1 .. Len(old) -> Byte]
    BY <1>4, <2>1
  <2> HIDE DEF chars
  <2>7. chars \in Seq(Byte) /\ Len(chars) = Len(old)
    BY <1>4, <2>6
  <2> QED BY <1>3, <2>3, <2>5, <2>7
<1> HIDE DEF chars
<1>8. Str!CString(chars) = Str!Reverse(text)
  <2> DEFINE r == [n \in 1 .. length |-> text[length + 1 - n]]
  <2>1. Str!Reverse(text) = r
    <3>1. \A n \in 1 .. length : length + 1 - n = (length - n) + 1
      BY <1>4
    <3>2. Str!Reverse(text) = [n \in 1 .. length |-> text[(length - n) + 1]]
      BY DEF Str!Reverse
    <3> QED BY <3>1, <3>2
  <2>2. r \in Seq(Byte) /\ Len(r) = length /\ \A n \in 1 .. length : r[n] = text[length + 1 - n]
    BY <1>4, <1>6
  <2> HIDE DEF r
  <2>3. Len(r) <= Len(chars) /\ (Len(r) < Len(chars) => chars[Len(r) + 1] = NUL)
    BY <1>3, <1>7, <2>2
  <2>4. \A n \in 1 .. Len(r) : r[n] = chars[n] /\ chars[n] # NUL
    BY <1>6, <1>7, <2>2
  <2> QED BY <1>7, <2>1, <2>2, <2>3, <2>4, CStringOf
<1>9. Str!TypeOK' /\ Sealed(heap, written)' /\ heap'[s].chars = chars
  BY <1>2, <1>7, Written DEF old
<1>10. Str!CopiesAreRight' /\ Str!MethodsGive'
  BY <1>2, <1>8, <1>9 DEF Str!CopiesAreRight, Str!MethodsGive
<1> QED BY <1>9, <1>10 DEF StringsInv

LEMMA ReplaceStep ==
  ASSUME Str!StringAssumption, StringsInv, NEW s \in DOMAIN heap, NEW x \in DOMAIN heap,
         NEW y \in DOMAIN heap, Str!string_replace(s, x, y)
  PROVE  StringsInv'
<1> DEFINE old == heap[x].chars[1]
           new == heap[y].chars[1]
           text == heap[s].chars
           chars == [n \in DOMAIN text |-> IF text[n] = old THEN new ELSE text[n]]
<1>1. HeapOK(heap)
  BY TypesAre DEF StringsInv, Str!CopiesAreRight
<1>2. text \in Seq(Byte) /\ heap[y].chars \in Seq(Byte)
  BY <1>1, HeapIs, BytesAre
<1>3. /\ Str!Writes(s, chars) /\ Len(heap[y].chars) = 1
      /\ returned' = [call |-> "replace", text |-> text, with |-> <<old, new>>, value |-> s]
  BY DEF Str!string_replace, Str!Returns, Str!IsCharacter, Str!string_length
<1>4. new \in Byte
  BY <1>2, <1>3
<1> HIDE DEF new, old
<1>5. chars \in Seq(Byte) /\ Len(chars) = Len(text)
  <2> HIDE DEF text
  <2>1. DOMAIN text = 1 .. Len(text) /\ Len(text) \in Nat /\ \A n \in DOMAIN text : text[n] \in Byte
    BY <1>2
  <2>2. chars \in [1 .. Len(text) -> Byte]
    BY <1>4, <2>1
  <2> HIDE DEF chars
  <2> QED BY <2>1, <2>2
<1>6. Str!TypeOK' /\ Sealed(heap, written)' /\ heap'[s].chars = chars
  BY <1>3, <1>5, Written
<1>7. chars = Str!ReplaceAll(text, old, new)
  <2>1. DOMAIN text = 1 .. Len(text)
    BY <1>2
  <2> QED BY <2>1 DEF Str!ReplaceAll
<1> HIDE DEF chars, text
<1>8. Str!CopiesAreRight'
  BY <1>3, <1>6 DEF Str!CopiesAreRight
<1>9. Str!MethodsGive'
  BY <1>3, <1>6, <1>7 DEF Str!MethodsGive
<1> QED BY <1>6, <1>8, <1>9 DEF StringsInv

LEMMA SplitStep ==
  ASSUME Str!StringAssumption, StringsInv, NEW s \in DOMAIN heap, NEW x \in DOMAIN heap,
         Str!string_split(s, x)
  PROVE  StringsInv'
<1> DEFINE text == heap[s].chars
           c == heap[x].chars[1]
           ends == Str!cuts(text, c)
           pieces == Str!slices(text, c)
           Start(n) == IF n = 1 THEN 0 ELSE ends[n - 1] + 1
<1>1. PICK garbage \in Garbage :
        LET all == Str!copy_strings(heap, [n \in DOMAIN pieces |->
                                             Str!SliceBytes(text, pieces[n], garbage)])
        IN  /\ heap' = all.heap
            /\ Str!Returns("split", text, heap[x].chars, all.strings)
  BY DEF Str!string_split
<1>2. UNCHANGED <<constants, written>>
  BY DEF Str!string_split
<1> DEFINE texts == [n \in DOMAIN pieces |-> Str!SliceBytes(text, pieces[n], garbage)]
           all == Str!copy_strings(heap, texts)
<1>3. heap' = all.heap
      /\ returned' = [call |-> "split", text |-> text, with |-> heap[x].chars, value |-> all.strings]
  BY <1>1 DEF Str!Returns
<1>4. HeapOK(heap)
  BY TypesAre DEF StringsInv, Str!CopiesAreRight
<1>5. text \in Seq(Byte) /\ Len(text) <= MaxText /\ Len(text) \in Nat /\ DOMAIN text = 1 .. Len(text)
  <2>1. text \in Seq(Byte) /\ Len(text) <= MaxText
    BY <1>4, HeapIs, BytesAre
  <2> QED BY <2>1
<1> HIDE DEF text
<1>6. ends \in Seq(Nat)
  <2>1. CutsFrom(ends, text, c, 0)
    BY <1>5, CutsAre
  <2> QED BY <2>1 DEF CutsFrom
<1>7. Len(ends) \in Nat /\ DOMAIN pieces = 1 .. Len(ends)
  <2>1. DOMAIN pieces = DOMAIN ends
    BY DEF Str!slices
  <2> HIDE DEF ends
  <2> QED BY <1>6, <2>1
<1>8. ASSUME NEW n \in 1 .. Len(ends)
      PROVE  /\ pieces[n] = [start |-> Start(n), end |-> ends[n]]
             /\ Start(n) \in Nat /\ ends[n] \in Nat /\ Start(n) <= ends[n] /\ ends[n] <= Len(text)
  BY <1>5, SlicesAre
<1> HIDE DEF ends, pieces
<1>9. ASSUME NEW n \in 1 .. Len(ends)
      PROVE  /\ texts[n] \in Str!Bytes
             /\ (\A k \in DOMAIN text : text[k] # NUL) =>
                  Str!CString(texts[n]) = SubSeq(text, Start(n) + 1, ends[n])
  <2>1. texts[n] = Str!SliceBytes(text, pieces[n], garbage)
    BY <1>7
  <2> DEFINE start == Start(n)
             end == ends[n]
             bytes == texts[n]
             slice == pieces[n]
  <2>2. /\ slice = [start |-> start, end |-> end] /\ bytes = Str!SliceBytes(text, slice, garbage)
        /\ start \in Nat /\ end \in Nat /\ start <= end /\ end <= Len(text)
    BY <1>8, <2>1
  <2> HIDE DEF texts, start, end, bytes, slice
  <2>3. /\ bytes \in Str!Bytes
        /\ (\A k \in DOMAIN text : text[k] # NUL) =>
             Str!CString(bytes) = SubSeq(text, start + 1, end)
    <3>1. IsPiece(bytes, text, start, end)
      BY <1>5, <2>2, SliceIs
    <3> QED BY <3>1 DEF IsPiece
  <2> QED BY <2>3 DEF bytes, start, end
<1>10. texts \in Seq(Str!Bytes) /\ Len(texts) = Len(ends) /\ DOMAIN texts = 1 .. Len(ends)
  <2>1. DOMAIN texts = 1 .. Len(ends)
    BY <1>7
  <2>2. texts = [n \in 1 .. Len(ends) |-> texts[n]]
    BY <2>1
  <2> HIDE DEF texts
  <2>3. texts \in [1 .. Len(ends) -> Str!Bytes]
    BY <1>9, <2>2
  <2> QED BY <1>7, <2>1, <2>3
<1> HIDE DEF texts
<1>11. /\ Grows(heap, all.heap, written)
       /\ all.strings \in Seq(DOMAIN all.heap) /\ Len(all.strings) = Len(texts)
       /\ \A n \in DOMAIN texts : all.heap[all.strings[n]].chars = texts[n]
  <2>1. texts \in Seq(Str!Bytes)
    BY <1>10
  <2>2. AllCopied(heap, written, texts, all)
    BY <1>4, <2>1, CopiesAre
  <2> QED BY <2>2 DEF AllCopied
<1> HIDE DEF all
<1>12. Str!TypeOK' /\ Sealed(heap, written)'
  BY <1>2, <1>3, <1>11, Interned
<1>13. ASSUME Str!Splits(text, c)
       PROVE  Str!AreFields([n \in DOMAIN Str!Pieces' |-> Str!CString(Str!Pieces'[n])], text, c)
  <2>1. Str!Pieces' = [n \in DOMAIN all.strings |-> all.heap[all.strings[n]].chars]
    BY <1>3 DEF Str!Pieces
  <2>2. DOMAIN all.strings = 1 .. Len(ends)
    BY <1>10, <1>11
  <2> DEFINE given == [n \in 1 .. Len(ends) |-> Str!CString(texts[n])]
  <2>3. DOMAIN Str!Pieces' = 1 .. Len(ends)
        /\ \A n \in 1 .. Len(ends) : Str!Pieces'[n] = texts[n]
    BY <1>10, <1>11, <2>1, <2>2
  <2>4. [n \in DOMAIN Str!Pieces' |-> Str!CString(Str!Pieces'[n])] = given
    BY <2>3
  <2>5. \A k \in DOMAIN text : text[k] # NUL
    <3>1. Str!CString(text) = text
      BY <1>13 DEF Str!Splits
    <3>2. \A k \in 1 .. Len(text) : text[k] # NUL
      BY <1>5, <3>1, CStringIs
    <3> QED BY <1>5, <3>2
  <2>6. \A n \in 1 .. Len(ends) : given[n] = SubSeq(text, Start(n) + 1, ends[n])
    BY <1>9, <2>5
  <2>7. given \in Seq(Seq(Byte)) /\ Len(given) = Len(ends)
    <3>1. ASSUME NEW n \in 1 .. Len(ends) PROVE given[n] \in Seq(Byte)
      <4>1. texts[n] \in Seq(Byte)
        BY <1>9, BytesAre
      <4>2. Str!CString(texts[n]) \in Seq(Byte)
        BY <4>1, CStringIs
      <4> QED BY <4>2
    <3>2. given \in [1 .. Len(ends) -> Seq(Byte)]
      BY <3>1
    <3> HIDE DEF given
    <3> QED BY <1>7, <3>2
  <2>8. Sees(text, c)
    BY <1>13 DEF Str!Splits, Sees
  <2>9. ends = Str!cuts(text, c)
    BY DEF ends
  <2> HIDE DEF given
  <2>10. Str!AreFields(given, text, c)
    BY <1>5, <2>6, <2>7, <2>8, <2>9, FieldsAre
  <2> QED BY <2>4, <2>10
<1>14. Str!CopiesAreRight'
  BY <1>3, <1>12 DEF Str!CopiesAreRight
<1>15. Str!MethodsGive'
  BY <1>3, <1>13 DEF Str!MethodsGive
<1> QED BY <1>12, <1>14, <1>15 DEF StringsInv

LEMMA StringsNext ==
  ASSUME Str!StringAssumption, StringsInv, [Str!Next]_(Str!vars)
  PROVE  StringsInv'
<1>1. CASE Str!Next
  <2>1. CASE \E text \in Str!Texts : Str!literal(text)
    BY <2>1, LiteralStep
  <2>2. CASE \E s, t \in DOMAIN heap : Str!concatenate(s, t)
    BY <2>2, ConcatenateStep
  <2>3. CASE \E s, t \in DOMAIN heap : Str!string_split(s, t)
    BY <2>3, SplitStep
  <2>4. CASE \E s \in DOMAIN heap : Str!string_reverse(s)
    BY <2>4, ReverseStep
  <2>5. CASE \E s, x, y \in DOMAIN heap : Str!string_replace(s, x, y)
    BY <2>5, ReplaceStep
  <2> QED BY <1>1, <2>1, <2>2, <2>3, <2>4, <2>5 DEF Str!Next
<1>2. CASE UNCHANGED Str!vars
  <2>1. UNCHANGED <<heap, constants, written, returned>>
    BY <1>2 DEF Str!vars
  <2>2. Str!CopiesAreRight'
    BY <2>1 DEF StringsInv, Str!CopiesAreRight, Str!TypeOK
  <2>3. Str!MethodsGive'
    BY <2>1 DEF StringsInv, Str!MethodsGive, Str!Pieces
  <2> QED BY <2>1, <2>2, <2>3 DEF StringsInv, Sealed
<1> QED BY <1>1, <1>2

LEMMA StringsInvHolds ==
  ASSUME Str!StringAssumption
  PROVE  Str!Spec => []StringsInv
<1>1. StringsInv /\ [Str!Next]_(Str!vars) => StringsInv'
  BY StringsNext
<1> QED BY <1>1, StringsInit, PTL DEF Str!Spec

(* What is compiled or concatenated has its characters: a string whose     *)
(* characters were changed is not found under them, although its hash is   *)
(* the old one, since hash_find_string compares the characters too.        *)
THEOREM CopiesAreRightHolds ==
  ASSUME StringAssumption
  PROVE  StringSpec => []CopiesAreRight
<1>1. StringsInv => CopiesAreRight
  BY DEF StringsInv, CopiesAreRight
<1> QED BY <1>1, StringsInvHolds, PTL DEF StringAssumption, StringSpec

(* No two strings that nobody wrote into have the same characters, however *)
(* they came about and whatever is written into others.                    *)
THEOREM EqualStringsAreOneHolds ==
  ASSUME StringAssumption
  PROVE  StringSpec => []EqualStringsAreOne
<1>1. StringsInv => EqualStringsAreOne
  BY DEF StringsInv, Sealed, EqualStringsAreOne, Str!EqualStringsAreOne
<1> QED BY <1>1, StringsInvHolds, PTL DEF StringAssumption, StringSpec

(* reverse, replace and split give, as C strings, what their names say:    *)
(* split where it sees every separator, and whatever it reads behind its   *)
(* buffer.                                                                 *)
THEOREM MethodsGiveHolds ==
  ASSUME StringAssumption
  PROVE  StringSpec => []MethodsGive
<1>1. StringsInv => MethodsGive
  BY DEF StringsInv, MethodsGive
<1> QED BY <1>1, StringsInvHolds, PTL DEF StringAssumption, StringSpec
-----------------------------------------------------------------------------
(* Arrays.  What the program sees of them, and which of two it sees are    *)
(* the same if those of a set R are.                                       *)
Seen == [a \in Made \ (IF pc = "new" THEN {self} ELSE {}) |-> Contents(a)]

Alike(f, R) ==
  {q \in (DOMAIN f) \X (DOMAIN f) :
     LET s == f[q[1]]
         t == f[q[2]]
     IN  /\ Len(s) = Len(t)
         /\ \A n \in DOMAIN s : IF s[n] \in Array /\ t[n] \in Array
                                THEN <<s[n], t[n]>> \in R
                                ELSE s[n] = t[n]}

Depth(f) == Cardinality(DOMAIN f) * Cardinality(DOMAIN f) + 1
Deeper(f, g, n) == IF n = 0 THEN {} ELSE Alike(f, g[n - 1])
Deepens(f, g, d) == g = [n \in 0 .. d |-> Deeper(f, g, n)]

LEMMA DeepensExists ==
  ASSUME NEW f, NEW d \in Nat
  PROVE  \E g : Deepens(f, g, d)
<1> DEFINE From(k, g) == /\ g = [n \in 0 .. d |-> g[n]]
                         /\ \A n \in 0 .. d : n <= k => g[n] = Deeper(f, g, n)
           S == {k \in Nat : \E g : From(k, g)}
<1>1. 0 \in S
  <2> DEFINE g == [n \in 0 .. d |-> {}]
  <2>1. g = [n \in 0 .. d |-> g[n]]
    OBVIOUS
  <2>2. ASSUME NEW n \in 0 .. d, n <= 0 PROVE g[n] = Deeper(f, g, n)
    <3>1. n = 0
      BY <2>2
    <3> QED BY <3>1 DEF Deeper
  <2> HIDE DEF g
  <2>3. From(0, g)
    BY <2>1, <2>2
  <2> QED BY <2>3
<1>2. ASSUME NEW k \in S PROVE k + 1 \in S
  <2>1. PICK h : From(k, h)
    OBVIOUS
  <2>2. k \in Nat
    OBVIOUS
  <2> DEFINE new == Alike(f, h[k])
             g == [n \in 0 .. d |-> IF n = k + 1 THEN new ELSE h[n]]
  <2> HIDE DEF S
  <2>3. ASSUME NEW n \in 0 .. d, n <= k + 1 PROVE g[n] = Deeper(f, g, n)
    <3>1. n > 0 => n - 1 \in 0 .. d /\ n - 1 # k + 1 /\ n - 1 <= k
      BY <2>2, <2>3
    <3>2. n > 0 => g[n - 1] = h[n - 1]
      BY <3>1
    <3>3. Deeper(f, g, n) = Deeper(f, h, n)
      <4> HIDE DEF g
      <4> QED BY <3>2 DEF Deeper
    <3>4. CASE n = k + 1
      <4>1. g[n] = new /\ n - 1 = k /\ n # 0
        BY <2>2, <3>4
      <4>2. Deeper(f, h, n) = new
        BY <4>1 DEF Deeper
      <4> QED BY <3>3, <4>1, <4>2
    <3>5. CASE n # k + 1
      <4>1. g[n] = h[n] /\ n <= k
        BY <2>2, <2>3, <3>5
      <4>2. h[n] = Deeper(f, h, n)
        BY <2>1, <4>1
      <4> QED BY <3>3, <4>1, <4>2
    <3> QED BY <3>4, <3>5
  <2>4. g = [n \in 0 .. d |-> g[n]]
    OBVIOUS
  <2> HIDE DEF g
  <2>5. From(k + 1, g)
    BY <2>3, <2>4
  <2> QED BY <2>2, <2>5 DEF S
<1>3. d \in S
  <2> HIDE DEF S
  <2>1. S \in SUBSET Nat
    BY DEF S
  <2> QED BY <1>1, <1>2, <2>1, Naturals
<1>4. PICK g : From(d, g)
  BY <1>3
<1>5. \A n \in 0 .. d : g[n] = Deeper(f, g, n)
  BY <1>4
<1> QED BY <1>4, <1>5 DEF Deepens

(* Looking deeper than there are pairs of arrays finds no more that are    *)
(* the same.                                                               *)
LEMMA DeepEnough ==
  ASSUME NEW f, IsFiniteSet(DOMAIN f), NEW g, Deepens(f, g, Depth(f))
  PROVE  g[Depth(f)] = Alike(f, g[Depth(f)])
<1> DEFINE d == Depth(f)
           pairs == (DOMAIN f) \X (DOMAIN f)
<1>1. /\ d \in Nat /\ d - 1 \in Nat
      /\ IsFiniteSet(pairs) /\ Cardinality(pairs) = d - 1
  <2>1. Cardinality(DOMAIN f) \in Nat
    BY FS_CardinalityType
  <2>2. Cardinality(DOMAIN f) * Cardinality(DOMAIN f) \in Nat
    BY <2>1
  <2>3. IsFiniteSet(pairs) /\ Cardinality(pairs) = Cardinality(DOMAIN f) * Cardinality(DOMAIN f)
    BY FS_Product
  <2> QED BY <2>2, <2>3 DEF Depth
<1>2. \A n \in 0 .. d : g[n] = Deeper(f, g, n)
  BY DEF Deepens
<1> HIDE DEF d
<1>3. \A n \in 0 .. d : g[n] \subseteq pairs
  BY <1>2 DEF Deeper, Alike
<1>4. ASSUME NEW n \in Nat, n < d PROVE g[n + 1] = Alike(f, g[n]) /\ n \in 0 .. d /\ n + 1 \in 0 .. d
  <2>1. n + 1 \in 0 .. d /\ n + 1 # 0 /\ (n + 1) - 1 = n
    BY <1>1, <1>4
  <2> QED BY <1>1, <1>2, <2>1, <1>4 DEF Deeper
<1>5. ASSUME NEW R, NEW T, R \subseteq T PROVE Alike(f, R) \subseteq Alike(f, T)
  BY <1>5 DEF Alike
<1>6. \A n \in Nat : n < d => g[n] \subseteq g[n + 1]
  <2> DEFINE S == {n \in Nat : n < d => g[n] \subseteq g[n + 1]}
  <2>1. 0 \in S
    <3>1. 0 \in 0 .. d
      BY <1>1
    <3>2. g[0] = {}
      BY <1>2, <3>1 DEF Deeper
    <3> QED BY <3>2
  <2>2. ASSUME NEW n \in S PROVE n + 1 \in S
    <3>1. n \in Nat /\ n + 1 \in Nat
      OBVIOUS
    <3> SUFFICES ASSUME n + 1 < d PROVE g[n + 1] \subseteq g[(n + 1) + 1]
      BY <3>1
    <3>2. n < d
      BY <1>1, <3>1
    <3>3. g[n] \subseteq g[n + 1]
      BY <3>2
    <3> HIDE DEF S
    <3>4. g[n + 1] = Alike(f, g[n]) /\ g[(n + 1) + 1] = Alike(f, g[n + 1])
      BY <1>4, <3>1, <3>2
    <3> QED BY <1>5, <3>3, <3>4
  <2> HIDE DEF S
  <2>3. S \in SUBSET Nat
    BY DEF S
  <2>4. S = Nat
    BY <2>1, <2>2, <2>3, Naturals
  <2> QED BY <2>4 DEF S
<1>7. ASSUME \A n \in Nat : n < d => g[n] # g[n + 1] PROVE FALSE
  <2> DEFINE S == {n \in Nat : n <= d => Cardinality(g[n]) >= n}
  <2>0. ASSUME NEW n \in 0 .. d
        PROVE  IsFiniteSet(g[n]) /\ Cardinality(g[n]) \in Nat /\ Cardinality(g[n]) <= d - 1
    <3>1. g[n] \in SUBSET pairs
      BY <1>3
    <3>2. IsFiniteSet(g[n]) /\ Cardinality(g[n]) <= Cardinality(pairs)
      BY <1>1, <3>1, FS_Subset
    <3> QED BY <1>1, <3>2, FS_CardinalityType
  <2>1. 0 \in S
    <3>1. 0 \in 0 .. d
      BY <1>1
    <3> QED BY <2>0, <3>1
  <2>2. ASSUME NEW n \in S PROVE n + 1 \in S
    <3>1. n \in Nat /\ n + 1 \in Nat
      OBVIOUS
    <3> SUFFICES ASSUME n + 1 <= d PROVE Cardinality(g[n + 1]) >= n + 1
      BY <3>1
    <3>2. n < d /\ n <= d /\ n \in 0 .. d /\ n + 1 \in 0 .. d
      BY <1>1, <3>1
    <3>3. Cardinality(g[n]) >= n
      BY <3>2
    <3> HIDE DEF S
    <3>4. g[n] \in SUBSET g[n + 1] /\ g[n] # g[n + 1]
      BY <1>6, <1>7, <3>1, <3>2
    <3>5. /\ IsFiniteSet(g[n + 1]) /\ Cardinality(g[n + 1]) \in Nat /\ Cardinality(g[n]) \in Nat
      BY <2>0, <3>2
    <3>6. Cardinality(g[n]) <= Cardinality(g[n + 1]) /\ Cardinality(g[n + 1]) # Cardinality(g[n])
      BY <3>4, <3>5, FS_Subset
    <3> QED BY <3>1, <3>3, <3>5, <3>6
  <2> HIDE DEF S
  <2>3. S \in SUBSET Nat
    BY DEF S
  <2>4. S = Nat
    BY <2>1, <2>2, <2>3, Naturals
  <2>5. Cardinality(g[d]) >= d
    BY <1>1, <2>4 DEF S
  <2>6. d \in 0 .. d
    BY <1>1
  <2> QED BY <1>1, <2>0, <2>5, <2>6
<1>8. PICK n \in Nat : n < d /\ g[n] = g[n + 1]
  BY <1>7
<1>9. \A m \in Nat : n + m <= d => g[n + m] = g[n]
  <2> DEFINE S == {m \in Nat : n + m <= d => g[n + m] = g[n]}
  <2>1. 0 \in S
    OBVIOUS
  <2>2. ASSUME NEW m \in S PROVE m + 1 \in S
    <3>1. m \in Nat /\ m + 1 \in Nat /\ n + m \in Nat
      OBVIOUS
    <3> SUFFICES ASSUME n + (m + 1) <= d PROVE g[n + (m + 1)] = g[n]
      BY <3>1
    <3>2. n + m < d /\ n + m <= d /\ n + (m + 1) = (n + m) + 1
      BY <1>1, <3>1
    <3>3. g[n + m] = g[n]
      BY <3>2
    <3> HIDE DEF S
    <3>4. g[(n + m) + 1] = Alike(f, g[n + m])
      BY <1>4, <3>1, <3>2
    <3>5. g[n + 1] = Alike(f, g[n])
      BY <1>4, <1>8
    <3> QED BY <1>8, <3>2, <3>3, <3>4, <3>5
  <2> HIDE DEF S
  <2>3. S \in SUBSET Nat
    BY DEF S
  <2>4. S = Nat
    BY <2>1, <2>2, <2>3, Naturals
  <2> QED BY <2>4 DEF S
<1>10. g[d] = g[n] /\ g[d - 1] = g[n]
  <2>1. d - n \in Nat /\ n + (d - n) = d /\ (d - 1) - n \in Nat /\ n + ((d - 1) - n) = d - 1
        /\ d <= d /\ d - 1 <= d
    BY <1>1, <1>8
  <2> QED BY <1>9, <2>1
<1>11. g[d] = Alike(f, g[d - 1])
  <2>1. d - 1 < d /\ (d - 1) + 1 = d
    BY <1>1
  <2> QED BY <1>1, <1>4, <2>1
<1>12. g[d] = Alike(f, g[d])
  BY <1>10, <1>11
<1> QED BY <1>12 DEF d

(* The pairs of lists that are the same.                                   *)
SameOf(f) == (CHOOSE g : Deepens(f, g, Depth(f)))[Depth(f)]

LEMMA SameFixed ==
  ASSUME NEW f, IsFiniteSet(DOMAIN f)
  PROVE  SameOf(f) = Alike(f, SameOf(f))
<1> DEFINE g == CHOOSE g : Deepens(f, g, Depth(f))
<1>1. Depth(f) \in Nat
  <2>1. Cardinality(DOMAIN f) \in Nat
    BY FS_CardinalityType
  <2> QED BY <2>1 DEF Depth
<1>2. Deepens(f, g, Depth(f))
  BY <1>1, DeepensExists
<1>3. SameOf(f) = g[Depth(f)]
  BY DEF SameOf
<1> HIDE DEF g
<1> QED BY <1>2, <1>3, DeepEnough

LEMMA CardinalityIs == \A S : L!Cardinality(S) = Cardinality(S)
BY DEF L!Cardinality, Cardinality

LEMMA SameIs == L!Same = SameOf(Seen)
BY CardinalityIs DEF SameOf, L!Same, L!Made, Deepens, Deeper, Depth, Alike, Seen
-----------------------------------------------------------------------------
Match(x, y, R) == IF x \in Array /\ y \in Array THEN <<x, y>> \in R ELSE x = y

(* The memory of the arrays, and what runs.                                *)
MemoryOK ==
  /\ values \in [Made -> Seq(Value \cup {JUNK})] /\ DOMAIN count = Made
  /\ Made \subseteq Array /\ IsFiniteSet(Made)
  /\ \A a \in Made :
       /\ count[a] \in 0 .. Len(values[a])
       /\ \A n \in 1 .. count[a] : values[a][n] # JUNK

ControlOK ==
  /\ pc \in {"idle", "new", "insert", "drop", "equal"}
  /\ i \in Int /\ args \in Seq(Value) /\ self \in Made \cup {NIL}
  /\ pc = "idle" <=> self = NIL

(* OP_NEW_ARRAY: the elements so far are the first operands.               *)
Filling ==
  /\ i \in 0 .. Len(args) /\ count[self] + i = Len(args)
  /\ \A n \in 1 .. count[self] : values[self][n] = args[n]

(* prepend_valp_value_array: there is room, and what was moved is elements.*)
Inserting ==
  /\ Len(args) = 1 /\ i \in -1 .. count[self] - 1
  /\ count[self] < Len(values[self])
  /\ \A n \in i + 3 .. count[self] + 1 : values[self][n] # JUNK

Dropping == Len(args) = 1 /\ i \in 0 .. count[self] - 1

(* array_equal: a call compared the elements before its counter, and calls *)
(* the next one for those at it.                                           *)
Compared(c) ==
  /\ c.i <= count[c.left] /\ c.i <= count[c.right]
  /\ \A n \in 1 .. c.i : Match(values[c.left][n], values[c.right][n], SameOf(Seen))
Called(c, e) ==
  /\ count[c.left] = count[c.right] /\ c.i < count[c.left]
  /\ Cell(c.left, c.i) = e.left /\ Cell(c.right, c.i) = e.right
Needed(c) == <<self, args[1]>> \in SameOf(Seen) => <<c.left, c.right>> \in SameOf(Seen)

Comparing ==
  /\ Len(args) = 1 /\ args[1] \in Made
  /\ work \in Seq([left : Made, right : Made, i : Nat]) /\ Len(work) > 0
  /\ work[1].left = self /\ work[1].right = args[1]
  /\ \A w \in 1 .. Len(work) : Compared(work[w]) /\ Needed(work[w])
  /\ \A w \in 1 .. Len(work) - 1 : Called(work[w], work[w + 1])

ArraysInv ==
  /\ MemoryOK /\ ControlOK
  /\ pc = "new" => Filling
  /\ pc = "insert" => Inserting
  /\ pc = "drop" => Dropping
  /\ pc = "equal" => Comparing

LEMMA ArrayNames ==
  ASSUME MemoryOK
  PROVE  /\ NIL \notin Array /\ JUNK \notin Value
         /\ \A v \in Value : v \in Array => v \in Made
<1>1. Made \subseteq Array
  BY DEF MemoryOK
<1> QED BY <1>1, ArrayAssumption DEF Value

LEMMA MemoryIs ==
  ASSUME MemoryOK, NEW a \in Made
  PROVE  /\ values[a] \in Seq(Value \cup {JUNK}) /\ Len(values[a]) \in Nat /\ a \in Array /\ a # NIL
         /\ count[a] \in Nat /\ count[a] <= Len(values[a])
         /\ \A n \in 1 .. Len(values[a]) : values[a][n] \in Value \cup {JUNK}
         /\ \A n \in 1 .. count[a] : n \in 1 .. Len(values[a]) /\ values[a][n] \in Value
<1>1. values[a] \in Seq(Value \cup {JUNK}) /\ Len(values[a]) \in Nat
  BY DEF MemoryOK
<1>2. \A n \in 1 .. Len(values[a]) : values[a][n] \in Value \cup {JUNK}
  BY <1>1
<1>3. count[a] \in Nat /\ count[a] <= Len(values[a]) /\ \A n \in 1 .. count[a] : values[a][n] # JUNK
  BY <1>1 DEF MemoryOK
<1>4. a \in Array /\ a # NIL
  BY ArrayNames DEF MemoryOK
<1>5. ASSUME NEW n \in 1 .. count[a] PROVE n \in 1 .. Len(values[a]) /\ values[a][n] \in Value
  BY <1>1, <1>2, <1>3
<1> QED BY <1>1, <1>2, <1>3, <1>4, <1>5
-----------------------------------------------------------------------------
LEMMA PartIs ==
  ASSUME NEW S, NEW s, s \in Seq(S), NEW m \in Nat \ {0}, NEW n \in Nat, n <= Len(s), m <= n + 1
  PROVE  /\ SubSeq(s, m, n) \in Seq(S) /\ Len(SubSeq(s, m, n)) = n - m + 1
         /\ \A k \in 1 .. n - m + 1 : SubSeq(s, m, n)[k] = s[m + k - 1]
<1>1. \A k \in m .. n : s[k] \in S
  OBVIOUS
<1>2. m \in Int /\ n \in Int
  OBVIOUS
<1>3. /\ SubSeq(s, m, n) \in Seq(S)
      /\ Len(SubSeq(s, m, n)) = IF m <= n THEN n - m + 1 ELSE 0
      /\ \A k \in 1 .. n - m + 1 : SubSeq(s, m, n)[k] = s[m + k - 1]
  BY <1>1, <1>2, SubSeqProperties
<1>4. ~(m <= n) => n - m + 1 = 0
  OBVIOUS
<1> QED BY <1>3, <1>4

Joined(u, S, s, t) ==
  /\ u \in Seq(S) /\ Len(u) = Len(s) + Len(t)
  /\ \A n \in 1 .. Len(s) : u[n] = s[n]
  /\ \A n \in Len(s) + 1 .. Len(s) + Len(t) : u[n] = t[n - Len(s)]

LEMMA JoinIs ==
  ASSUME NEW S, NEW s, s \in Seq(S), NEW t, t \in Seq(S)
  PROVE  Joined(s \o t, S, s, t)
<1>1. /\ s \o t \in Seq(S) /\ Len(s \o t) = Len(s) + Len(t)
      /\ \A n \in 1 .. Len(s) + Len(t) : (s \o t)[n] = IF n <= Len(s) THEN s[n] ELSE t[n - Len(s)]
  BY ConcatProperties
<1>2. Len(s) \in Nat /\ Len(t) \in Nat
  OBVIOUS
<1> DEFINE u == s \o t
<1> HIDE DEF u
<1>3. Joined(u, S, s, t)
  BY <1>1, <1>2 DEF u, Joined
<1> QED BY <1>3 DEF u

(* What the program sees, element by element.                              *)
ElementAt(a, n) ==
  IF a # self THEN values[a][n]
  ELSE IF pc = "insert" THEN (IF n <= i + 1 THEN values[a][n] ELSE values[a][n + 1])
  ELSE IF pc = "drop" THEN (IF n = 1 THEN args[1]
                            ELSE IF n <= i + 1 THEN values[a][n - 1] ELSE values[a][n])
  ELSE values[a][n]

Shown(a) == Contents(a) = [n \in 1 .. count[a] |-> ElementAt(a, n)]

LEMMA AsFunction ==
  ASSUME NEW S, NEW s, s \in Seq(S)
  PROVE  s = [n \in 1 .. Len(s) |-> s[n]]
OBVIOUS

LEMMA ContentsAre ==
  ASSUME ArraysInv, NEW a \in Made
  PROVE  Shown(a)
<1> DEFINE S == Value \cup {JUNK}
           all == values[a]
           c == count[a]
           part == SubSeq(all, 1, c)
<1>1. /\ all \in Seq(S) /\ Len(all) \in Nat /\ c \in Nat /\ c <= Len(all)
      /\ MemoryOK /\ ControlOK
  BY MemoryIs DEF ArraysInv
<1>2. CASE a # self \/ pc \notin {"insert", "drop"}
  <2>1. Contents(a) = part
    BY <1>2 DEF Contents
  <2>2. ASSUME NEW n \in 1 .. c PROVE ElementAt(a, n) = all[n]
    BY <1>2 DEF ElementAt
  <2> HIDE DEF all, c, S
  <2>3. part \in Seq(S) /\ Len(part) = c /\ \A n \in 1 .. c : part[n] = all[n]
    <3>1. 1 \in Nat \ {0} /\ 1 <= c + 1 /\ c - 1 + 1 = c /\ \A k \in 1 .. c : 1 + k - 1 = k
      BY <1>1
    <3> QED BY <1>1, <3>1, PartIs
  <2> HIDE DEF part
  <2>4. part = [n \in 1 .. c |-> part[n]]
    BY <2>3, AsFunction
  <2> QED BY <2>1, <2>2, <2>3, <2>4 DEF Shown, c
<1>3. CASE a = self /\ pc = "insert"
  <2> DEFINE p == SubSeq(all, 1, i + 1)
             q == SubSeq(all, i + 3, c + 1)
             s == p \o q
  <2>1. Contents(a) = s
    BY <1>3 DEF Contents
  <2>2. Len(args) = 1 /\ i \in -1 .. c - 1 /\ c < Len(all)
    BY <1>3 DEF ArraysInv, Inserting
  <2>3. ASSUME NEW n \in 1 .. c PROVE ElementAt(a, n) = IF n <= i + 1 THEN all[n] ELSE all[n + 1]
    BY <1>3 DEF ElementAt
  <2> HIDE DEF all, c, S
  <2>4. /\ i + 1 \in Nat /\ i + 3 \in Nat \ {0} /\ c + 1 \in Nat /\ i + 1 <= Len(all) /\ c + 1 <= Len(all)
        /\ 1 <= (i + 1) + 1 /\ i + 3 <= (c + 1) + 1 /\ (i + 1) - 1 + 1 = i + 1
        /\ (c + 1) - (i + 3) + 1 = c - i - 1 /\ c - i - 1 \in Nat /\ (i + 1) + (c - i - 1) = c
    BY <1>1, <2>2
  <2>5. p \in Seq(S) /\ Len(p) = i + 1 /\ \A k \in 1 .. i + 1 : p[k] = all[1 + k - 1]
    <3> DEFINE e == i + 1
    <3>1. /\ e \in Nat /\ e <= Len(all) /\ 1 \in Nat \ {0} /\ 1 <= e + 1 /\ e - 1 + 1 = e
          /\ all \in Seq(S) /\ p = SubSeq(all, 1, e)
      BY <1>1, <2>4
    <3> HIDE DEF e, p
    <3>2. p \in Seq(S) /\ Len(p) = e /\ \A k \in 1 .. e : p[k] = all[1 + k - 1]
      BY <3>1, PartIs
    <3> QED BY <3>2 DEF e
  <2>6. q \in Seq(S) /\ Len(q) = c - i - 1 /\ \A k \in 1 .. c - i - 1 : q[k] = all[(i + 3) + k - 1]
    BY <1>1, <2>4, PartIs
  <2> HIDE DEF p, q
  <2>7. /\ s \in Seq(S) /\ Len(s) = c
        /\ \A n \in 1 .. i + 1 : s[n] = p[n]
        /\ \A n \in (i + 1) + 1 .. c : s[n] = q[n - (i + 1)]
    <3>1. Joined(p \o q, S, p, q)
      BY <2>5, <2>6, JoinIs
    <3> QED BY <2>4, <2>5, <2>6, <3>1 DEF Joined
  <2> HIDE DEF s
  <2>8. ASSUME NEW n \in 1 .. c PROVE s[n] = IF n <= i + 1 THEN all[n] ELSE all[n + 1]
    <3>1. CASE n <= i + 1
      <4>1. n \in 1 .. i + 1 /\ 1 + n - 1 = n
        BY <2>4, <3>1
      <4> QED BY <2>5, <2>7, <3>1, <4>1
    <3>2. CASE ~(n <= i + 1)
      <4>1. /\ n \in (i + 1) + 1 .. c /\ n - (i + 1) \in 1 .. c - i - 1
            /\ (i + 3) + (n - (i + 1)) - 1 = n + 1
        BY <1>1, <2>2, <3>2
      <4> QED BY <2>6, <2>7, <3>2, <4>1
    <3> QED BY <3>1, <3>2
  <2>9. s = [n \in 1 .. c |-> s[n]]
    BY <2>7, AsFunction
  <2> QED BY <2>1, <2>3, <2>8, <2>9 DEF Shown, c
<1>4. CASE a = self /\ pc = "drop"
  <2> DEFINE p == SubSeq(all, 1, i)
             q == SubSeq(all, i + 2, c)
             r == args \o p
             s == r \o q
  <2>1. Contents(a) = s
    BY <1>4 DEF Contents
  <2>2. Len(args) = 1 /\ i \in 0 .. c - 1 /\ args \in Seq(S)
    <3>1. Len(args) = 1 /\ i \in 0 .. c - 1 /\ args \in Seq(Value)
      BY <1>1, <1>4 DEF ArraysInv, Dropping, ControlOK
    <3> QED BY <3>1
  <2>3. ASSUME NEW n \in 1 .. c
        PROVE  ElementAt(a, n) = IF n = 1 THEN args[1] ELSE IF n <= i + 1 THEN all[n - 1] ELSE all[n]
    BY <1>4 DEF ElementAt
  <2> HIDE DEF all, c, S
  <2>4. /\ i \in Nat /\ i + 2 \in Nat \ {0} /\ i <= Len(all)
        /\ 1 <= i + 1 /\ i + 2 <= c + 1 /\ i - 1 + 1 = i
        /\ c - (i + 2) + 1 = c - i - 1 /\ c - i - 1 \in Nat /\ (1 + i) + (c - i - 1) = c
    BY <1>1, <2>2
  <2>5. p \in Seq(S) /\ Len(p) = i /\ \A k \in 1 .. i : p[k] = all[1 + k - 1]
    BY <1>1, <2>4, PartIs
  <2>6. q \in Seq(S) /\ Len(q) = c - i - 1 /\ \A k \in 1 .. c - i - 1 : q[k] = all[(i + 2) + k - 1]
    BY <1>1, <2>4, PartIs
  <2> HIDE DEF p, q
  <2>7. /\ r \in Seq(S) /\ Len(r) = 1 + i
        /\ \A n \in 1 .. 1 : r[n] = args[n]
        /\ \A n \in 1 + 1 .. 1 + i : r[n] = p[n - 1]
    <3>1. Joined(args \o p, S, args, p)
      BY <2>2, <2>5, JoinIs
    <3> QED BY <2>2, <2>5, <3>1 DEF Joined
  <2> HIDE DEF r
  <2>8. /\ s \in Seq(S) /\ Len(s) = c
        /\ \A n \in 1 .. 1 + i : s[n] = r[n]
        /\ \A n \in (1 + i) + 1 .. c : s[n] = q[n - (1 + i)]
    <3>1. Joined(r \o q, S, r, q)
      BY <2>6, <2>7, JoinIs
    <3> QED BY <2>4, <2>6, <2>7, <3>1 DEF Joined
  <2> HIDE DEF s
  <2>9. ASSUME NEW n \in 1 .. c
        PROVE  s[n] = IF n = 1 THEN args[1] ELSE IF n <= i + 1 THEN all[n - 1] ELSE all[n]
    <3>1. CASE n = 1
      <4>1. n \in 1 .. 1 + i /\ n \in 1 .. 1
        BY <2>4, <3>1
      <4> QED BY <2>7, <2>8, <3>1, <4>1
    <3>2. CASE n # 1 /\ n <= i + 1
      <4>1. n \in 1 .. 1 + i /\ n \in 1 + 1 .. 1 + i /\ n - 1 \in 1 .. i /\ 1 + (n - 1) - 1 = n - 1
        BY <2>4, <3>2
      <4> QED BY <2>5, <2>7, <2>8, <3>2, <4>1
    <3>3. CASE n # 1 /\ ~(n <= i + 1)
      <4>1. /\ n \in (1 + i) + 1 .. c /\ n - (1 + i) \in 1 .. c - i - 1
            /\ (i + 2) + (n - (1 + i)) - 1 = n
        BY <1>1, <2>2, <3>3
      <4> QED BY <2>6, <2>8, <3>3, <4>1
    <3> QED BY <3>1, <3>2, <3>3
  <2>10. s = [n \in 1 .. c |-> s[n]]
    BY <2>8, AsFunction
  <2> QED BY <2>1, <2>3, <2>9, <2>10 DEF Shown, c
<1> QED BY <1>2, <1>3, <1>4
-----------------------------------------------------------------------------
Visible == Made \ (IF pc = "new" THEN {self} ELSE {})

Spelled == Seen = [a \in Visible |-> [n \in 1 .. count[a] |-> ElementAt(a, n)]]

LEMMA SeenIs == ArraysInv => Spelled
<1> SUFFICES ASSUME ArraysInv
             PROVE  Seen = [a \in Visible |-> [n \in 1 .. count[a] |-> ElementAt(a, n)]]
  BY DEF Spelled
<1>1. ASSUME NEW a \in Visible PROVE Contents(a) = [n \in 1 .. count[a] |-> ElementAt(a, n)]
  <2>1. a \in Made
    BY DEF Visible
  <2> QED BY <2>1, ContentsAre DEF Shown
<1>2. Seen = [a \in Visible |-> Contents(a)]
  BY DEF Seen, Visible
<1> QED BY <1>1, <1>2

LEMMA SeenIsNext ==
  ArraysInv' => Seen' = [a \in Visible' |-> [n \in 1 .. count'[a] |-> ElementAt(a, n)']]
<1>1. ArraysInv' => Spelled'
  BY SeenIs, PTL
<1> QED BY <1>1 DEF Spelled

LEMMA SeenKept ==
  ASSUME ArraysInv, ArraysInv', Visible' = Visible,
         \A a \in Visible : /\ count'[a] = count[a]
                            /\ \A n \in 1 .. count[a] : ElementAt(a, n)' = ElementAt(a, n)
  PROVE  Seen' = Seen
<1>1. Seen = [a \in Visible |-> [n \in 1 .. count[a] |-> ElementAt(a, n)]]
  BY SeenIs DEF Spelled
<1>2. Seen' = [a \in Visible |-> [n \in 1 .. count'[a] |-> ElementAt(a, n)']]
  BY SeenIsNext
<1>3. ASSUME NEW a \in Visible
      PROVE  [n \in 1 .. count'[a] |-> ElementAt(a, n)'] = [n \in 1 .. count[a] |-> ElementAt(a, n)]
  OBVIOUS
<1> QED BY <1>1, <1>2, <1>3

(* What is seen of a step that changes one array.                          *)
LEMMA SeenSet ==
  ASSUME ArraysInv, ArraysInv', NEW a \in Visible, Visible' = Visible,
         \A x \in Visible : x # a =>
           /\ count'[x] = count[x]
           /\ \A n \in 1 .. count[x] : ElementAt(x, n)' = ElementAt(x, n),
         NEW s, s = [n \in 1 .. count'[a] |-> ElementAt(a, n)']
  PROVE  Seen' = [Seen EXCEPT ![a] = s]
<1>1. Seen = [x \in Visible |-> [n \in 1 .. count[x] |-> ElementAt(x, n)]]
  BY SeenIs DEF Spelled
<1>2. Seen' = [x \in Visible |-> [n \in 1 .. count'[x] |-> ElementAt(x, n)']]
  BY SeenIsNext
<1>3. ASSUME NEW x \in Visible, x # a
      PROVE  [n \in 1 .. count'[x] |-> ElementAt(x, n)'] = [n \in 1 .. count[x] |-> ElementAt(x, n)]
  BY <1>3
<1>4. Seen' = [x \in Visible |-> IF x = a THEN s ELSE Seen[x]]
  BY <1>1, <1>2, <1>3
<1>5. DOMAIN Seen = Visible
  BY DEF Seen, Visible
<1> QED BY <1>4, <1>5

(* The list that is seen of an array at rest.                              *)
LEMMA SeenAt ==
  ASSUME ArraysInv, pc \in {"idle", "equal"}, NEW a \in Made
  PROVE  /\ DOMAIN Seen = Made /\ Seen[a] = [n \in 1 .. count[a] |-> values[a][n]]
         /\ Seen[a] \in Seq(Value) /\ Len(Seen[a]) = count[a] /\ count[a] \in Nat
         /\ \A n \in 1 .. count[a] : Seen[a][n] = values[a][n] /\ values[a][n] \in Value
<1>1. Visible = Made
  BY DEF Visible
<1>2. \A n \in 1 .. count[a] : ElementAt(a, n) = values[a][n]
  BY DEF ElementAt
<1>3. DOMAIN Seen = Made /\ Seen[a] = [n \in 1 .. count[a] |-> values[a][n]]
  BY <1>1, <1>2, SeenIs DEF Spelled
<1>4. count[a] \in Nat /\ \A n \in 1 .. count[a] : values[a][n] \in Value
  BY MemoryIs DEF ArraysInv
<1>5. Seen[a] \in Seq(Value) /\ Len(Seen[a]) = count[a]
  BY <1>3, <1>4
<1> QED BY <1>3, <1>4, <1>5
-----------------------------------------------------------------------------
(* The calls that read.                                                    *)
LEMMA OnlyResult ==
  ASSUME ArraysInv, UNCHANGED <<values, count, pc, self, i, args, work>>
  PROVE  ArraysInv' /\ Seen' = Seen
<1>1. Seen' = Seen
  BY DEF Seen, Contents, Made
<1>2. MemoryOK' /\ ControlOK'
  BY DEF ArraysInv, MemoryOK, ControlOK, Made, Value
<1>3. pc' = "new" => Filling'
  BY DEF ArraysInv, Filling
<1>4. pc' = "insert" => Inserting'
  BY DEF ArraysInv, Inserting
<1>5. pc' = "drop" => Dropping'
  BY DEF ArraysInv, Dropping
<1>6. pc' = "equal" => Comparing'
  BY <1>1 DEF ArraysInv, Comparing, Compared, Called, Needed, Cell, Made
<1> QED BY <1>1, <1>2, <1>3, <1>4, <1>5, <1>6 DEF ArraysInv

LEMMA ReadsIs ==
  ASSUME ArraysInv, NEW m, NEW a \in Made, NEW s, NEW v, Reads(m, a, s, v)
  PROVE  /\ ArraysInv' /\ L!Reads(m, a, s, v) /\ pc = "idle" /\ Visible = Made
         /\ a \in L!Made /\ L!Made = Made
<1>1. UNCHANGED <<values, count, pc, self, i, args, work>> /\ pc = "idle"
  BY DEF Reads, Idle
<1>2. ArraysInv' /\ Seen' = Seen
  BY <1>1, OnlyResult
<1>3. L!Reads(m, a, s, v)
  BY <1>2 DEF L!Reads, L!Returns, Seen, Reads, Returns
<1>4. Visible = Made /\ L!Made = Made
  BY <1>1 DEF Visible, L!Made
<1> QED BY <1>1, <1>2, <1>3, <1>4

Refines == ArraysInv' /\ (L!Next \/ UNCHANGED <<Seen, result>>)

LEMMA NextIs ==
  ASSUME NEW a \in Made, a \in Array, a \in L!Made, L!Made = DOMAIN Seen
  PROVE  /\ L!Reads("len", a, <<>>, Len(Seen[a])) => L!Next
         /\ L!Reads("is_empty", a, <<>>, Seen[a] = <<>>) => L!Next
         /\ \A idx \in Indices :
              L!Reads("slice", a, <<idx>>, IF idx + 1 \in DOMAIN Seen[a] THEN Seen[a][idx + 1] ELSE ERROR) => L!Next
         /\ \A m \in DOMAIN Arity, s \in L!Arguments :
              Len(s) # Arity[m] /\ L!Reads(m, a, s, ERROR) => L!Next
         /\ \A b \in L!Made : L!Reads("equal", a, <<b>>, <<a, b>> \in L!Same) => L!Next
         /\ \A v \in L!Element : L!Push(a, v) \/ L!Insert(a, v) => L!Next
         /\ L!Pop(a) \/ L!Drop(a) => L!Next
<1>1. L!Arity = Arity
  BY DEF L!Arity, Arity
<1>2. L!Reads("len", a, <<>>, Len(Seen[a])) => L!Next
  BY DEF L!Next, Seen
<1>3. L!Reads("is_empty", a, <<>>, Seen[a] = <<>>) => L!Next
  BY DEF L!Next, Seen
<1>4. ASSUME NEW idx \in Indices,
             L!Reads("slice", a, <<idx>>, IF idx + 1 \in DOMAIN Seen[a] THEN Seen[a][idx + 1] ELSE ERROR)
      PROVE  L!Next
  <2>1. L!Slice(a, idx)
    BY <1>4 DEF L!Slice, Seen
  <2> QED BY <2>1 DEF L!Next
<1>5. ASSUME NEW m \in DOMAIN Arity, NEW s \in L!Arguments, Len(s) # Arity[m], L!Reads(m, a, s, ERROR)
      PROVE  L!Next
  BY <1>1, <1>5 DEF L!Next
<1>6. ASSUME NEW b \in L!Made, L!Reads("equal", a, <<b>>, <<a, b>> \in L!Same) PROVE L!Next
  BY <1>6 DEF L!Next
<1>7. ASSUME NEW v \in L!Element, L!Push(a, v) \/ L!Insert(a, v) PROVE L!Next
  BY <1>7 DEF L!Next
<1>8. L!Pop(a) \/ L!Drop(a) => L!Next
  BY DEF L!Next
<1> QED BY <1>2, <1>3, <1>4, <1>5, <1>6, <1>7, <1>8

LEMMA LengthStep ==
  ASSUME ArraysInv, NEW a \in Made, array_length(a)
  PROVE  Refines
<1>1. ArraysInv' /\ L!Reads("len", a, <<>>, count[a]) /\ pc = "idle" /\ a \in L!Made
  BY ReadsIs DEF array_length
<1>2. Len(Seen[a]) = count[a] /\ L!Made = DOMAIN Seen /\ a \in Array
  BY <1>1, SeenAt, MemoryIs DEF L!Made, Seen, ArraysInv
<1> QED BY <1>1, <1>2, NextIs DEF Refines

LEMMA EmptyStep ==
  ASSUME ArraysInv, NEW a \in Made, array_empty(a)
  PROVE  Refines
<1>1. ArraysInv' /\ L!Reads("is_empty", a, <<>>, count[a] = 0) /\ pc = "idle" /\ a \in L!Made
  BY ReadsIs DEF array_empty
<1>2. Len(Seen[a]) = count[a] /\ Seen[a] \in Seq(Value) /\ L!Made = DOMAIN Seen /\ a \in Array
  BY <1>1, SeenAt, MemoryIs DEF L!Made, Seen, ArraysInv
<1>3. (count[a] = 0) = (Seen[a] = <<>>)
  BY <1>2
<1> QED BY <1>1, <1>2, <1>3, NextIs DEF Refines

LEMMA SliceStep ==
  ASSUME ArraysInv, NEW a \in Made, NEW idx \in Indices, op_slice(a, idx)
  PROVE  Refines
<1> DEFINE got == IF idx < 0 \/ idx > count[a] - 1 THEN ERROR ELSE Cell(a, idx)
           seen == IF idx + 1 \in DOMAIN Seen[a] THEN Seen[a][idx + 1] ELSE ERROR
<1>1. ArraysInv' /\ L!Reads("slice", a, <<idx>>, got) /\ pc = "idle" /\ a \in L!Made
  BY ReadsIs DEF op_slice
<1>2. /\ DOMAIN Seen[a] = 1 .. count[a] /\ count[a] \in Nat /\ L!Made = DOMAIN Seen /\ a \in Array
      /\ \A n \in 1 .. count[a] : Seen[a][n] = values[a][n]
  BY <1>1, SeenAt, MemoryIs DEF L!Made, Seen, ArraysInv
<1>3. idx \in Int
  BY ArrayAssumption
<1>4. got = seen
  BY <1>2, <1>3 DEF Cell
<1>5. L!Reads("slice", a, <<idx>>, seen)
  BY <1>1, <1>4
<1> QED BY <1>1, <1>2, <1>5, NextIs DEF Refines

LEMMA ArityStep ==
  ASSUME ArraysInv, NEW a \in Made, NEW m \in DOMAIN Arity, NEW s \in Arguments, wrong_arity(m, a, s)
  PROVE  Refines
<1>1. /\ ArraysInv' /\ L!Reads(m, a, s, ERROR) /\ pc = "idle" /\ a \in L!Made /\ L!Made = Made
      /\ Len(s) # Arity[m]
  BY ReadsIs DEF wrong_arity
<1>2. L!Made = DOMAIN Seen /\ a \in Array
  BY <1>1, MemoryIs DEF L!Made, Seen, ArraysInv
<1>3. s \in L!Arguments
  BY <1>1 DEF Arguments, L!Arguments, L!Element, Value
<1> QED BY <1>1, <1>2, <1>3, NextIs DEF Refines
-----------------------------------------------------------------------------
(* The calls that change an array at its end.                              *)
Roomy(t, a) ==
  /\ t \in Seq(Value \cup {JUNK}) /\ Len(t) >= count[a] + 1 /\ Len(t) >= Len(values[a])
  /\ \A n \in 1 .. Len(values[a]) : t[n] = values[a][n]

LEMMA GrownIs ==
  ASSUME MemoryOK, NEW a \in Made
  PROVE  Roomy(Grown(a), a)
<1> DEFINE S == Value \cup {JUNK}
           all == values[a]
           capacity == Len(all)
           more == GROW_CAPACITY(capacity) - capacity
           new == [n \in 1 .. more |-> JUNK]
<1>1. all \in Seq(S) /\ capacity \in Nat /\ count[a] \in Nat /\ count[a] <= capacity
  BY MemoryIs
<1>2. CASE capacity >= count[a] + 1
  <2>1. Grown(a) = all
    BY <1>2 DEF Grown
  <2> QED BY <1>1, <1>2, <2>1 DEF Roomy
<1>3. CASE ~(capacity >= count[a] + 1)
  <2>1. Grown(a) = all \o new
    BY <1>3 DEF Grown
  <2>2. more \in Nat /\ more >= 1 /\ capacity = count[a]
    <3> HIDE DEF capacity
    <3> QED BY <1>1, <1>3 DEF GROW_CAPACITY
  <2> HIDE DEF more
  <2>3. new \in Seq(S) /\ Len(new) = more
    BY <2>2
  <2> HIDE DEF new, S
  <2>4. Joined(all \o new, S, all, new)
    BY <1>1, <2>3, JoinIs
  <2>5. /\ Grown(a) \in Seq(S) /\ Len(Grown(a)) = capacity + more
        /\ \A n \in 1 .. capacity : Grown(a)[n] = all[n]
    BY <2>1, <2>3, <2>4 DEF Joined
  <2> HIDE DEF all
  <2>6. Len(Grown(a)) >= count[a] + 1 /\ Len(Grown(a)) >= capacity
    BY <1>1, <2>2, <2>5
  <2> QED BY <2>5, <2>6 DEF Roomy, S, all
<1> QED BY <1>2, <1>3

(* One array gets other memory.                                            *)
Given(a, t, c) ==
  /\ MemoryOK' /\ Made' = Made /\ Value' = Value
  /\ values'[a] = t /\ count'[a] = c
  /\ \A x \in Made : x # a => values'[x] = values[x] /\ count'[x] = count[x]

LEMMA MemoryGiven ==
  ASSUME MemoryOK, NEW a \in Made, NEW s, s \in Seq(Value \cup {JUNK}), NEW c \in Nat, c <= Len(s),
         \A n \in 1 .. c : s[n] # JUNK,
         values' = [values EXCEPT ![a] = s],
         DOMAIN count' = Made, count'[a] = c, \A x \in Made : x # a => count'[x] = count[x]
  PROVE  Given(a, s, c)
<1>1. Made' = Made /\ Value' = Value
  BY DEF Made, Value
<1>2. /\ values \in [Made -> Seq(Value \cup {JUNK})] /\ Made \subseteq Array
      /\ IsFiniteSet(Made) /\ DOMAIN values = Made
  BY DEF MemoryOK, Made
<1>3. values' \in [Made -> Seq(Value \cup {JUNK})]
  BY <1>2
<1>4. /\ values'[a] = s /\ count'[a] = c
      /\ \A x \in Made : x # a => values'[x] = values[x] /\ count'[x] = count[x]
  BY <1>2
<1>5. ASSUME NEW x \in Made
      PROVE  count'[x] \in 0 .. Len(values'[x]) /\ \A n \in 1 .. count'[x] : values'[x][n] # JUNK
  <2>1. CASE x = a
    <3>1. c \in 0 .. Len(s)
      OBVIOUS
    <3> QED BY <1>4, <2>1, <3>1
  <2>2. CASE x # a
    BY <1>4, <2>2 DEF MemoryOK
  <2> QED BY <2>1, <2>2
<1>6. MemoryOK'
  BY <1>1, <1>2, <1>3, <1>5 DEF MemoryOK
<1> QED BY <1>1, <1>4, <1>6 DEF Given

LEMMA MemorySet ==
  ASSUME MemoryOK, NEW a \in Made, NEW s, s \in Seq(Value \cup {JUNK}), NEW c \in Nat, c <= Len(s),
         \A n \in 1 .. c : s[n] # JUNK,
         values' = [values EXCEPT ![a] = s], count' = [count EXCEPT ![a] = c]
  PROVE  Given(a, s, c)
<1>1. DOMAIN count = Made
  BY DEF MemoryOK
<1>2. DOMAIN count' = Made /\ count'[a] = c /\ \A x \in Made : x # a => count'[x] = count[x]
  BY <1>1
<1> QED BY <1>2, MemoryGiven

(* One cell of it gets a value.                                            *)
CellWritten(a, m, v) == values' = [values EXCEPT ![a][m] = v]
CellsBut(a, m, v) == [values[a] EXCEPT ![m] = v]
Counted(a, c) == DOMAIN count' = Made /\ count'[a] = c /\ \A x \in Made : x # a => count'[x] = count[x]
ElementsBut(a, m, c) == c <= Len(values[a]) /\ \A n \in 1 .. c : n # m => values[a][n] # JUNK
Changed(t, a, m, v) ==
  /\ Len(t) = Len(values[a]) /\ t[m] = v
  /\ \A n \in 1 .. Len(values[a]) : n # m => t[n] = values[a][n]

LEMMA CellGiven ==
  ASSUME MemoryOK, NEW a \in Made, NEW m \in 1 .. Len(values[a]), NEW v \in Value,
         NEW c \in Nat, ElementsBut(a, m, c), CellWritten(a, m, v), Counted(a, c)
  PROVE  /\ Given(a, CellsBut(a, m, v), c)
         /\ Changed(CellsBut(a, m, v), a, m, v)
<1> DEFINE t == CellsBut(a, m, v)
<1>1. values[a] \in Seq(Value \cup {JUNK}) /\ Len(values[a]) \in Nat
  BY MemoryIs
<1>2. /\ t \in Seq(Value \cup {JUNK}) /\ Len(t) = Len(values[a]) /\ t[m] = v
      /\ \A n \in 1 .. Len(values[a]) : n # m => t[n] = values[a][n]
  BY <1>1 DEF CellsBut
<1>3. ASSUME NEW n \in 1 .. c PROVE t[n] # JUNK
  <2>1. n \in 1 .. Len(values[a])
    BY <1>1 DEF ElementsBut
  <2> QED BY <1>2, <2>1, ArrayNames DEF ElementsBut
<1>4. values' = [values EXCEPT ![a] = t]
  BY DEF CellWritten, CellsBut
<1>5. c <= Len(t) /\ DOMAIN count' = Made /\ count'[a] = c /\ \A x \in Made : x # a => count'[x] = count[x]
  BY <1>2 DEF Counted, ElementsBut
<1> HIDE DEF t
<1>6. Given(a, t, c)
  BY <1>2, <1>3, <1>4, <1>5, MemoryGiven
<1>7. Changed(t, a, m, v)
  BY <1>2 DEF Changed
<1> QED BY <1>6, <1>7 DEF t

Stored(a, v) ==
  /\ MemoryOK' /\ Made' = Made /\ Value' = Value
  /\ count'[a] = count[a] + 1
  /\ \A n \in 1 .. count[a] : values'[a][n] = values[a][n]
  /\ values'[a][count[a] + 1] = v
  /\ \A x \in Made : x # a => values'[x] = values[x] /\ count'[x] = count[x]

LEMMA WriteIs ==
  ASSUME MemoryOK, NEW a \in Made, NEW v \in Value, write_valp_value_array(a, v)
  PROVE  Stored(a, v)
<1> DEFINE t == Grown(a)
           c == count[a]
           s == [t EXCEPT ![c + 1] = v]
<1>1. Roomy(t, a) /\ c \in Nat /\ Len(values[a]) \in Nat /\ c <= Len(values[a])
      /\ \A n \in 1 .. c : n \in 1 .. Len(values[a]) /\ values[a][n] \in Value
  BY GrownIs, MemoryIs
<1>2. values' = [values EXCEPT ![a] = s] /\ count' = [count EXCEPT ![a] = c + 1]
  BY DEF write_valp_value_array
<1> HIDE DEF t, c
<1>3. t \in Seq(Value \cup {JUNK}) /\ Len(t) \in Nat /\ Len(t) >= c + 1 /\ \A n \in 1 .. c : t[n] = values[a][n]
  BY <1>1 DEF Roomy, c
<1>4. /\ s \in Seq(Value \cup {JUNK}) /\ Len(s) = Len(t)
      /\ s[c + 1] = v /\ \A n \in 1 .. c : s[n] = values[a][n]
  <2>1. c + 1 \in 1 .. Len(t) /\ v \in Value \cup {JUNK}
    BY <1>1, <1>3
  <2>2. s \in Seq(Value \cup {JUNK}) /\ Len(s) = Len(t)
    BY <1>3, <2>1
  <2>3. s[c + 1] = v
    BY <1>3, <2>1
  <2>4. ASSUME NEW n \in 1 .. c PROVE s[n] = values[a][n]
    <3>1. n # c + 1 /\ n \in 1 .. Len(t)
      BY <1>1, <1>3
    <3> QED BY <1>3, <3>1
  <2> QED BY <2>2, <2>3, <2>4
<1>5. ASSUME NEW n \in 1 .. c + 1 PROVE s[n] # JUNK
  <2>1. n \in 1 .. c \/ n = c + 1
    BY <1>1
  <2> QED BY <1>1, <1>4, <2>1, ArrayNames
<1> HIDE DEF s
<1>6. c + 1 \in Nat /\ c + 1 <= Len(s)
  BY <1>1, <1>3, <1>4
<1>7. /\ MemoryOK' /\ Made' = Made /\ Value' = Value
      /\ values'[a] = s /\ count'[a] = c + 1
      /\ \A x \in Made : x # a => values'[x] = values[x] /\ count'[x] = count[x]
  <2>1. Given(a, s, c + 1)
    BY <1>2, <1>4, <1>5, <1>6, MemorySet
  <2> QED BY <2>1 DEF Given
<1> QED BY <1>4, <1>7 DEF Stored, c

(* A step at rest, that leaves nothing running.                            *)
LEMMA AtRest ==
  ASSUME ArraysInv, pc = "idle", UNCHANGED <<pc, self, i, args, work>>, MemoryOK', Made' = Made
  PROVE  ArraysInv' /\ Visible = Made /\ Visible' = Made
         /\ \A x \in Made : \A n : ElementAt(x, n) = values[x][n] /\ ElementAt(x, n)' = values'[x][n]
<1>1. ControlOK'
  BY DEF ArraysInv, ControlOK, Value
<1>2. ArraysInv'
  BY <1>1 DEF ArraysInv
<1>3. Visible = Made /\ Visible' = Made
  BY DEF Visible
<1>4. \A x \in Made : \A n : ElementAt(x, n) = values[x][n] /\ ElementAt(x, n)' = values'[x][n]
  BY DEF ElementAt
<1> QED BY <1>2, <1>3, <1>4

LEMMA PushStep ==
  ASSUME ArraysInv, NEW a \in Made, NEW v \in Value, array_push(a, v)
  PROVE  Refines
<1>1. /\ pc = "idle" /\ UNCHANGED <<pc, self, i, args, work>> /\ write_valp_value_array(a, v)
      /\ result' = [call |-> "push", of |-> a, args |-> <<v>>, value |-> NIL]
  BY DEF array_push, Idle, Returns
<1>2. Stored(a, v)
  BY <1>1, WriteIs DEF ArraysInv
<1>3. /\ ArraysInv' /\ Visible = Made /\ Visible' = Made
      /\ \A x \in Made : \A n : ElementAt(x, n) = values[x][n] /\ ElementAt(x, n)' = values'[x][n]
  BY <1>1, <1>2, AtRest DEF Stored
<1>4. /\ DOMAIN Seen = Made /\ Seen[a] = [n \in 1 .. count[a] |-> values[a][n]]
      /\ Seen[a] \in Seq(Value) /\ Len(Seen[a]) = count[a] /\ count[a] \in Nat
  BY <1>1, SeenAt
<1> DEFINE s == Append(Seen[a], v)
<1>5. s = [n \in 1 .. count'[a] |-> ElementAt(a, n)']
  <2>1. Appended(s, Value, Seen[a], v)
    BY <1>4, AppendIs
  <2> HIDE DEF s
  <2>2. s \in Seq(Value) /\ Len(s) = count'[a] /\ s = [n \in 1 .. count'[a] |-> s[n]]
    BY <1>2, <1>4, <2>1, AsFunction DEF Appended, Stored
  <2>3. ASSUME NEW n \in 1 .. count'[a] PROVE s[n] = ElementAt(a, n)'
    <3>1. n \in 1 .. count[a] \/ n = count[a] + 1
      BY <1>2, <1>4 DEF Stored
    <3>2. ElementAt(a, n)' = values'[a][n]
      BY <1>3
    <3>3. CASE n \in 1 .. count[a]
      <4>1. s[n] = Seen[a][n] /\ Seen[a][n] = values[a][n]
        BY <1>4, <2>1, <3>3 DEF Appended
      <4> QED BY <1>2, <3>2, <3>3, <4>1 DEF Stored
    <3>4. CASE n = count[a] + 1
      <4>1. s[n] = v
        BY <1>4, <2>1, <3>4 DEF Appended
      <4> QED BY <1>2, <3>2, <3>4, <4>1 DEF Stored
    <3> QED BY <3>1, <3>3, <3>4
  <2> QED BY <2>2, <2>3
<1> HIDE DEF s
<1>6. Seen' = [Seen EXCEPT ![a] = s]
  <2>1. ASSUME NEW x \in Visible, x # a
        PROVE  count'[x] = count[x] /\ \A n \in 1 .. count[x] : ElementAt(x, n)' = ElementAt(x, n)
    BY <1>2, <1>3, <2>1 DEF Stored
  <2> QED BY <1>3, <1>5, <2>1, SeenSet
<1>7. L!Push(a, v)
  BY <1>1, <1>6 DEF L!Push, L!Sets, L!Returns, Seen, s
<1>8. v \in L!Element /\ a \in L!Made /\ L!Made = DOMAIN Seen /\ a \in Array
  BY <1>4, MemoryIs DEF L!Element, L!Made, Seen, Value, ArraysInv
<1> QED BY <1>3, <1>7, <1>8, NextIs DEF Refines

LEMMA PopStep ==
  ASSUME ArraysInv, NEW a \in Made, array_pop(a)
  PROVE  Refines
<1>0. pc = "idle"
  BY DEF array_pop, Reads, Idle
<1>1. /\ DOMAIN Seen = Made /\ Seen[a] = [n \in 1 .. count[a] |-> values[a][n]]
      /\ Seen[a] \in Seq(Value) /\ Len(Seen[a]) = count[a] /\ count[a] \in Nat
      /\ \A n \in 1 .. count[a] : Seen[a][n] = values[a][n] /\ values[a][n] \in Value
      /\ a \in L!Made /\ L!Made = DOMAIN Seen /\ a \in Array /\ MemoryOK
  BY <1>0, SeenAt, MemoryIs DEF L!Made, Seen, ArraysInv
<1>2. CASE count[a] = 0
  <2>1. ArraysInv' /\ L!Reads("pop", a, <<>>, NIL)
    BY <1>2, ReadsIs DEF array_pop
  <2>2. Seen[a] = <<>>
    BY <1>1, <1>2
  <2>3. L!Pop(a)
    BY <2>1, <2>2 DEF L!Pop, Seen
  <2> QED BY <1>1, <2>1, <2>3, NextIs DEF Refines
<1>3. CASE count[a] # 0
  <2> DEFINE c == count[a] - 1
             s == SubSeq(Seen[a], 1, Len(Seen[a]) - 1)
  <2>1. /\ UNCHANGED <<values, pc, self, i, args, work>> /\ count' = [count EXCEPT ![a] = c]
        /\ result' = [call |-> "pop", of |-> a, args |-> <<>>, value |-> Cell(a, c)]
    BY <1>3 DEF array_pop, Idle, Returns
  <2>2. c \in Nat /\ c <= count[a] /\ count[a] = c + 1
    BY <1>1, <1>3
  <2> HIDE DEF c
  <2>3. /\ values[a] \in Seq(Value \cup {JUNK}) /\ c <= Len(values[a])
        /\ \A n \in 1 .. c : values[a][n] # JUNK /\ n \in 1 .. count[a]
    <3>1. values[a] \in Seq(Value \cup {JUNK}) /\ count[a] <= Len(values[a]) /\ Len(values[a]) \in Nat
      BY <1>1, MemoryIs
    <3>2. \A n \in 1 .. c : n \in 1 .. count[a]
      BY <2>2
    <3> QED BY <1>1, <2>2, <3>1, <3>2, ArrayNames
  <2>4. /\ MemoryOK' /\ Made' = Made /\ count'[a] = c
        /\ \A x \in Made : x # a => values'[x] = values[x] /\ count'[x] = count[x]
    <3>1. values' = [values EXCEPT ![a] = values[a]]
      <4>1. values \in [Made -> Seq(Value \cup {JUNK})]
        BY <1>1 DEF MemoryOK
      <4> QED BY <2>1, <4>1
    <3>2. count' = [count EXCEPT ![a] = c]
      BY <2>1
    <3>3. c \in Nat /\ c <= Len(values[a]) /\ \A n \in 1 .. c : values[a][n] # JUNK
      BY <2>2, <2>3
    <3>4. MemoryOK /\ values[a] \in Seq(Value \cup {JUNK})
      BY <1>1, <2>3
    <3> DEFINE t == values[a]
    <3>5. t \in Seq(Value \cup {JUNK}) /\ c <= Len(t) /\ \A n \in 1 .. c : t[n] # JUNK
      BY <3>3, <3>4
    <3>6. values' = [values EXCEPT ![a] = t]
      BY <3>1
    <3>7. MemoryOK /\ c \in Nat
      BY <1>1, <2>2
    <3> HIDE DEF t
    <3>8. Given(a, t, c)
      BY <3>2, <3>5, <3>6, <3>7, MemorySet
    <3> QED BY <3>8 DEF Given
  <2>5. /\ ArraysInv' /\ Visible = Made /\ Visible' = Made
        /\ \A x \in Made : \A n : ElementAt(x, n) = values[x][n] /\ ElementAt(x, n)' = values'[x][n]
    BY <1>0, <2>1, <2>4, AtRest
  <2>6. s = [n \in 1 .. count'[a] |-> ElementAt(a, n)']
    <3>1. /\ s \in Seq(Value) /\ Len(s) = c
          /\ \A n \in 1 .. c : s[n] = Seen[a][n]
      <4>1. 1 \in Nat \ {0} /\ 1 <= c + 1 /\ c - 1 + 1 = c /\ Len(Seen[a]) - 1 = c /\ c <= Len(Seen[a])
            /\ \A n \in 1 .. c : 1 + n - 1 = n
        BY <1>1, <2>2
      <4> QED BY <1>1, <2>2, <4>1, PartIs
    <3> HIDE DEF s
    <3>2. s = [n \in 1 .. c |-> s[n]]
      BY <3>1, AsFunction
    <3>3. \A n \in 1 .. c : s[n] = ElementAt(a, n)'
      BY <1>1, <2>1, <2>3, <2>5, <3>1
    <3> QED BY <2>4, <3>2, <3>3
  <2> HIDE DEF s
  <2>7. Seen' = [Seen EXCEPT ![a] = s]
    <3>1. ASSUME NEW x \in Visible, x # a
          PROVE  count'[x] = count[x] /\ \A n \in 1 .. count[x] : ElementAt(x, n)' = ElementAt(x, n)
      BY <2>4, <2>5, <3>1
    <3> QED BY <2>5, <2>6, <3>1, SeenSet
  <2>8. Cell(a, c) = Seen[a][Len(Seen[a])] /\ Seen[a] # <<>>
    <3>1. c + 1 \in 1 .. count[a] /\ Len(Seen[a]) = c + 1
      BY <1>1, <2>2
    <3>2. Seen[a] # <<>>
      BY <1>1, <1>3
    <3> QED BY <1>1, <3>1, <3>2 DEF Cell
  <2>9. L!Pop(a)
    BY <2>1, <2>7, <2>8 DEF L!Pop, L!Sets, L!Returns, Seen, s
  <2> QED BY <1>1, <2>5, <2>9, NextIs DEF Refines
<1> QED BY <1>2, <1>3
-----------------------------------------------------------------------------
(* OP_NEW_ARRAY.                                                           *)
LEMMA NewStep ==
  ASSUME ArraysInv, NEW s \in Arguments, op_new_array(s)
  PROVE  Refines
<1> DEFINE a == CHOOSE a \in Array \ Made : TRUE
<1>1. /\ pc = "idle" /\ a \in Array \ Made /\ new_array(a) /\ self' = a
      /\ pc' = "new" /\ args' = s /\ i' = Len(s) /\ result' = result
  BY DEF op_new_array
<1> HIDE DEF a
<1>2. /\ MemoryOK /\ values \in [Made -> Seq(Value \cup {JUNK})] /\ Made \subseteq Array
      /\ IsFiniteSet(Made) /\ a \notin Made /\ a \in Array
  BY <1>1 DEF ArraysInv, MemoryOK
<1>3. /\ values' = [x \in Made \cup {a} |-> IF x = a THEN <<>> ELSE values[x]]
      /\ count' = [x \in Made \cup {a} |-> IF x = a THEN 0 ELSE count[x]]
  BY <1>1 DEF new_array
<1>4. /\ Made' = Made \cup {a} /\ Value' = Value \cup {a} /\ values'[a] = <<>> /\ count'[a] = 0
      /\ \A x \in Made : x # a /\ values'[x] = values[x] /\ count'[x] = count[x]
      /\ DOMAIN count' = Made'
  BY <1>2, <1>3 DEF Made, Value
<1>5. MemoryOK'
  <2>1. ASSUME NEW x \in Made'
        PROVE  /\ values'[x] \in Seq(Value' \cup {JUNK}) /\ count'[x] \in 0 .. Len(values'[x])
               /\ \A n \in 1 .. count'[x] : values'[x][n] # JUNK
    <3>1. CASE x = a
      <4>1. <<>> \in Seq(Value' \cup {JUNK}) /\ 0 \in 0 .. Len(<<>>) /\ 1 .. 0 = {}
        OBVIOUS
      <4> QED BY <1>4, <3>1, <4>1
    <3>2. CASE x # a
      <4>1. x \in Made
        BY <1>4, <3>2
      <4>2. values[x] \in Seq(Value \cup {JUNK})
        BY <1>2, <4>1
      <4>3. values[x] \in Seq(Value' \cup {JUNK})
        BY <1>4, <4>2
      <4>4. count[x] \in 0 .. Len(values[x]) /\ \A n \in 1 .. count[x] : values[x][n] # JUNK
        BY <1>2, <4>1 DEF MemoryOK
      <4> QED BY <1>4, <4>1, <4>3, <4>4
    <3> QED BY <3>1, <3>2
  <2>2. values' = [x \in Made' |-> values'[x]]
    BY <1>3, <1>4
  <2>3. values' \in [Made' -> Seq(Value' \cup {JUNK})]
    BY <2>1, <2>2
  <2>4. IsFiniteSet(Made')
    BY <1>2, <1>4, FS_AddElement
  <2> QED BY <1>2, <1>4, <2>1, <2>3, <2>4 DEF MemoryOK
<1>6. s \in Seq(Value)
  <2>1. PICK n \in 0 .. 2 : s \in [1 .. n -> Value]
    BY DEF Arguments
  <2> QED BY <2>1
<1>7. s \in Seq(Value') /\ Len(s) \in Nat
  BY <1>4, <1>6
<1>8. ControlOK'
  <2>1. a # NIL
    BY <1>2, ArrayNames
  <2> QED BY <1>1, <1>4, <1>7, <2>1 DEF ControlOK
<1>9. Filling'
  BY <1>1, <1>4, <1>7 DEF Filling
<1>10. ArraysInv'
  BY <1>1, <1>5, <1>8, <1>9 DEF ArraysInv
<1>11. Visible = Made /\ Visible' = Made /\ self = NIL /\ \A x \in Made : x # NIL
  <2>1. self = NIL
    BY <1>1 DEF ArraysInv, ControlOK
  <2>2. \A x \in Made : x # NIL
    BY <1>2, ArrayNames
  <2> QED BY <1>1, <1>2, <1>4, <2>1, <2>2 DEF Visible
<1>12. ASSUME NEW x \in Visible
       PROVE  count'[x] = count[x] /\ \A n \in 1 .. count[x] : ElementAt(x, n)' = ElementAt(x, n)
  BY <1>1, <1>4, <1>11 DEF ElementAt
<1>13. Seen' = Seen
  BY <1>10, <1>11, <1>12, SeenKept
<1> QED BY <1>1, <1>10, <1>13 DEF Refines

LEMMA NewElementStep ==
  ASSUME ArraysInv, new_array_element
  PROVE  Refines
<1> DEFINE v == args[Len(args) - i + 1]
           c == count[self]
<1>1. /\ pc = "new" /\ i > 0 /\ write_valp_value_array(self, v) /\ i' = i - 1
      /\ UNCHANGED <<pc, self, args, work, result>>
  BY DEF new_array_element
<1>2. /\ MemoryOK /\ ControlOK /\ self \in Made /\ args \in Seq(Value) /\ i \in 0 .. Len(args)
      /\ c + i = Len(args) /\ c \in Nat /\ Len(args) \in Nat
      /\ \A n \in 1 .. c : values[self][n] = args[n]
  <2>1. MemoryOK /\ ControlOK /\ Filling
    BY <1>1 DEF ArraysInv
  <2>2. self \in Made /\ args \in Seq(Value)
    BY <1>1, <2>1 DEF ControlOK
  <2>3. c \in Nat
    BY <2>1, <2>2, MemoryIs
  <2> QED BY <2>1, <2>2, <2>3 DEF Filling
<1>3. v = args[c + 1] /\ v \in Value
  <2>1. Len(args) - i + 1 = c + 1 /\ c + 1 \in 1 .. Len(args)
    BY <1>1, <1>2
  <2> QED BY <1>2, <2>1
<1> HIDE DEF v
<1>4. Stored(self, v)
  BY <1>1, <1>2, <1>3, WriteIs
<1>5. ControlOK'
  BY <1>1, <1>2, <1>4 DEF ControlOK, Stored
<1>6. Filling'
  <2>1. count'[self] = c + 1 /\ values'[self][c + 1] = args[c + 1]
        /\ \A n \in 1 .. c : values'[self][n] = args[n]
    BY <1>2, <1>3, <1>4 DEF Stored
  <2>2. i - 1 \in 0 .. Len(args) /\ (c + 1) + (i - 1) = Len(args)
        /\ \A n \in 1 .. c + 1 : n \in 1 .. c \/ n = c + 1
    BY <1>1, <1>2
  <2> HIDE DEF c
  <2> QED BY <1>1, <2>1, <2>2 DEF Filling
<1>7. ArraysInv'
  BY <1>1, <1>4, <1>5, <1>6 DEF ArraysInv, Stored
<1>8. Visible = Made \ {self} /\ Visible' = Made \ {self}
  BY <1>1, <1>4 DEF Visible, Stored
<1>9. ASSUME NEW x \in Visible
      PROVE  count'[x] = count[x] /\ \A n \in 1 .. count[x] : ElementAt(x, n)' = ElementAt(x, n)
  BY <1>1, <1>4, <1>8 DEF ElementAt, Stored
<1>10. Seen' = Seen
  BY <1>7, <1>8, <1>9, SeenKept
<1> QED BY <1>1, <1>7, <1>10 DEF Refines

(* A step after which nothing runs.                                        *)
LEMMA DoneIs ==
  ASSUME NEW m, NEW s, NEW v, Done(m, s, v), MemoryOK', Made' = Made
  PROVE  /\ ArraysInv' /\ Visible' = Made
         /\ \A x \in Made : \A n : ElementAt(x, n)' = values'[x][n]
         /\ result' = [call |-> m, of |-> self, args |-> s, value |-> v]
<1>1. /\ pc' = "idle" /\ self' = NIL /\ i' = 0 /\ args' = <<>>
      /\ result' = [call |-> m, of |-> self, args |-> s, value |-> v]
  BY DEF Done, Returns
<1>2. <<>> \in Seq(Value')
  OBVIOUS
<1>3. ControlOK'
  BY <1>1, <1>2 DEF ControlOK
<1> QED BY <1>1, <1>3 DEF ArraysInv, Visible, ElementAt

LEMMA NewDoneStep ==
  ASSUME ArraysInv, new_array_done
  PROVE  Refines
<1>1. pc = "new" /\ i = 0 /\ Done("new", args, self) /\ UNCHANGED <<values, count>>
  BY DEF new_array_done
<1>2. /\ MemoryOK /\ self \in Made /\ args \in Seq(Value) /\ self \in Array
      /\ count[self] = Len(args) /\ \A n \in 1 .. Len(args) : values[self][n] = args[n]
  <2>1. MemoryOK /\ ControlOK /\ Filling
    BY <1>1 DEF ArraysInv
  <2>2. self \in Made /\ args \in Seq(Value)
    BY <1>1, <2>1 DEF ControlOK
  <2>3. count[self] \in Nat /\ self \in Array
    BY <2>1, <2>2, MemoryIs
  <2>4. count[self] = Len(args)
    BY <1>1, <2>1, <2>3 DEF Filling
  <2> QED BY <2>1, <2>2, <2>3, <2>4 DEF Filling
<1>3. MemoryOK' /\ Made' = Made
  BY <1>1, <1>2 DEF MemoryOK, Made, Value
<1>4. /\ ArraysInv' /\ Visible' = Made
      /\ \A x \in Made : \A n : ElementAt(x, n)' = values'[x][n]
      /\ result' = [call |-> "new", of |-> self, args |-> args, value |-> self]
  BY <1>1, <1>3, DoneIs
<1>5. Visible = Made \ {self} /\ DOMAIN Seen = Made \ {self}
  BY <1>1 DEF Visible, Seen
<1>6. Seen' = [x \in Made |-> IF x = self THEN args ELSE Seen[x]]
  <2>1. Seen' = [x \in Made |-> [n \in 1 .. count'[x] |-> ElementAt(x, n)']]
    BY <1>4, SeenIsNext
  <2>2. Seen = [x \in Made \ {self} |-> [n \in 1 .. count[x] |-> ElementAt(x, n)]]
    BY <1>5, SeenIs DEF Spelled
  <2>3. ASSUME NEW x \in Made, x # self
        PROVE  [n \in 1 .. count'[x] |-> ElementAt(x, n)'] = Seen[x]
    <3>1. \A n : ElementAt(x, n) = values[x][n]
      BY <2>3 DEF ElementAt
    <3>2. Seen[x] = [n \in 1 .. count[x] |-> ElementAt(x, n)]
      BY <2>2, <2>3
    <3> QED BY <1>1, <1>4, <3>1, <3>2
  <2>4. ASSUME NEW x \in Made, x = self
        PROVE  [n \in 1 .. count'[x] |-> ElementAt(x, n)'] = args
    <3>1. args = [n \in 1 .. Len(args) |-> args[n]]
      BY <1>2, AsFunction
    <3>2. count'[x] = Len(args)
      BY <1>1, <1>2, <2>4
    <3>3. ASSUME NEW n \in 1 .. Len(args) PROVE ElementAt(x, n)' = args[n]
      <4>1. ElementAt(x, n)' = values'[x][n]
        BY <1>4
      <4> QED BY <1>1, <1>2, <2>4, <4>1
    <3> QED BY <3>1, <3>2, <3>3
  <2> QED BY <2>1, <2>3, <2>4
<1>7. (Made \ {self}) \cup {self} = Made
  BY <1>2
<1>8. self \in Array \ L!Made /\ L!Made = DOMAIN Seen
  BY <1>2, <1>5 DEF L!Made, Seen
<1>9. Seen' = [x \in L!Made \cup {self} |-> IF x = self THEN args ELSE Seen[x]]
  BY <1>5, <1>6, <1>7, <1>8
<1>10. result'.args = args
  BY <1>4
<1>11. L!New(self, args)
  BY <1>4, <1>8, <1>9 DEF L!New, L!Returns, Seen
<1>12. L!New(self, result'.args)
  BY <1>10, <1>11
<1>13. L!Next
  BY <1>8, <1>12 DEF L!Next
<1> QED BY <1>4, <1>13 DEF Refines
-----------------------------------------------------------------------------
(* array_insert.                                                           *)
LEMMA InsertStep ==
  ASSUME ArraysInv, NEW a \in Made, NEW v \in Value, array_insert(a, v)
  PROVE  Refines
<1> DEFINE t == Grown(a)
           c == count[a]
<1>1. /\ pc = "idle" /\ values' = [values EXCEPT ![a] = t]
      /\ pc' = "insert" /\ self' = a /\ args' = <<v>> /\ i' = c - 1
      /\ UNCHANGED <<count, work, result>>
  BY DEF array_insert
<1>2. /\ MemoryOK /\ Roomy(t, a) /\ c \in Nat /\ c <= Len(values[a]) /\ Len(values[a]) \in Nat /\ a # NIL
      /\ \A n \in 1 .. c : n \in 1 .. Len(values[a]) /\ values[a][n] \in Value
  BY GrownIs, MemoryIs DEF ArraysInv
<1> HIDE DEF t
<1>3. /\ t \in Seq(Value \cup {JUNK}) /\ Len(t) \in Nat /\ c + 1 <= Len(t)
      /\ \A n \in 1 .. c : t[n] = values[a][n] /\ t[n] # JUNK
  BY <1>2, ArrayNames DEF Roomy
<1>4. DOMAIN count' = Made /\ count'[a] = c /\ \A x \in Made : x # a => count'[x] = count[x]
  BY <1>1, <1>2 DEF MemoryOK
<1> HIDE DEF c
<1>5. c <= Len(t)
  BY <1>2, <1>3
<1>6. Given(a, t, c)
  BY <1>1, <1>2, <1>3, <1>4, <1>5, MemoryGiven
<1>7. ControlOK'
  <2>1. <<v>> \in Seq(Value) /\ c - 1 \in Int
    BY <1>2
  <2> QED BY <1>1, <1>2, <1>6, <2>1 DEF ControlOK, Given
<1>8. Inserting'
  <2>1. Len(<<v>>) = 1 /\ c - 1 \in -1 .. c - 1 /\ c < Len(t) /\ (c - 1) + 3 .. c + 1 = {}
    BY <1>2, <1>3
  <2> QED BY <1>1, <1>6, <2>1 DEF Inserting, Given
<1>9. ArraysInv'
  BY <1>1, <1>6, <1>7, <1>8 DEF ArraysInv, Given
<1>10. Visible = Made /\ Visible' = Made /\ self = NIL
  BY <1>1, <1>6 DEF Visible, Given, ArraysInv, ControlOK
<1>11. ASSUME NEW x \in Visible
       PROVE  count'[x] = count[x] /\ \A n \in 1 .. count[x] : ElementAt(x, n)' = ElementAt(x, n)
  <2>1. x \in Made /\ x # NIL
    BY <1>2, <1>10, MemoryIs
  <2>2. \A n : ElementAt(x, n) = values[x][n]
    BY <1>10, <2>1 DEF ElementAt
  <2>3. CASE x # a
    <3>1. \A n : ElementAt(x, n)' = values'[x][n]
      BY <1>1, <2>3 DEF ElementAt
    <3> QED BY <1>6, <2>1, <2>2, <2>3, <3>1 DEF Given
  <2>4. CASE x = a
    <3>1. ASSUME NEW n \in 1 .. count[x] PROVE ElementAt(x, n)' = ElementAt(x, n)
      <4>1. n <= (c - 1) + 1 /\ n \in 1 .. c
        BY <1>2, <2>4 DEF c
      <4>2. ElementAt(x, n)' = values'[x][n]
        BY <1>1, <2>4, <4>1 DEF ElementAt
      <4> QED BY <1>3, <1>6, <2>2, <2>4, <4>1, <4>2 DEF Given
    <3> QED BY <1>1, <3>1
  <2> QED BY <2>3, <2>4
<1>12. Seen' = Seen
  BY <1>9, <1>10, <1>11, SeenKept
<1> QED BY <1>1, <1>9, <1>12 DEF Refines

One(s) == s = <<s[1]>>

LEMMA OneIs ==
  ASSUME NEW S, NEW s, s \in Seq(S), Len(s) = 1
  PROVE  One(s) /\ s[1] \in S
<1> DEFINE t == <<s[1]>>
<1>1. s[1] \in S
  OBVIOUS
<1>2. t \in Seq(S) /\ Len(t) = 1 /\ t[1] = s[1]
  BY <1>1
<1> HIDE DEF t
<1>3. \A n \in 1 .. Len(s) : s[n] = t[n]
  BY <1>2
<1>4. s = t
  BY <1>2, <1>3, SeqEqual
<1> QED BY <1>1, <1>4 DEF t, One

(* What is known while prepend_valp_value_array runs.                      *)
InsertingAt(a) ==
  /\ a = self /\ MemoryOK /\ args \in Seq(Value) /\ One(args) /\ args[1] \in Value
  /\ i \in -1 .. count[a] - 1 /\ count[a] \in Nat
  /\ Len(values[a]) \in Nat /\ count[a] + 1 <= Len(values[a])
  /\ \A n \in i + 3 .. count[a] + 1 : values[a][n] # JUNK
  /\ \A n \in 1 .. count[a] : values[a][n] \in Value
  /\ Visible = Made /\ DOMAIN count = Made
  /\ a \in Array /\ a \in L!Made /\ L!Made = DOMAIN Seen /\ DOMAIN Seen = Made

LEMMA InsertingIs ==
  ASSUME ArraysInv, pc = "insert"
  PROVE  self \in Made /\ InsertingAt(self)
<1>1. MemoryOK /\ ControlOK /\ Inserting
  BY DEF ArraysInv
<1>2. self \in Made /\ args \in Seq(Value)
  BY <1>1 DEF ControlOK
<1>3. PICK a \in Made : a = self
  BY <1>2
<1>4. count[a] \in Nat /\ Len(values[a]) \in Nat /\ a \in Array /\ \A n \in 1 .. count[a] : values[a][n] \in Value
  BY <1>1, MemoryIs
<1>5. Len(args) = 1 /\ i \in -1 .. count[a] - 1 /\ count[a] < Len(values[a])
      /\ \A n \in i + 3 .. count[a] + 1 : values[a][n] # JUNK
  BY <1>1, <1>3 DEF Inserting
<1>6. count[a] + 1 <= Len(values[a])
  BY <1>4, <1>5
<1>7. One(args) /\ args[1] \in Value
  BY <1>2, <1>5, OneIs
<1>8. Visible = Made /\ DOMAIN Seen = Made /\ DOMAIN count = Made /\ L!Made = DOMAIN Seen
  BY <1>1 DEF Visible, Seen, MemoryOK, L!Made
<1>9. a \in L!Made
  BY <1>8
<1>10. InsertingAt(a)
  BY <1>1, <1>2, <1>3, <1>4, <1>5, <1>6, <1>7, <1>8, <1>9, Zenon DEF InsertingAt
<1> QED BY <1>3, <1>10

LEMMA InsertShiftStep ==
  ASSUME ArraysInv, prepend_shift
  PROVE  Refines
<1>1. /\ pc = "insert" /\ i >= 0 /\ CellSet(self, i + 1, Cell(self, i)) /\ i' = i - 1
      /\ UNCHANGED <<count, pc, self, args, work, result>>
  BY DEF prepend_shift
<1>0. PICK a \in Made : a = self /\ InsertingAt(a)
  BY <1>1, InsertingIs
<1>2. /\ a = self /\ MemoryOK /\ args \in Seq(Value) /\ One(args) /\ args[1] \in Value
      /\ i \in -1 .. count[a] - 1 /\ count[a] \in Nat
      /\ Len(values[a]) \in Nat /\ count[a] + 1 <= Len(values[a])
      /\ \A n \in i + 3 .. count[a] + 1 : values[a][n] # JUNK
      /\ \A n \in 1 .. count[a] : values[a][n] \in Value
      /\ Visible = Made /\ DOMAIN count = Made
  BY <1>0 DEF InsertingAt
<1> DEFINE c == count[a]
           all == values[a]
           v == all[i + 1]
           t == [all EXCEPT ![i + 2] = v]
<1>3. /\ i + 2 \in 1 .. Len(all) /\ v \in Value /\ c \in Nat /\ c <= Len(all)
      /\ i + 1 \in 1 .. c /\ Len(all) \in Nat /\ (i + 1) + 1 = i + 2 /\ c + 1 <= Len(all)
  <2> HIDE DEF all
  <2>1. i + 1 \in 1 .. c
    BY <1>1, <1>2
  <2> QED BY <1>1, <1>2, <2>1 DEF all
<1>4. values' = [values EXCEPT ![a][i + 2] = v]
  BY <1>1, <1>2, <1>3 DEF CellSet, Cell
<1>5. DOMAIN count' = Made /\ count'[a] = c /\ \A x \in Made : x # a => count'[x] = count[x]
  BY <1>1, <1>2
<1>6. \A n \in 1 .. c : all[n] # JUNK
  BY <1>2, ArrayNames
<1> HIDE DEF v, c
<1>7. t = [values[a] EXCEPT ![i + 2] = v] /\ \A n \in 1 .. c : n # i + 2 => values[a][n] # JUNK
  BY <1>6
<1> HIDE DEF t
<1>8. /\ Given(a, t, c) /\ Len(t) = Len(all) /\ t[i + 2] = v
      /\ \A n \in 1 .. Len(all) : n # i + 2 => t[n] = all[n]
  <2> DEFINE m == i + 2
  <2>1. MemoryOK /\ m \in 1 .. Len(values[a]) /\ v \in Value /\ c \in Nat
    BY <1>2, <1>3
  <2>2. ElementsBut(a, m, c)
    BY <1>3, <1>7 DEF ElementsBut
  <2>3. CellWritten(a, m, v) /\ t = CellsBut(a, m, v)
    BY <1>4, <1>7 DEF CellWritten, CellsBut
  <2>4. Counted(a, c)
    BY <1>5 DEF Counted
  <2> HIDE DEF m
  <2>5. Given(a, t, c) /\ Changed(t, a, m, v)
    BY <2>1, <2>2, <2>3, <2>4, CellGiven
  <2> QED BY <2>5 DEF m, Changed
<1>9. i \in Nat /\ i + 1 <= c
  BY <1>1, <1>3, <1>2
<1> HIDE DEF all
<1>10. ControlOK'
  <2>1. i - 1 \in Int
    BY <1>9
  <2>2. ControlOK
    BY DEF ArraysInv
  <2> QED BY <1>1, <1>8, <2>1, <2>2 DEF ControlOK, Given
<1>11. Inserting'
  <2>1. Len(args) = 1 /\ i - 1 \in -1 .. c - 1 /\ c < Len(t)
    <3>1. Len(args) = 1
      BY <1>2 DEF One
    <3>2. i - 1 \in -1 .. c - 1
      BY <1>3, <1>9
    <3>3. c < Len(t)
      BY <1>3, <1>8 DEF all
    <3> QED BY <3>1, <3>2, <3>3
  <2>2. ASSUME NEW n \in (i - 1) + 3 .. c + 1 PROVE t[n] # JUNK
    <3>1. n \in 1 .. Len(all) /\ (n = i + 2 \/ n \in i + 3 .. c + 1)
      BY <1>3, <1>9
    <3>2. n \in i + 3 .. c + 1 => all[n] # JUNK
      BY <1>2 DEF all, c
    <3>3. v # JUNK
      BY <1>2, <1>3, ArrayNames
    <3> QED BY <1>8, <3>1, <3>2, <3>3
  <2> QED BY <1>1, <1>2, <1>8, <2>1, <2>2 DEF Inserting, Given
<1>12. ArraysInv'
  BY <1>1, <1>8, <1>10, <1>11 DEF ArraysInv, Given
<1>13. Visible' = Visible
  BY <1>1, <1>2, <1>8 DEF Visible, Given
<1>14. ASSUME NEW x \in Visible
       PROVE  count'[x] = count[x] /\ \A n \in 1 .. count[x] : ElementAt(x, n)' = ElementAt(x, n)
  <2>1. x \in Made /\ count'[x] = count[x]
    BY <1>1, <1>2
  <2>2. CASE x # a
    <3>1. \A n : ElementAt(x, n)' = values'[x][n] /\ ElementAt(x, n) = values[x][n]
      BY <1>1, <1>2, <2>2 DEF ElementAt
    <3> QED BY <1>8, <2>1, <2>2, <3>1 DEF Given
  <2>3. CASE x = a
    <3>1. ASSUME NEW n \in 1 .. c PROVE ElementAt(x, n)' = ElementAt(x, n)
      <4>1. ElementAt(x, n) = IF n <= i + 1 THEN all[n] ELSE all[n + 1]
        BY <1>1, <1>2, <2>3 DEF ElementAt, all
      <4>2. ElementAt(x, n)' = IF n <= (i - 1) + 1 THEN t[n] ELSE t[n + 1]
        BY <1>1, <1>2, <1>8, <2>3 DEF ElementAt, Given
      <4>3. /\ n \in 1 .. Len(all) /\ n + 1 \in 1 .. Len(all)
            /\ (n <= (i - 1) + 1 /\ n <= i + 1 /\ n # i + 2)
               \/ (~(n <= (i - 1) + 1) /\ n = i + 1 /\ n + 1 = i + 2)
               \/ (~(n <= (i - 1) + 1) /\ ~(n <= i + 1) /\ n + 1 # i + 2)
        BY <1>3, <1>9
      <4>4. CASE n <= (i - 1) + 1 /\ n <= i + 1 /\ n # i + 2
        BY <1>8, <4>1, <4>2, <4>3, <4>4
      <4>5. CASE ~(n <= (i - 1) + 1) /\ n = i + 1 /\ n + 1 = i + 2
        <5>1. n <= i + 1
          BY <1>9, <4>5
        <5>2. ElementAt(x, n) = v /\ ElementAt(x, n)' = t[i + 2]
          BY <4>1, <4>2, <4>5, <5>1 DEF v
        <5> QED BY <1>8, <5>2
      <4>6. CASE ~(n <= (i - 1) + 1) /\ ~(n <= i + 1) /\ n + 1 # i + 2
        BY <1>8, <4>1, <4>2, <4>3, <4>6
      <4> QED BY <4>3, <4>4, <4>5, <4>6
    <3> QED BY <2>1, <2>3, <3>1 DEF c
  <2> QED BY <2>2, <2>3
<1>15. Seen' = Seen
  BY <1>12, <1>13, <1>14, SeenKept
<1> QED BY <1>1, <1>12, <1>15 DEF Refines

(* A list gets a first element.                                            *)
LEMMA FirstIs ==
  ASSUME NEW S, NEW s, s \in Seq(S), NEW v \in S, NEW u, u = <<v>> \o s
  PROVE  /\ u \in Seq(S) /\ Len(u) = Len(s) + 1 /\ u[1] = v
         /\ \A n \in 2 .. Len(s) + 1 : u[n] = s[n - 1]
<1> DEFINE o == <<v>>
<1>1. o \in Seq(S) /\ Len(o) = 1 /\ o[1] = v
  OBVIOUS
<1> HIDE DEF o
<1>2. Joined(o \o s, S, o, s)
  BY <1>1, JoinIs
<1>3. u = o \o s /\ Len(s) \in Nat
  BY DEF o
<1> QED BY <1>1, <1>2, <1>3 DEF Joined

LEMMA InsertDoneStep ==
  ASSUME ArraysInv, prepend_done
  PROVE  Refines
<1>1. /\ pc = "insert" /\ i < 0 /\ CellSet(self, 0, args[1])
      /\ count' = [count EXCEPT ![self] = @ + 1] /\ Done("insert", args, NIL)
  BY DEF prepend_done
<1>0. PICK a \in Made : a = self /\ InsertingAt(a)
  BY <1>1, InsertingIs
<1>2. /\ a = self /\ MemoryOK /\ args \in Seq(Value) /\ One(args) /\ args[1] \in Value
      /\ i \in -1 .. count[a] - 1 /\ count[a] \in Nat
      /\ Len(values[a]) \in Nat /\ count[a] + 1 <= Len(values[a])
      /\ \A n \in i + 3 .. count[a] + 1 : values[a][n] # JUNK
      /\ Visible = Made /\ DOMAIN count = Made
      /\ a \in Array /\ a \in L!Made /\ L!Made = DOMAIN Seen /\ DOMAIN Seen = Made
  BY <1>0 DEF InsertingAt
<1> DEFINE c == count[a]
           all == values[a]
           v == args[1]
           t == CellsBut(a, 1, v)
           u == <<v>> \o Seen[a]
<1>3. /\ i = -1 /\ c \in Nat /\ 1 \in 1 .. Len(all) /\ Len(all) \in Nat /\ c + 1 <= Len(all)
      /\ \A n \in 2 .. c + 1 : all[n] # JUNK /\ n \in 1 .. Len(all)
  <2>1. i = -1
    BY <1>1, <1>2
  <2> HIDE DEF all, c
  <2>2. c \in Nat /\ Len(all) \in Nat /\ c + 1 <= Len(all)
    BY <1>2 DEF c, all
  <2>3. \A n \in 2 .. c + 1 : all[n] # JUNK
    BY <1>2, <2>1 DEF c, all
  <2> QED BY <2>1, <2>2, <2>3
<1>4. CellWritten(a, 1, v)
  BY <1>1, <1>2 DEF CellSet, CellWritten
<1>5. Counted(a, c + 1)
  BY <1>1, <1>2 DEF Counted
<1> HIDE DEF c, all, v
<1>6. ElementsBut(a, 1, c + 1)
  <2>1. \A n \in 1 .. c + 1 : n # 1 => n \in 2 .. c + 1
    BY <1>3
  <2> QED BY <1>3, <2>1 DEF ElementsBut, all
<1>7. v \in Value /\ c + 1 \in Nat /\ 1 \in 1 .. Len(values[a]) /\ MemoryOK
  BY <1>2, <1>3 DEF v, all
<1>8. Given(a, t, c + 1) /\ Changed(t, a, 1, v)
  BY <1>4, <1>5, <1>6, <1>7, CellGiven
<1> HIDE DEF t
<1>9. /\ ArraysInv' /\ Visible' = Made
      /\ \A x \in Made : \A n : ElementAt(x, n)' = values'[x][n]
      /\ result' = [call |-> "insert", of |-> a, args |-> <<v>>, value |-> NIL]
  <2>1. MemoryOK' /\ Made' = Made
    BY <1>8 DEF Given
  <2>2. /\ ArraysInv' /\ Visible' = Made
        /\ \A x \in Made : \A n : ElementAt(x, n)' = values'[x][n]
        /\ result' = [call |-> "insert", of |-> self, args |-> args, value |-> NIL]
    BY <1>1, <2>1, DoneIs
  <2>3. args = <<v>>
    BY <1>2 DEF One, v
  <2> QED BY <1>2, <2>2, <2>3
<1>10. /\ Seen[a] \in Seq(Value) /\ Len(Seen[a]) = c
       /\ \A n \in 1 .. c : Seen[a][n] = all[n + 1]
  <2>1. Seen[a] = [n \in 1 .. c |-> ElementAt(a, n)]
    BY <1>2, SeenIs DEF Spelled, c
  <2>2. ASSUME NEW n \in 1 .. c PROVE ElementAt(a, n) = all[n + 1] /\ all[n + 1] \in Value
    <3>1. ~(n <= i + 1) /\ n + 1 \in 2 .. c + 1
      BY <1>3
    <3>2. ElementAt(a, n) = all[n + 1]
      BY <1>1, <1>2, <3>1 DEF ElementAt, all
    <3>3. all[n + 1] \in Value \cup {JUNK} /\ all[n + 1] # JUNK
      BY <1>2, <1>3, <3>1, MemoryIs DEF all
    <3> QED BY <3>2, <3>3
  <2>3. Seen[a] = [n \in 1 .. c |-> all[n + 1]]
    BY <2>1, <2>2
  <2> DEFINE w == [n \in 1 .. c |-> all[n + 1]]
  <2> HIDE DEF all, c, u
  <2>4. w \in Seq(Value) /\ Len(w) = c /\ \A n \in 1 .. c : w[n] = all[n + 1]
    <3>1. w \in [1 .. c -> Value] /\ c \in Nat
      BY <1>3, <2>2
    <3> QED BY <3>1
  <2> HIDE DEF w
  <2>5. Seen[a] = w
    BY <2>3 DEF w
  <2> QED BY <2>4, <2>5
<1>11. /\ u \in Seq(Value) /\ Len(u) = c + 1 /\ u[1] = v
       /\ \A n \in 2 .. c + 1 : u[n] = Seen[a][n - 1]
  BY <1>7, <1>10, FirstIs
<1> HIDE DEF u
<1>12. u = [n \in 1 .. count'[a] |-> ElementAt(a, n)']
  <2>1. count'[a] = c + 1 /\ values'[a] = t
    BY <1>8 DEF Given
  <2>2. u = [n \in 1 .. c + 1 |-> u[n]]
    BY <1>11, AsFunction
  <2>3. ASSUME NEW n \in 1 .. c + 1 PROVE u[n] = t[n]
    <3>1. CASE n = 1
      BY <1>8, <1>11, <3>1 DEF Changed
    <3>2. CASE n # 1
      <4>1. n \in 2 .. c + 1 /\ n - 1 \in 1 .. c /\ (n - 1) + 1 = n /\ n \in 1 .. Len(all)
        BY <1>3, <3>2
      <4>2. u[n] = all[n]
        BY <1>10, <1>11, <4>1
      <4> QED BY <1>8, <3>2, <4>1, <4>2 DEF Changed, all
    <3> QED BY <3>1, <3>2
  <2>4. \A n : ElementAt(a, n)' = t[n]
    BY <1>9, <2>1
  <2> QED BY <2>1, <2>2, <2>3, <2>4
<1>13. Seen' = [Seen EXCEPT ![a] = u]
  <2>1. ASSUME NEW x \in Visible, x # a
        PROVE  count'[x] = count[x] /\ \A n \in 1 .. count[x] : ElementAt(x, n)' = ElementAt(x, n)
    <3>1. x \in Made
      BY <1>2
    <3>2. \A n : ElementAt(x, n) = values[x][n]
      BY <1>2, <2>1 DEF ElementAt
    <3> QED BY <1>8, <1>9, <2>1, <3>1, <3>2 DEF Given
  <2>2. a \in Visible /\ Visible' = Visible
    BY <1>2, <1>9
  <2> QED BY <1>9, <1>12, <2>1, <2>2, SeenSet
<1>14. L!Insert(a, v)
  BY <1>9, <1>13 DEF L!Insert, L!Sets, L!Returns, Seen, u
<1>15. v \in L!Element
  BY <1>2, <1>7 DEF L!Element, Value
<1>16. L!Next
  BY <1>2, <1>14, <1>15, NextIs
<1> QED BY <1>9, <1>16 DEF Refines
-----------------------------------------------------------------------------
(* array_drop.                                                             *)
LEMMA DropStep ==
  ASSUME ArraysInv, NEW a \in Made, array_drop(a)
  PROVE  Refines
<1>0. pc = "idle"
  BY DEF array_drop, Reads, Idle
<1>1. /\ DOMAIN Seen = Made /\ Seen[a] \in Seq(Value) /\ Len(Seen[a]) = count[a] /\ count[a] \in Nat
      /\ \A n \in 1 .. count[a] : Seen[a][n] = values[a][n] /\ values[a][n] \in Value
      /\ a \in L!Made /\ L!Made = DOMAIN Seen /\ a \in Array /\ a # NIL /\ MemoryOK
  BY <1>0, SeenAt, MemoryIs DEF L!Made, Seen, ArraysInv
<1>2. CASE count[a] = 0
  <2>1. ArraysInv' /\ L!Reads("drop", a, <<>>, NIL)
    BY <1>2, ReadsIs DEF array_drop
  <2>2. Seen[a] = <<>>
    BY <1>1, <1>2
  <2>3. L!Drop(a)
    BY <2>1, <2>2 DEF L!Drop, Seen
  <2> QED BY <1>1, <2>1, <2>3, NextIs DEF Refines
<1>3. CASE count[a] # 0
  <2> DEFINE v == values[a][1]
  <2>1. /\ pc' = "drop" /\ self' = a /\ args' = <<v>> /\ i' = 0
        /\ UNCHANGED <<values, count, work, result>>
    BY <1>3 DEF array_drop, Cell
  <2>2. v \in Value /\ count[a] >= 1
    BY <1>1, <1>3
  <2> HIDE DEF v
  <2>3. MemoryOK' /\ Made' = Made /\ Value' = Value
    BY <1>1, <2>1 DEF MemoryOK, Made, Value
  <2>4. <<v>> \in Seq(Value) /\ Len(<<v>>) = 1 /\ <<v>>[1] = v /\ 0 \in 0 .. count[a] - 1
    BY <1>1, <2>2
  <2>5. ControlOK'
    BY <1>1, <2>1, <2>3, <2>4 DEF ControlOK
  <2>6. Dropping'
    BY <2>1, <2>4 DEF Dropping
  <2>7. ArraysInv'
    BY <2>1, <2>3, <2>5, <2>6 DEF ArraysInv
  <2>8. Visible = Made /\ Visible' = Made /\ self = NIL
    BY <1>0, <2>1, <2>3 DEF Visible, ArraysInv, ControlOK
  <2>9. ASSUME NEW x \in Visible
        PROVE  count'[x] = count[x] /\ \A n \in 1 .. count[x] : ElementAt(x, n)' = ElementAt(x, n)
    <3>1. x \in Made /\ x # NIL
      BY <1>1, <2>8, MemoryIs
    <3>2. \A n : ElementAt(x, n) = values[x][n]
      BY <2>8, <3>1 DEF ElementAt
    <3>3. CASE x # a
      BY <2>1, <3>2, <3>3 DEF ElementAt
    <3>4. CASE x = a
      <4>1. ASSUME NEW n \in 1 .. count[a] PROVE ElementAt(x, n)' = values[a][n]
        <5>1. ElementAt(x, n)' = IF n = 1 THEN v ELSE IF n <= 1 THEN values[a][n - 1] ELSE values[a][n]
          BY <2>1, <2>4, <3>4 DEF ElementAt
        <5>2. n # 1 => ~(n <= 1)
          BY <1>1
        <5> QED BY <5>1, <5>2 DEF v
      <4> QED BY <2>1, <3>2, <3>4, <4>1
    <3> QED BY <3>3, <3>4
  <2>10. Seen' = Seen
    BY <2>7, <2>8, <2>9, SeenKept
  <2> QED BY <2>1, <2>7, <2>10 DEF Refines
<1> QED BY <1>2, <1>3

(* What is known while it runs.                                            *)
DroppingAt(a) ==
  /\ a = self /\ MemoryOK /\ args \in Seq(Value) /\ Len(args) = 1 /\ args[1] \in Value
  /\ i \in 0 .. count[a] - 1 /\ count[a] \in Nat
  /\ Len(values[a]) \in Nat /\ count[a] <= Len(values[a])
  /\ \A n \in 1 .. count[a] : values[a][n] \in Value
  /\ Visible = Made /\ DOMAIN count = Made
  /\ a \in Array /\ a \in L!Made /\ L!Made = DOMAIN Seen /\ DOMAIN Seen = Made

LEMMA DroppingIs ==
  ASSUME ArraysInv, pc = "drop"
  PROVE  self \in Made /\ DroppingAt(self)
<1>1. MemoryOK /\ ControlOK /\ Dropping
  BY DEF ArraysInv
<1>2. self \in Made /\ args \in Seq(Value)
  BY <1>1 DEF ControlOK
<1>3. PICK a \in Made : a = self
  BY <1>2
<1>4. /\ count[a] \in Nat /\ Len(values[a]) \in Nat /\ count[a] <= Len(values[a]) /\ a \in Array
      /\ \A n \in 1 .. count[a] : values[a][n] \in Value
  BY <1>1, MemoryIs
<1>5. Len(args) = 1 /\ i \in 0 .. count[a] - 1
  BY <1>1, <1>3 DEF Dropping
<1>6. args[1] \in Value
  BY <1>2, <1>5, OneIs
<1>7. Visible = Made /\ DOMAIN Seen = Made /\ DOMAIN count = Made /\ L!Made = DOMAIN Seen
  BY <1>1 DEF Visible, Seen, MemoryOK, L!Made
<1>8. a \in L!Made
  BY <1>7
<1>9. DroppingAt(a)
  BY <1>1, <1>2, <1>3, <1>4, <1>5, <1>6, <1>7, <1>8, Zenon DEF DroppingAt
<1> QED BY <1>3, <1>9

LEMMA DropShiftStep ==
  ASSUME ArraysInv, drop_shift
  PROVE  Refines
<1>1. /\ pc = "drop" /\ i < count[self] - 1 /\ CellSet(self, i, Cell(self, i + 1)) /\ i' = i + 1
      /\ UNCHANGED <<count, pc, self, args, work, result>>
  BY DEF drop_shift
<1>0. PICK a \in Made : a = self /\ DroppingAt(a)
  BY <1>1, DroppingIs
<1>2. /\ a = self /\ MemoryOK /\ args \in Seq(Value) /\ Len(args) = 1 /\ args[1] \in Value
      /\ i \in 0 .. count[a] - 1 /\ count[a] \in Nat
      /\ Len(values[a]) \in Nat /\ count[a] <= Len(values[a])
      /\ \A n \in 1 .. count[a] : values[a][n] \in Value
      /\ Visible = Made /\ DOMAIN count = Made
  BY <1>0 DEF DroppingAt
<1> DEFINE c == count[a]
           all == values[a]
           v == all[i + 2]
           m == i + 1
           t == CellsBut(a, m, v)
<1>3. /\ i \in Nat /\ i + 2 \in 1 .. c /\ i + 1 \in 1 .. c /\ c \in Nat /\ Len(all) \in Nat /\ c <= Len(all)
      /\ (i + 1) + 1 = i + 2 /\ i < c - 1
  <2>1. i < c - 1
    BY <1>1, <1>2
  <2> HIDE DEF all, c
  <2>2. i \in Nat /\ c \in Nat /\ Len(all) \in Nat /\ c <= Len(all)
    BY <1>2 DEF c, all
  <2> QED BY <2>1, <2>2
<1>4. CellWritten(a, m, v)
  <2>1. CellSet(a, i, Cell(a, i + 1))
    BY <1>1, <1>2
  <2>2. Cell(a, i + 1) = v
    BY <1>3 DEF Cell
  <2> HIDE DEF v
  <2> QED BY <2>1, <2>2 DEF CellSet, CellWritten
<1>5. Counted(a, c)
  BY <1>1, <1>2 DEF Counted
<1>6. ElementsBut(a, m, c)
  BY <1>2, ArrayNames DEF ElementsBut
<1>7. v \in Value
  BY <1>2, <1>3
<1>8. m \in 1 .. Len(values[a])
  <2> HIDE DEF all, c
  <2> QED BY <1>3 DEF all
<1> HIDE DEF all, c, v, m
<1>9. Given(a, t, c) /\ Changed(t, a, m, v)
  BY <1>2, <1>3, <1>4, <1>5, <1>6, <1>7, <1>8, CellGiven
<1> HIDE DEF t
<1>10. ControlOK'
  <2>1. i + 1 \in Int
    BY <1>3
  <2>2. ControlOK
    BY DEF ArraysInv
  <2> QED BY <1>1, <1>9, <2>1, <2>2 DEF ControlOK, Given
<1>11. Dropping'
  <2>1. i + 1 \in 0 .. c - 1
    BY <1>3
  <2> QED BY <1>1, <1>2, <1>9, <2>1 DEF Dropping, Given
<1>12. ArraysInv'
  BY <1>1, <1>9, <1>10, <1>11 DEF ArraysInv, Given
<1>13. Visible' = Visible
  BY <1>1, <1>2, <1>9 DEF Visible, Given
<1>14. ASSUME NEW x \in Visible
       PROVE  count'[x] = count[x] /\ \A n \in 1 .. count[x] : ElementAt(x, n)' = ElementAt(x, n)
  <2>1. x \in Made /\ count'[x] = count[x]
    BY <1>1, <1>2
  <2>2. CASE x # a
    <3>1. \A n : ElementAt(x, n)' = values'[x][n] /\ ElementAt(x, n) = values[x][n]
      BY <1>1, <1>2, <2>2 DEF ElementAt
    <3> QED BY <1>9, <2>1, <2>2, <3>1 DEF Given
  <2>3. CASE x = a
    <3>1. ASSUME NEW n \in 1 .. c PROVE ElementAt(x, n)' = ElementAt(x, n)
      <4>1. ElementAt(x, n) = IF n = 1 THEN args[1] ELSE IF n <= i + 1 THEN all[n - 1] ELSE all[n]
        BY <1>1, <1>2, <2>3 DEF ElementAt, all
      <4>2. ElementAt(x, n)' = IF n = 1 THEN args[1] ELSE IF n <= (i + 1) + 1 THEN t[n - 1] ELSE t[n]
        BY <1>1, <1>2, <1>9, <2>3 DEF ElementAt, Given
      <4>3. /\ n \in 1 .. Len(all) /\ (n # 1 => n - 1 \in 1 .. Len(all)) /\ m = i + 1
            /\ \/ n = 1
               \/ (n # 1 /\ n <= i + 1 /\ n <= (i + 1) + 1 /\ n - 1 # i + 1)
               \/ (n # 1 /\ ~(n <= i + 1) /\ n <= (i + 1) + 1 /\ n = i + 2 /\ n - 1 = i + 1)
               \/ (n # 1 /\ ~(n <= i + 1) /\ ~(n <= (i + 1) + 1) /\ n # i + 1)
        BY <1>3 DEF m
      <4>4. t[m] = v /\ \A k \in 1 .. Len(all) : k # m => t[k] = all[k]
        BY <1>9 DEF Changed, all
      <4>5. CASE n = 1
        BY <4>1, <4>2, <4>5
      <4>6. CASE n # 1 /\ n <= i + 1 /\ n <= (i + 1) + 1 /\ n - 1 # i + 1
        BY <4>1, <4>2, <4>3, <4>4, <4>6
      <4>7. CASE n # 1 /\ ~(n <= i + 1) /\ n <= (i + 1) + 1 /\ n = i + 2 /\ n - 1 = i + 1
        <5>1. ElementAt(x, n)' = t[n - 1] /\ n - 1 = m
          BY <4>2, <4>3, <4>7
        <5>2. ElementAt(x, n) = all[n]
          BY <4>1, <4>7
        <5>3. all[n] = v
          BY <4>7 DEF v
        <5> QED BY <4>4, <5>1, <5>2, <5>3
      <4>8. CASE n # 1 /\ ~(n <= i + 1) /\ ~(n <= (i + 1) + 1) /\ n # i + 1
        BY <4>1, <4>2, <4>3, <4>4, <4>8
      <4> QED BY <4>3, <4>5, <4>6, <4>7, <4>8
    <3> QED BY <2>1, <2>3, <3>1 DEF c
  <2> QED BY <2>2, <2>3
<1>15. Seen' = Seen
  BY <1>12, <1>13, <1>14, SeenKept
<1> QED BY <1>1, <1>12, <1>15 DEF Refines

LEMMA DropDoneStep ==
  ASSUME ArraysInv, drop_done
  PROVE  Refines
<1>1. /\ pc = "drop" /\ i >= count[self] - 1
      /\ count' = [count EXCEPT ![self] = @ - 1] /\ Done("drop", <<>>, args[1]) /\ values' = values
  BY DEF drop_done
<1>0. PICK a \in Made : a = self /\ DroppingAt(a)
  BY <1>1, DroppingIs
<1>2. /\ a = self /\ MemoryOK /\ args \in Seq(Value) /\ Len(args) = 1 /\ args[1] \in Value
      /\ i \in 0 .. count[a] - 1 /\ count[a] \in Nat
      /\ Len(values[a]) \in Nat /\ count[a] <= Len(values[a])
      /\ \A n \in 1 .. count[a] : values[a][n] \in Value
      /\ Visible = Made /\ DOMAIN count = Made
      /\ a \in Array /\ a \in L!Made /\ L!Made = DOMAIN Seen /\ DOMAIN Seen = Made
  BY <1>0 DEF DroppingAt
<1> DEFINE c == count[a] - 1
           all == values[a]
           first == args[1]
           u == Tail(Seen[a])
<1>3. /\ c \in Nat /\ count[a] = c + 1 /\ i = c /\ Len(all) \in Nat /\ c <= Len(all)
      /\ \A n \in 1 .. c : n \in 1 .. count[a]
  <2> HIDE DEF all
  <2>1. i = c /\ c \in Nat /\ count[a] = c + 1
    BY <1>1, <1>2
  <2>2. Len(all) \in Nat /\ count[a] <= Len(all)
    BY <1>2 DEF all
  <2> HIDE DEF c
  <2> QED BY <2>1, <2>2
<1> HIDE DEF c
<1>4. Given(a, all, c)
  <2>1. values' = [values EXCEPT ![a] = all]
    <3>1. values \in [Made -> Seq(Value \cup {JUNK})]
      BY <1>2 DEF MemoryOK
    <3> QED BY <1>1, <3>1
  <2>2. DOMAIN count' = Made /\ count'[a] = c /\ \A x \in Made : x # a => count'[x] = count[x]
    BY <1>1, <1>2 DEF c
  <2>3. all \in Seq(Value \cup {JUNK})
    BY <1>2, MemoryIs
  <2>4. \A n \in 1 .. c : all[n] # JUNK
    BY <1>2, <1>3, ArrayNames
  <2> HIDE DEF all
  <2> QED BY <1>2, <1>3, <2>1, <2>2, <2>3, <2>4, MemoryGiven
<1>5. /\ ArraysInv' /\ Visible' = Made
      /\ \A x \in Made : \A n : ElementAt(x, n)' = values'[x][n]
      /\ result' = [call |-> "drop", of |-> a, args |-> <<>>, value |-> first]
  <2>1. MemoryOK' /\ Made' = Made
    BY <1>4 DEF Given
  <2> QED BY <1>1, <1>2, <2>1, DoneIs
<1>6. /\ Seen[a] \in Seq(Value) /\ Len(Seen[a]) = c + 1 /\ Seen[a][1] = first
      /\ \A n \in 1 .. c : Seen[a][n + 1] = all[n]
  <2>1. Seen[a] = [n \in 1 .. c + 1 |-> ElementAt(a, n)]
    BY <1>2, <1>3, SeenIs DEF Spelled
  <2>2. ASSUME NEW n \in 1 .. c + 1 PROVE ElementAt(a, n) = IF n = 1 THEN first ELSE all[n - 1]
    <3>1. n <= i + 1
      BY <1>3
    <3> QED BY <1>1, <1>2, <3>1 DEF ElementAt
  <2>3. ASSUME NEW n \in 1 .. c + 1, n # 1 PROVE all[n - 1] \in Value
    <3>1. n - 1 \in 1 .. count[a]
      BY <1>3, <2>3
    <3> QED BY <1>2, <3>1
  <2> HIDE DEF all, u, first
  <2> DEFINE w == [n \in 1 .. c + 1 |-> IF n = 1 THEN first ELSE all[n - 1]]
  <2>4. Seen[a] = w
    BY <2>1, <2>2
  <2>5. w \in Seq(Value) /\ Len(w) = c + 1
    <3>1. first \in Value
      BY <1>2 DEF first
    <3>2. w \in [1 .. c + 1 -> Value] /\ c + 1 \in Nat
      BY <1>3, <2>3, <3>1
    <3> QED BY <3>2
  <2>6. w[1] = first /\ \A n \in 1 .. c : w[n + 1] = all[n]
    <3>1. 1 \in 1 .. c + 1 /\ \A n \in 1 .. c : n + 1 \in 1 .. c + 1 /\ n + 1 # 1 /\ (n + 1) - 1 = n
      BY <1>3
    <3> QED BY <3>1
  <2> HIDE DEF w
  <2> QED BY <2>4, <2>5, <2>6
<1>7. Seen[a] # <<>> /\ Head(Seen[a]) = first
  <2> HIDE DEF u, first
  <2>1. Seen[a] # <<>>
    BY <1>3, <1>6
  <2> QED BY <1>6, <2>1
<1>8. u \in Seq(Value) /\ Len(u) = c /\ \A n \in 1 .. c : u[n] = Seen[a][n + 1]
  <2>1. /\ u \in Seq(Value) /\ Len(u) = Len(Seen[a]) - 1
        /\ \A n \in 1 .. Len(u) : u[n] = Seen[a][n + 1]
    BY <1>6, <1>7, HeadTailProperties
  <2> HIDE DEF u
  <2> QED BY <1>3, <1>6, <2>1
<1> HIDE DEF u
<1>9. u = [n \in 1 .. count'[a] |-> ElementAt(a, n)']
  <2>1. count'[a] = c /\ values'[a] = all
    BY <1>4 DEF Given
  <2>2. u = [n \in 1 .. c |-> u[n]]
    BY <1>8, AsFunction
  <2>3. \A n \in 1 .. c : u[n] = all[n]
    BY <1>6, <1>8
  <2>4. \A n : ElementAt(a, n)' = all[n]
    BY <1>5, <2>1
  <2> QED BY <2>1, <2>2, <2>3, <2>4
<1>10. Seen' = [Seen EXCEPT ![a] = u]
  <2>1. ASSUME NEW x \in Visible, x # a
        PROVE  count'[x] = count[x] /\ \A n \in 1 .. count[x] : ElementAt(x, n)' = ElementAt(x, n)
    <3>1. x \in Made
      BY <1>2
    <3>2. \A n : ElementAt(x, n) = values[x][n]
      BY <1>2, <2>1 DEF ElementAt
    <3> QED BY <1>4, <1>5, <2>1, <3>1, <3>2 DEF Given
  <2>2. a \in Visible /\ Visible' = Visible
    BY <1>2, <1>5
  <2> QED BY <1>5, <1>9, <2>1, <2>2, SeenSet
<1>11. L!Drop(a)
  BY <1>5, <1>7, <1>10 DEF L!Drop, L!Sets, L!Returns, Seen, u
<1>12. L!Next
  BY <1>2, <1>11, NextIs
<1> QED BY <1>5, <1>12 DEF Refines
-----------------------------------------------------------------------------
(* values_equal.                                                           *)
Compares == [left : Made, right : Made, i : Nat]

StackOK(u) ==
  /\ u \in Seq(Compares) /\ Len(u) > 0
  /\ u[1].left = self /\ u[1].right = args[1]
  /\ \A w \in 1 .. Len(u) : Compared(u[w]) /\ Needed(u[w])
  /\ \A w \in 1 .. Len(u) - 1 : Called(u[w], u[w + 1])

LEMMA ComparingSeen ==
  ASSUME pc \in {"idle", "equal"}, pc' \in {"idle", "equal"}, UNCHANGED <<values, count>>
  PROVE  Seen' = Seen
BY DEF Seen, Contents, Made

(* Two arrays are the same if their elements are, one by one.              *)
LEMMA SameMeans ==
  ASSUME ArraysInv, pc \in {"idle", "equal"}, NEW l \in Made, NEW r \in Made
  PROVE  <<l, r>> \in SameOf(Seen) <=>
           /\ count[l] = count[r]
           /\ \A n \in 1 .. count[l] : Match(values[l][n], values[r][n], SameOf(Seen))
<1> DEFINE R == SameOf(Seen)
           s == Seen[l]
           t == Seen[r]
<1>1. /\ DOMAIN Seen = Made /\ s \in Seq(Value) /\ Len(s) = count[l] /\ count[l] \in Nat
      /\ \A n \in 1 .. count[l] : s[n] = values[l][n]
  BY SeenAt
<1>2. /\ t \in Seq(Value) /\ Len(t) = count[r] /\ count[r] \in Nat
      /\ \A n \in 1 .. count[r] : t[n] = values[r][n]
  BY SeenAt
<1>3. R = Alike(Seen, R)
  BY <1>1, SameFixed DEF ArraysInv, MemoryOK
<1> HIDE DEF R
<1>4. <<l, r>> \in R <=>
        /\ Len(s) = Len(t)
        /\ \A n \in DOMAIN s : IF s[n] \in Array /\ t[n] \in Array THEN <<s[n], t[n]>> \in R ELSE s[n] = t[n]
  <2> DEFINE q == <<l, r>>
  <2>1. q[1] = l /\ q[2] = r /\ q \in (DOMAIN Seen) \X (DOMAIN Seen)
    BY <1>1
  <2> HIDE DEF q
  <2>2. q \in R <=> q \in Alike(Seen, R)
    BY <1>3
  <2>3. q \in Alike(Seen, R) <=>
          /\ Len(Seen[q[1]]) = Len(Seen[q[2]])
          /\ \A n \in DOMAIN Seen[q[1]] :
               IF Seen[q[1]][n] \in Array /\ Seen[q[2]][n] \in Array
               THEN <<Seen[q[1]][n], Seen[q[2]][n]>> \in R
               ELSE Seen[q[1]][n] = Seen[q[2]][n]
    BY <2>1 DEF Alike
  <2>4. q \in R <=>
          /\ Len(s) = Len(t)
          /\ \A n \in DOMAIN s : IF s[n] \in Array /\ t[n] \in Array THEN <<s[n], t[n]>> \in R ELSE s[n] = t[n]
    BY <2>1, <2>2, <2>3, Zenon
  <2> QED BY <2>4 DEF q
<1> HIDE DEF s, t
<1>5. DOMAIN s = 1 .. count[l]
  BY <1>1
<1>6. count[l] = count[r] =>
        \A n \in 1 .. count[l] : s[n] = values[l][n] /\ t[n] = values[r][n]
  BY <1>1, <1>2
<1> QED BY <1>1, <1>2, <1>4, <1>5, <1>6 DEF Match, R

LEMMA CompareOn ==
  ASSUME ArraysInv, pc \in {"idle", "equal"}, pc' = "equal", UNCHANGED <<values, count, result>>,
         ControlOK', NEW u, work' = u, NEW a \in Made, NEW b \in Made, self' = a, args' = <<b>>,
         u \in Seq(Compares), Len(u) > 0, u[1].left = a, u[1].right = b,
         \A w \in 1 .. Len(u) :
           /\ Compared(u[w])
           /\ (<<a, b>> \in SameOf(Seen) => <<u[w].left, u[w].right>> \in SameOf(Seen)),
         \A w \in 1 .. Len(u) - 1 : Called(u[w], u[w + 1])
  PROVE  Refines
<1>1. Seen' = Seen
  BY ComparingSeen
<1>2. Made' = Made /\ Value' = Value
  BY DEF Made, Value
<1>3. MemoryOK'
  BY <1>2 DEF ArraysInv, MemoryOK
<1>4. Len(<<b>>) = 1 /\ <<b>>[1] = b
  OBVIOUS
<1>5. Comparing'
  <2>1. ASSUME NEW w \in 1 .. Len(u) PROVE (Compared(work[w]) /\ Needed(work[w]))'
    <3>1. Compared(u[w])'
      BY <1>1 DEF Compared
    <3>2. Compared(work[w])'
      BY <3>1
    <3>3. <<a, b>> \in SameOf(Seen) => <<u[w].left, u[w].right>> \in SameOf(Seen)
      OBVIOUS
    <3>4. Needed(work[w])'
      BY <1>1, <1>4, <3>3 DEF Needed
    <3> QED BY <3>2, <3>4
  <2>2. ASSUME NEW w \in 1 .. Len(u) - 1 PROVE Called(work[w], work[w + 1])'
    BY DEF Called, Cell
  <2>3. work' \in Seq(Compares) /\ Len(work') > 0 /\ work'[1].left = self' /\ work'[1].right = args'[1]
        /\ Len(args') = 1 /\ args'[1] \in Made'
    BY <1>2, <1>4
  <2>4. Compares = [left : Made', right : Made', i : Nat]
    BY <1>2 DEF Compares
  <2> QED BY <2>1, <2>2, <2>3, <2>4 DEF Comparing
<1>6. ArraysInv'
  BY <1>3, <1>5 DEF ArraysInv
<1> QED BY <1>1, <1>6 DEF Refines

LEMMA EqualStart ==
  ASSUME ArraysInv, NEW a \in Made, NEW b \in Made, values_equal(a, b)
  PROVE  Refines
<1> DEFINE e == Comparison(a, b)
           u == <<e>>
<1>1. /\ pc = "idle" /\ pc' = "equal" /\ self' = a /\ args' = <<b>> /\ work' = u
      /\ UNCHANGED <<values, count, i, result>>
  BY DEF values_equal
<1>2. e \in Compares /\ e.left = a /\ e.right = b /\ e.i = 0
  BY DEF Comparison, Compares
<1>3. a # NIL /\ count[a] \in Nat /\ count[b] \in Nat /\ MemoryOK /\ ControlOK
  BY MemoryIs DEF ArraysInv
<1>4. ControlOK'
  <2>1. <<b>> \in Seq(Value)
    BY DEF Value
  <2> QED BY <1>1, <1>3, <2>1 DEF ControlOK, Made, Value
<1> HIDE DEF e
<1>5. u \in Seq(Compares) /\ Len(u) = 1 /\ u[1] = e
  BY <1>2
<1> HIDE DEF u
<1>6. Compared(e)
  BY <1>2, <1>3 DEF Compared
<1>7. \A w \in 1 .. Len(u) :
           /\ Compared(u[w])
           /\ (<<a, b>> \in SameOf(Seen) => <<u[w].left, u[w].right>> \in SameOf(Seen))
  <2>1. \A w \in 1 .. Len(u) : u[w] = e
    BY <1>5
  <2> QED BY <1>2, <1>6, <2>1
<1>8. \A w \in 1 .. Len(u) - 1 : Called(u[w], u[w + 1])
  BY <1>5
<1>9. Len(u) > 0 /\ u[1].left = a /\ u[1].right = b
  BY <1>2, <1>5
<1> QED BY <1>1, <1>4, <1>5, <1>7, <1>8, <1>9, CompareOn

(* What is known while array_equal runs.                                   *)
ComparingAt(a, b, c) ==
  /\ a = self /\ args = <<b>> /\ args[1] = b /\ MemoryOK /\ ControlOK /\ a \in Made /\ b \in Made
  /\ work \in Seq(Compares) /\ Len(work) \in Nat /\ Len(work) > 0 /\ StackOK(work)
  /\ c = Top /\ c \in Compares /\ c.left \in Made /\ c.right \in Made /\ c.i \in Nat
  /\ Compared(c) /\ (<<a, b>> \in SameOf(Seen) => <<c.left, c.right>> \in SameOf(Seen))
  /\ count[c.left] \in Nat /\ count[c.right] \in Nat
  /\ \A n \in 1 .. count[c.left] : values[c.left][n] \in Value
  /\ \A n \in 1 .. count[c.right] : values[c.right][n] \in Value
  /\ a \in Array /\ a \in L!Made /\ b \in L!Made /\ L!Made = DOMAIN Seen /\ DOMAIN Seen = Made

LEMMA ComparingIs ==
  ASSUME ArraysInv, pc = "equal"
  PROVE  \E a, b, c : ComparingAt(a, b, c)
<1>1. MemoryOK /\ ControlOK /\ Comparing
  BY DEF ArraysInv
<1>2. self \in Made /\ args \in Seq(Value) /\ Len(args) = 1 /\ args[1] \in Made
  BY <1>1 DEF ControlOK, Comparing
<1>3. args = <<args[1]>>
  BY <1>2, OneIs DEF One
<1>4. PICK a \in Made, b \in Made : a = self /\ args = <<b>> /\ args[1] = b
  BY <1>2, <1>3
<1>5. StackOK(work)
  BY <1>1 DEF StackOK, Comparing, Compares
<1>6. work \in Seq(Compares) /\ Len(work) \in Nat /\ Len(work) > 0
  BY <1>5 DEF StackOK
<1>7. PICK c \in Compares : c = Top
  <2>1. Len(work) \in 1 .. Len(work)
    BY <1>6
  <2>2. work[Len(work)] \in Compares
    BY <1>6, <2>1
  <2> QED BY <2>2 DEF Top
<1>8. c.left \in Made /\ c.right \in Made /\ c.i \in Nat
  BY DEF Compares
<1>9. Compared(c) /\ (<<a, b>> \in SameOf(Seen) => <<c.left, c.right>> \in SameOf(Seen))
  <2>1. Len(work) \in 1 .. Len(work)
    BY <1>6
  <2>2. Compared(c) /\ Needed(c)
    BY <1>5, <1>7, <2>1 DEF StackOK, Top
  <2> QED BY <1>4, <2>2 DEF Needed
<1>10. count[c.left] \in Nat /\ \A n \in 1 .. count[c.left] : values[c.left][n] \in Value
  BY <1>1, <1>8, MemoryIs
<1>11. count[c.right] \in Nat /\ \A n \in 1 .. count[c.right] : values[c.right][n] \in Value
  BY <1>1, <1>8, MemoryIs
<1>12. DOMAIN Seen = Made /\ L!Made = DOMAIN Seen
  BY DEF Visible, Seen, L!Made
<1>13. a \in Array
  BY <1>1, MemoryIs
<1>14. a \in L!Made /\ b \in L!Made
  BY <1>12
<1>15. ComparingAt(a, b, c)
  BY <1>1, <1>4, <1>5, <1>6, <1>7, <1>8, <1>9, <1>10, <1>11, <1>12, <1>13, <1>14, Zenon DEF ComparingAt
<1> QED BY <1>15

(* It returns what the program sees.                                       *)
LEMMA AnswerIs ==
  ASSUME ArraysInv, pc = "equal", NEW a, NEW b, NEW c, ComparingAt(a, b, c), NEW v,
         v = (<<a, b>> \in SameOf(Seen)), Done("equal", args, v), UNCHANGED <<values, count>>
  PROVE  Refines
<1>1. /\ a = self /\ args = <<b>> /\ MemoryOK /\ a \in Made
      /\ a \in Array /\ a \in L!Made /\ b \in L!Made /\ L!Made = DOMAIN Seen
  BY DEF ComparingAt
<1>2. MemoryOK' /\ Made' = Made
  BY <1>1 DEF MemoryOK, Made, Value
<1>3. ArraysInv' /\ result' = [call |-> "equal", of |-> self, args |-> args, value |-> v]
  BY <1>2, DoneIs
<1>4. Seen' = Seen
  <2>1. pc' = "idle"
    BY DEF Done
  <2> QED BY <2>1, ComparingSeen
<1>5. L!Reads("equal", a, <<b>>, v)
  BY <1>1, <1>3, <1>4 DEF L!Reads, L!Returns, Seen
<1>6. v = (<<a, b>> \in L!Same)
  BY SameIs
<1>7. L!Reads("equal", a, <<b>>, <<a, b>> \in L!Same)
  BY <1>5, <1>6
<1>8. L!Next
  BY <1>1, <1>7, NextIs
<1> QED BY <1>3, <1>8 DEF Refines

LEMMA DiffersStep ==
  ASSUME ArraysInv, array_differs
  PROVE  Refines
<1>1. pc = "equal" /\ Done("equal", args, FALSE) /\ UNCHANGED <<values, count>>
  BY DEF array_differs
<1>2. PICK a, b, c : ComparingAt(a, b, c)
  BY <1>1, ComparingIs
<1>3. /\ c = Top /\ c.left \in Made /\ c.right \in Made /\ c.i \in Nat
      /\ <<a, b>> \in SameOf(Seen) => <<c.left, c.right>> \in SameOf(Seen)
      /\ count[c.left] \in Nat
  BY <1>2 DEF ComparingAt
<1>4. <<c.left, c.right>> \in SameOf(Seen) <=>
        /\ count[c.left] = count[c.right]
        /\ \A n \in 1 .. count[c.left] : Match(values[c.left][n], values[c.right][n], SameOf(Seen))
  BY <1>1, <1>3, SameMeans
<1>5. <<c.left, c.right>> \notin SameOf(Seen)
  <2>1. CASE count[c.left] # count[c.right]
    BY <1>4, <2>1
  <2>2. CASE /\ count[c.left] = count[c.right] /\ c.i < count[c.left]
             /\ ~({Cell(c.left, c.i), Cell(c.right, c.i)} \subseteq Array)
             /\ Cell(c.left, c.i) # Cell(c.right, c.i)
    <3>1. c.i + 1 \in 1 .. count[c.left]
      BY <1>3, <2>2
    <3>2. ~Match(values[c.left][c.i + 1], values[c.right][c.i + 1], SameOf(Seen))
      BY <2>2 DEF Match, Cell
    <3> QED BY <1>4, <3>1, <3>2
  <2> QED BY <1>3, <2>1, <2>2 DEF array_differs
<1>6. FALSE = (<<a, b>> \in SameOf(Seen))
  BY <1>3, <1>5
<1> QED BY <1>1, <1>2, <1>6, AnswerIs

(* The turn of the loop ends.                                              *)
Moved(u, w) ==
  /\ u \in Seq(Compares) /\ Len(u) = Len(w)
  /\ \A n \in 1 .. Len(w) :
       /\ u[n].left = w[n].left /\ u[n].right = w[n].right
       /\ (n # Len(w) => u[n] = w[n])
  /\ u[Len(w)].i = w[Len(w)].i + 1

LEMMA AdvancedIs ==
  ASSUME NEW w, w \in Seq(Compares), Len(w) > 0
  PROVE  Moved(Advanced(w), w)
<1> DEFINE k == Len(w)
           c == w[k]
           d == [c EXCEPT !.i = @ + 1]
           u == [w EXCEPT ![k] = d]
<1>1. k \in Nat /\ k \in 1 .. k
  OBVIOUS
<1>2. c \in Compares
  BY <1>1
<1>3. d \in Compares /\ d.left = c.left /\ d.right = c.right /\ d.i = c.i + 1
  BY <1>2 DEF Compares
<1>4. Advanced(w) = u
  BY DEF Advanced
<1> HIDE DEF d
<1>5. u \in Seq(Compares) /\ Len(u) = k /\ u[k] = d /\ \A n \in 1 .. k : n # k => u[n] = w[n]
  BY <1>1, <1>3
<1> HIDE DEF u
<1>6. ASSUME NEW n \in 1 .. k PROVE u[n].left = w[n].left /\ u[n].right = w[n].right
  <2>1. CASE n = k
    BY <1>3, <1>5, <2>1
  <2>2. CASE n # k
    BY <1>5, <2>2
  <2> QED BY <2>1, <2>2
<1> QED BY <1>3, <1>4, <1>5, <1>6 DEF Moved

LEMMA MoveOn ==
  ASSUME ArraysInv, pc = "equal", NEW a, NEW b, NEW c, ComparingAt(a, b, c),
         NEW w, w \in Seq(Compares), Len(w) > 0, Len(w) <= Len(work),
         \A n \in 1 .. Len(w) : w[n] = work[n],
         NEW d, d = w[Len(w)], d.i + 1 <= count[d.left], d.i + 1 <= count[d.right],
         Match(values[d.left][d.i + 1], values[d.right][d.i + 1], SameOf(Seen)),
         work' = Advanced(w), UNCHANGED <<values, count, pc, self, i, args, result>>
  PROVE  Refines
<1> DEFINE u == Advanced(w)
<1>1. Moved(u, w)
  BY AdvancedIs
<1>2. /\ a = self /\ args = <<b>> /\ args[1] = b /\ ControlOK /\ a \in Made /\ b \in Made
      /\ StackOK(work) /\ Len(w) \in Nat /\ Len(work) \in Nat
  BY DEF ComparingAt
<1> HIDE DEF u
<1>3. ControlOK'
  BY <1>2 DEF ControlOK, Made, Value
<1>4. u \in Seq(Compares) /\ Len(u) > 0 /\ u[1].left = a /\ u[1].right = b
  <2>1. 1 \in 1 .. Len(w) /\ w[1] = work[1]
    BY <1>2
  <2> QED BY <1>1, <1>2, <2>1 DEF Moved, StackOK
<1>5. ASSUME NEW n \in 1 .. Len(u)
      PROVE  /\ Compared(u[n])
             /\ (<<a, b>> \in SameOf(Seen) => <<u[n].left, u[n].right>> \in SameOf(Seen))
  <2>1. n \in 1 .. Len(w) /\ n \in 1 .. Len(work) /\ w[n] = work[n] /\ w[n] \in Compares
    BY <1>1, <1>2 DEF Moved
  <2>2. Compared(w[n]) /\ (<<a, b>> \in SameOf(Seen) => <<w[n].left, w[n].right>> \in SameOf(Seen))
    BY <1>2, <2>1 DEF StackOK, Needed
  <2>3. u[n].left = w[n].left /\ u[n].right = w[n].right
    BY <1>1, <2>1 DEF Moved
  <2>4. Compared(u[n])
    <3>1. CASE n # Len(w)
      BY <1>1, <2>1, <2>2, <3>1 DEF Moved
    <3>2. CASE n = Len(w)
      <4>1. u[n].i = d.i + 1 /\ w[n] = d /\ d.i \in Nat
        BY <1>1, <2>1, <3>2 DEF Moved, Compares
      <4>2. \A m \in 1 .. d.i : Match(values[d.left][m], values[d.right][m], SameOf(Seen))
        BY <2>2, <4>1 DEF Compared
      <4>3. \A m \in 1 .. d.i + 1 : m \in 1 .. d.i \/ m = d.i + 1
        BY <4>1
      <4> QED BY <2>3, <4>1, <4>2, <4>3 DEF Compared
    <3> QED BY <3>1, <3>2
  <2> QED BY <2>2, <2>3, <2>4
<1>6. ASSUME NEW n \in 1 .. Len(u) - 1 PROVE Called(u[n], u[n + 1])
  <2>1. /\ n \in 1 .. Len(w) /\ n + 1 \in 1 .. Len(w) /\ n # Len(w) /\ n \in 1 .. Len(work) - 1
        /\ n \in 1 .. Len(work) /\ n + 1 \in 1 .. Len(work)
    BY <1>1, <1>2 DEF Moved
  <2>2. u[n] = w[n] /\ u[n + 1].left = w[n + 1].left /\ u[n + 1].right = w[n + 1].right
    BY <1>1, <2>1 DEF Moved
  <2>3. Called(w[n], w[n + 1])
    BY <1>2, <2>1 DEF StackOK
  <2> QED BY <2>2, <2>3 DEF Called
<1>7. self' = a /\ args' = <<b>> /\ pc' = "equal" /\ work' = u /\ UNCHANGED <<values, count, result>>
  BY <1>2 DEF u
<1> QED BY <1>2, <1>3, <1>4, <1>5, <1>6, <1>7, CompareOn

LEMMA ElementStep ==
  ASSUME ArraysInv, array_element
  PROVE  Refines
<1>1. pc = "equal" /\ UNCHANGED <<values, count, pc, self, i, args, result>>
  BY DEF array_element
<1>2. PICK a, b, c : ComparingAt(a, b, c)
  BY <1>1, ComparingIs
<1>3. /\ a = self /\ args = <<b>> /\ args[1] = b /\ MemoryOK /\ ControlOK /\ a \in Made /\ b \in Made
      /\ work \in Seq(Compares) /\ Len(work) \in Nat /\ Len(work) > 0 /\ StackOK(work)
      /\ c = Top /\ c \in Compares /\ c.left \in Made /\ c.right \in Made /\ c.i \in Nat
      /\ (<<a, b>> \in SameOf(Seen) => <<c.left, c.right>> \in SameOf(Seen))
      /\ count[c.left] \in Nat /\ count[c.right] \in Nat
      /\ \A n \in 1 .. count[c.left] : values[c.left][n] \in Value
      /\ \A n \in 1 .. count[c.right] : values[c.right][n] \in Value
  BY <1>2 DEF ComparingAt
<1> DEFINE x == values[c.left][c.i + 1]
           y == values[c.right][c.i + 1]
<1>4. /\ count[c.left] = count[c.right] /\ c.i < count[c.left]
      /\ Cell(c.left, c.i) = x /\ Cell(c.right, c.i) = y
  BY <1>3 DEF array_element, Cell
<1>5. c.i + 1 \in 1 .. count[c.left] /\ c.i + 1 \in 1 .. count[c.right] /\ x \in Value /\ y \in Value
  BY <1>3, <1>4
<1> HIDE DEF x, y
<1>6. CASE x \in Array /\ y \in Array
  <2> DEFINE e == Comparison(x, y)
             u == Append(work, e)
  <2>1. work' = u
    BY <1>3, <1>4, <1>6 DEF array_element
  <2>2. x \in Made /\ y \in Made
    BY <1>3, <1>5, <1>6, ArrayNames
  <2>3. e \in Compares /\ e.left = x /\ e.right = y /\ e.i = 0
    BY <2>2 DEF Comparison, Compares
  <2> HIDE DEF e
  <2>4. Appended(u, Compares, work, e)
    BY <1>3, <2>3, AppendIs
  <2> HIDE DEF u
  <2>5. /\ u \in Seq(Compares) /\ Len(u) = Len(work) + 1 /\ u[Len(work) + 1] = e
        /\ \A n \in 1 .. Len(work) : u[n] = work[n]
    BY <2>4 DEF Appended
  <2>6. Compared(e)
    <3>1. count[x] \in Nat /\ count[y] \in Nat
      BY <1>3, <2>2, MemoryIs
    <3> QED BY <2>3, <3>1 DEF Compared
  <2>7. <<a, b>> \in SameOf(Seen) => <<x, y>> \in SameOf(Seen)
    <3>1. <<c.left, c.right>> \in SameOf(Seen) <=>
            /\ count[c.left] = count[c.right]
            /\ \A n \in 1 .. count[c.left] : Match(values[c.left][n], values[c.right][n], SameOf(Seen))
      BY <1>1, <1>3, SameMeans
    <3>2. <<c.left, c.right>> \in SameOf(Seen) => Match(x, y, SameOf(Seen))
      BY <1>5, <3>1 DEF x, y
    <3> QED BY <1>3, <1>6, <3>2 DEF Match
  <2>8. ASSUME NEW n \in 1 .. Len(u)
        PROVE  /\ Compared(u[n])
               /\ (<<a, b>> \in SameOf(Seen) => <<u[n].left, u[n].right>> \in SameOf(Seen))
    <3>1. n \in 1 .. Len(work) \/ n = Len(work) + 1
      BY <1>3, <2>5
    <3>2. CASE n \in 1 .. Len(work)
      BY <1>3, <2>5, <3>2 DEF StackOK, Needed
    <3>3. CASE n = Len(work) + 1
      BY <2>3, <2>5, <2>6, <2>7, <3>3
    <3> QED BY <3>1, <3>2, <3>3
  <2>9. ASSUME NEW n \in 1 .. Len(u) - 1 PROVE Called(u[n], u[n + 1])
    <3>1. n \in 1 .. Len(work) /\ ((n \in 1 .. Len(work) - 1 /\ n + 1 \in 1 .. Len(work)) \/ n = Len(work))
      BY <1>3, <2>5
    <3>2. CASE n \in 1 .. Len(work) - 1 /\ n + 1 \in 1 .. Len(work)
      BY <1>3, <2>5, <3>1, <3>2 DEF StackOK
    <3>3. CASE n = Len(work)
      <4>1. u[n] = c /\ u[n + 1] = e
        BY <1>3, <2>5, <3>1, <3>3 DEF Top
      <4> QED BY <1>4, <2>3, <4>1 DEF Called
    <3> QED BY <3>1, <3>2, <3>3
  <2>10. Len(u) > 0 /\ u[1].left = a /\ u[1].right = b
    <3>1. 1 \in 1 .. Len(work)
      BY <1>3
    <3> QED BY <1>3, <2>5, <3>1 DEF StackOK
  <2>11. ControlOK'
    BY <1>1, <1>3 DEF ControlOK, Made, Value
  <2>12. self' = a /\ args' = <<b>> /\ pc' = "equal" /\ UNCHANGED <<values, count, result>>
    BY <1>1, <1>3
  <2>13. a \in Made /\ b \in Made /\ pc \in {"idle", "equal"} /\ u \in Seq(Compares)
    BY <1>1, <1>3, <2>5
  <2> QED BY <2>1, <2>8, <2>9, <2>10, <2>11, <2>12, <2>13, CompareOn
<1>7. CASE ~(x \in Array /\ y \in Array)
  <2>1. x = y /\ work' = Advanced(work)
    BY <1>3, <1>4, <1>7 DEF array_element
  <2>2. Match(values[c.left][c.i + 1], values[c.right][c.i + 1], SameOf(Seen))
    BY <1>7, <2>1 DEF Match, x, y
  <2>3. c = work[Len(work)]
    BY <1>3 DEF Top
  <2>4. c.i + 1 <= count[c.left] /\ c.i + 1 <= count[c.right] /\ Len(work) <= Len(work)
    BY <1>3, <1>5
  <2> QED BY <1>1, <1>2, <1>3, <2>1, <2>2, <2>3, <2>4, MoveOn
<1> QED BY <1>6, <1>7

LEMMA SameStep ==
  ASSUME ArraysInv, array_same
  PROVE  Refines
<1>1. pc = "equal" /\ UNCHANGED <<values, count>>
  BY DEF array_same
<1>2. PICK a, b, c : ComparingAt(a, b, c)
  BY <1>1, ComparingIs
<1>3. /\ a = self /\ args = <<b>> /\ args[1] = b /\ MemoryOK
      /\ work \in Seq(Compares) /\ Len(work) \in Nat /\ Len(work) > 0 /\ StackOK(work)
      /\ c = Top /\ c.left \in Made /\ c.right \in Made /\ c.i \in Nat /\ Compared(c)
  BY <1>2 DEF ComparingAt
<1>4. <<c.left, c.right>> \in SameOf(Seen)
  <2>1. count[c.left] = count[c.right] /\ c.i = count[c.left]
    BY <1>3 DEF array_same
  <2>2. \A n \in 1 .. count[c.left] : Match(values[c.left][n], values[c.right][n], SameOf(Seen))
    BY <1>3, <2>1 DEF Compared
  <2> QED BY <1>1, <1>3, <2>1, <2>2, SameMeans
<1>5. CASE Len(work) = 1
  <2>1. Done("equal", args, TRUE)
    BY <1>5 DEF array_same
  <2>2. c.left = a /\ c.right = b
    BY <1>3, <1>5 DEF StackOK, Top
  <2>3. TRUE = (<<a, b>> \in SameOf(Seen))
    BY <1>4, <2>2
  <2> QED BY <1>1, <1>2, <2>1, <2>3, AnswerIs
<1>6. CASE Len(work) # 1
  <2> DEFINE k == Len(work) - 1
             w == SubSeq(work, 1, k)
             d == w[k]
  <2>1. work' = Advanced(w) /\ UNCHANGED <<values, count, pc, self, i, args, result>>
    BY <1>1, <1>6 DEF array_same
  <2>2. /\ k \in Nat /\ k > 0 /\ k + 1 = Len(work) /\ k <= Len(work) /\ k \in 1 .. Len(work) - 1
        /\ \A n \in 1 .. k : n \in 1 .. Len(work) /\ 1 + n - 1 = n
    BY <1>3, <1>6
  <2> HIDE DEF k
  <2>3. w \in Seq(Compares) /\ Len(w) = k /\ \A n \in 1 .. k : w[n] = work[n]
    <3>1. 1 \in Nat \ {0} /\ 1 <= k + 1 /\ k - 1 + 1 = k
      BY <2>2
    <3> QED BY <1>3, <2>2, <3>1, PartIs
  <2> HIDE DEF w
  <2>4. d = work[k] /\ d \in Compares
    <3>1. k \in 1 .. k
      BY <2>2
    <3> QED BY <2>3, <3>1
  <2> HIDE DEF d
  <2>5. Called(d, c)
    BY <1>3, <2>2, <2>4 DEF StackOK, Top
  <2>6. d.i \in Nat /\ d.left \in Made /\ d.right \in Made
    BY <2>4 DEF Compares
  <2>7. /\ count[d.left] = count[d.right] /\ d.i < count[d.left]
        /\ values[d.left][d.i + 1] = c.left /\ values[d.right][d.i + 1] = c.right
    BY <2>5 DEF Called, Cell
  <2>8. count[d.left] \in Nat
    BY <1>3, <2>6, MemoryIs
  <2>9. d.i + 1 <= count[d.left] /\ d.i + 1 <= count[d.right]
    BY <2>6, <2>7, <2>8
  <2>10. Match(values[d.left][d.i + 1], values[d.right][d.i + 1], SameOf(Seen))
    <3>1. c.left \in Array /\ c.right \in Array
      BY <1>3, MemoryIs
    <3> QED BY <1>4, <2>7, <3>1 DEF Match
  <2>11. Len(w) > 0 /\ Len(w) <= Len(work) /\ d = w[Len(w)] /\ \A n \in 1 .. Len(w) : w[n] = work[n]
    BY <2>2, <2>3 DEF d
  <2> QED BY <1>1, <1>2, <2>1, <2>3, <2>9, <2>10, <2>11, MoveOn
<1> QED BY <1>5, <1>6
-----------------------------------------------------------------------------
LEMMA ArraysInit == Init => ArraysInv /\ L!Init
<1> SUFFICES ASSUME Init PROVE ArraysInv /\ L!Init
  OBVIOUS
<1>1. /\ values = [a \in {} |-> <<>>] /\ count = [a \in {} |-> 0]
      /\ pc = "idle" /\ self = NIL /\ i = 0 /\ args = <<>> /\ result = NoCall
  BY DEF Init
<1>2. Made = {} /\ DOMAIN count = {}
  BY <1>1 DEF Made
<1>3. MemoryOK
  <2>1. IsFiniteSet(Made)
    BY <1>2, FS_EmptySet
  <2>2. values \in [Made -> Seq(Value \cup {JUNK})]
    BY <1>1, <1>2
  <2> QED BY <1>2, <2>1, <2>2 DEF MemoryOK
<1>4. ControlOK
  <2>1. <<>> \in Seq(Value)
    OBVIOUS
  <2> QED BY <1>1, <2>1 DEF ControlOK
<1>5. ArraysInv
  BY <1>1, <1>3, <1>4 DEF ArraysInv
<1>6. DOMAIN Seen = {} /\ L!Made = {}
  BY <1>1, <1>2 DEF Seen, L!Made
<1>7. Seen \in [{} -> Seq(L!Element)]
  <2>1. Seen = [a \in DOMAIN Seen |-> Seen[a]]
    BY DEF Seen
  <2> QED BY <1>6, <2>1
<1>8. result = L!NoCall
  BY <1>1 DEF NoCall, L!NoCall
<1>9. L!Init
  BY <1>6, <1>7, <1>8 DEF L!Init, Seen
<1> QED BY <1>5, <1>9

LEMMA ArraysStutter ==
  ASSUME ArraysInv, UNCHANGED vars
  PROVE  Refines
<1>1. UNCHANGED <<values, count, pc, self, i, args, work>> /\ result' = result
  BY DEF vars
<1> QED BY <1>1, OnlyResult DEF Refines

LEMMA ArraysNext == ArraysInv /\ [Next]_vars => Refines
<1> SUFFICES ASSUME ArraysInv, [Next]_vars PROVE Refines
  OBVIOUS
<1>1. CASE Loop
  BY <1>1, NewElementStep, NewDoneStep, InsertShiftStep, InsertDoneStep, DropShiftStep, DropDoneStep,
     DiffersStep, ElementStep, SameStep DEF Loop
<1>2. CASE Call
  <2>1. ASSUME NEW s \in Arguments, op_new_array(s) PROVE Refines
    BY <2>1, NewStep
  <2>2. ASSUME NEW a \in Made, NEW m \in DOMAIN Arity, NEW s \in Arguments, wrong_arity(m, a, s) PROVE Refines
    BY <2>2, ArityStep
  <2>3. ASSUME NEW a \in Made, array_length(a) \/ array_empty(a) \/ array_pop(a) \/ array_drop(a) PROVE Refines
    BY <2>3, LengthStep, EmptyStep, PopStep, DropStep
  <2>4. ASSUME NEW a \in Made, NEW v \in Value, array_push(a, v) \/ array_insert(a, v) PROVE Refines
    BY <2>4, PushStep, InsertStep
  <2>5. ASSUME NEW a \in Made, NEW idx \in Indices, op_slice(a, idx) PROVE Refines
    BY <2>5, SliceStep
  <2>6. ASSUME NEW a \in Made, NEW b \in Made, values_equal(a, b) PROVE Refines
    BY <2>6, EqualStart
  <2> QED BY <1>2, <2>1, <2>2, <2>3, <2>4, <2>5, <2>6 DEF Call
<1>3. CASE UNCHANGED vars
  BY <1>3, ArraysStutter
<1> QED BY <1>1, <1>2, <1>3 DEF Next

LEMMA ArraysInvHolds == Spec => []ArraysInv
<1>1. Init => ArraysInv
  BY ArraysInit
<1>2. ArraysInv /\ [Next]_vars => ArraysInv'
  BY ArraysNext DEF Refines
<1> QED BY <1>1, <1>2, PTL DEF Spec

(* The elements of an array are in the memory it has, and memory realloc   *)
(* returned is not among them before it was written.                       *)
THEOREM ArraysTypeOK == Spec => []TypeOK
<1>1. ArraysInv => TypeOK
  BY DEF ArraysInv, MemoryOK, ControlOK, TypeOK
<1> QED BY <1>1, ArraysInvHolds, PTL

(* Whatever the memory an array is in, however large it grew, and in the   *)
(* middle of whatever loop, its elements are a sequence: literals, push,   *)
(* insert, pop, drop, slices and lengths do to it what they say, and a     *)
(* comparison of two arrays answers true exactly if they hold the same,    *)
(* nested in any way.                                                      *)
THEOREM ImplementsListsHolds == Spec => ImplementsLists
<1>1. Init => L!Init
  BY ArraysInit
<1>2. ArraysInv /\ [Next]_vars => [L!Next]_<<Seen, result>>
  BY ArraysNext DEF Refines
<1> QED BY <1>1, <1>2, ArraysInvHolds, PTL DEF Spec, ImplementsLists, L!Spec, Seen
=============================================================================
