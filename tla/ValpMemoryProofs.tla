--------------------------- MODULE ValpMemoryProofs ---------------------------
(***************************************************************************)
(* Proofs about ValpMemory, for any number of objects and texts and any    *)
(* bounds: the collector frees all garbage and nothing else, interning     *)
(* survives it, and the unchecked casts of the handlers are right.         *)
(***************************************************************************)
EXTENDS ValpMemory, SequenceTheorems, TLAPS
-----------------------------------------------------------------------------
(* Heaps: when the records of a heap fit together, and which writes and    *)
(* collections keep it so.  A heap is a parameter here; no steps yet.      *)

(* Address v of heap h holds an object of type t.                          *)
Typed(h, v, t) == v \in DOMAIN h /\ h[v].type = t

(* A value that is none of the freed objects.                              *)
Value(h, v) == v \in DOMAIN h \/ v = NIL

(* What an object may point at.                                            *)
Fits(h, r) ==
  /\ IsObject(r) /\ Shaped(r)
  /\ Pointers(r) \subseteq DOMAIN h
  /\ \A k \in DOMAIN r.table : Typed(h, k, "string")
  /\ r.type = "closure" =>
       /\ Typed(h, r.head, "function")
       /\ \A u \in Elements(r.elems) : u = NIL \/ Typed(h, u, "upvalue")
  /\ r.type \in {"class", "function"} => r.head = NIL \/ Typed(h, r.head, "string")
  /\ r.type = "class" => \A k \in DOMAIN r.table : Typed(h, r.table[k], "closure")
  /\ r.type = "instance" => Typed(h, r.head, "class")
  /\ r.type = "bound" => Typed(h, r.head, "closure")

WellFormed(h) ==
  /\ DOMAIN h \subseteq Obj /\ h = [o \in DOMAIN h |-> h[o]]
  /\ \A o \in DOMAIN h : Fits(h, h[o])

(* What the objects of S are in h, they are in g.                          *)
Kept(S, h, g) == \A p \in S \cap DOMAIN h : p \in DOMAIN g /\ g[p].type = h[p].type

(* What a handler does to the heap: it writes objects and makes new ones,  *)
(* none of them a string.                                                  *)
Evolves(h, g) ==
  /\ WellFormed(g) /\ Kept(DOMAIN h, h, g)
  /\ \A p \in DOMAIN g : g[p].type = "string" => p \in DOMAIN h /\ g[p] = h[p]

(* A heap with record r at address o.                                      *)
Write(h, o, r) == [x \in DOMAIN h \cup {o} |-> IF x = o THEN r ELSE h[x]]
-----------------------------------------------------------------------------
LEMMA Parts ==
  ASSUME NEW r, IsObject(r)
  PROVE  /\ r.type \in ObjType /\ r.head \in Val \cup Text /\ r.elems \in Seq(Val)
         /\ DOMAIN r.table \subseteq Obj /\ \A k \in DOMAIN r.table : r.table[k] \in Val
         /\ r = [type |-> r.type, head |-> r.head, elems |-> r.elems, table |-> r.table]
<1>1. r \in [type : ObjType, head : Val \cup Text, elems : Seq(Val), table : {r.table}]
  BY DEF IsObject
<1>2. DOMAIN r.table \subseteq Obj /\ r.table \in [DOMAIN r.table -> Val]
  BY DEF IsObject, IsTable
<1> QED BY <1>1, <1>2

(* An empty table and an empty list have no elements.                      *)
LEMMA Blank ==
  /\ <<>> \in Seq(Val) /\ \A i \in DOMAIN <<>> : FALSE
  /\ NIL \in Val /\ (\A h : Value(h, NIL)) /\ Obj \subseteq Val
  /\ IsTable(NoTable) /\ DOMAIN NoTable = {} /\ TableRefs(NoTable) = {}
  /\ \A S : <<>> \in Seq(S)
  /\ Elements(<<>>) = {}
<1>1. IsTable(NoTable) /\ DOMAIN NoTable = {} /\ TableRefs(NoTable) = {}
  BY DEF IsTable, NoTable, TableRefs
<1>2. Elements(<<>>) = {}
  BY DEF Elements
<1>3. <<>> \in Seq(Val) /\ DOMAIN <<>> = {}
  OBVIOUS
<1>4. NIL \in Val /\ (\A h : Value(h, NIL)) /\ Obj \subseteq Val
  BY DEF Val, Value
<1> QED BY <1>1, <1>2, <1>3, <1>4

LEMMA ElementsOfSeq ==
  ASSUME NEW S, NEW s \in Seq(S)
  PROVE  /\ Len(s) \in Nat /\ DOMAIN s = 1 .. Len(s)
         /\ \A i \in DOMAIN s : s[i] \in S
         /\ Elements(s) \subseteq S
<1>1. Len(s) \in Nat /\ DOMAIN s = 1 .. Len(s)
  BY LenProperties
<1>2. \A i \in DOMAIN s : s[i] \in S
  BY <1>1, ElementOfSeq
<1> QED BY <1>1, <1>2 DEF Elements

(* What an object points at, part by part.                                 *)
LEMMA PointersAre ==
  ASSUME NEW r, IsObject(r)
  PROVE  /\ r.head \in Obj => r.head \in Pointers(r)
         /\ \A v \in Elements(r.elems) : v = NIL \/ v \in Pointers(r)
         /\ \A k \in DOMAIN r.table :
              k \in Pointers(r) /\ (r.table[k] = NIL \/ r.table[k] \in Pointers(r))
<1>1. Elements(r.elems) \subseteq Obj \cup {NIL}
  BY Parts, ElementsOfSeq DEF Val
<1>2. \A k \in DOMAIN r.table : k \in Obj /\ r.table[k] \in Obj \cup {NIL}
        /\ k \in TableRefs(r.table) /\ r.table[k] \in TableRefs(r.table)
  BY Parts DEF Val, TableRefs
<1> QED BY <1>1, <1>2 DEF Pointers

(* blacken_object marks every pointer of an object, whatever its type.     *)
LEMMA BlackenedIsComplete ==
  ASSUME NEW r, IsObject(r), Shaped(r)
  PROVE  Blackened(r) = Pointers(r)
<1>1. NIL \notin Obj /\ \A x \in Text : x \notin Obj
  BY HeapAssumption
<1>2. r.type \in ObjType
  BY Parts
<1>3. CASE r.type \in {"bound", "closure", "function"}
  <2>1. r.table = NoTable
    BY <1>3 DEF Shaped
  <2> QED BY <1>3, <2>1, Blank DEF Blackened, Pointers
<1>4. CASE r.type \in {"class", "instance"}
  <2>1. r.elems = <<>>
    BY <1>4 DEF Shaped
  <2> QED BY <1>4, <2>1, Blank DEF Blackened, Pointers
<1>5. CASE r.type = "upvalue"
  <2>1. r.elems = <<>> /\ r.table = NoTable
    BY <1>5 DEF Shaped
  <2> QED BY <1>5, <2>1, Blank DEF Blackened, Pointers
<1>6. CASE r.type = "array"
  <2>1. r.head = NIL /\ r.table = NoTable
    BY <1>6 DEF Shaped
  <2> QED BY <1>1, <1>6, <2>1, Blank DEF Blackened, Pointers
<1>7. CASE r.type \in {"native", "string"}
  <2>1. r.head \notin Obj /\ r.elems = <<>> /\ r.table = NoTable
    BY <1>1, <1>7 DEF Shaped
  <2> QED BY <1>7, <2>1, Blank DEF Blackened, Pointers
<1> QED BY <1>2, <1>3, <1>4, <1>5, <1>6, <1>7 DEF ObjType
-----------------------------------------------------------------------------
(* An object fits another heap that has what it points at.                 *)
LEMMA FitsStays ==
  ASSUME NEW h, NEW g, NEW r, Fits(h, r), DOMAIN h \subseteq Obj,
         \A p \in Pointers(r) : p \in DOMAIN g /\ g[p].type = h[p].type
  PROVE  Fits(g, r)
<1>1. IsObject(r) /\ Shaped(r)
  BY DEF Fits
<1>2. ASSUME NEW v, NEW t, Typed(h, v, t), v \in Pointers(r)
      PROVE  Typed(g, v, t)
  BY <1>2 DEF Typed
<1>3. ASSUME NEW v, NEW t, Typed(h, v, t) PROVE v \in Obj /\ v # NIL
  BY <1>3, HeapAssumption DEF Typed
<1>4. \A k \in DOMAIN r.table : Typed(g, k, "string")
  BY <1>1, <1>2, PointersAre DEF Fits
<1>5. r.type = "closure" =>
       /\ Typed(g, r.head, "function")
       /\ \A u \in Elements(r.elems) : u = NIL \/ Typed(g, u, "upvalue")
  BY <1>1, <1>2, <1>3, PointersAre DEF Fits
<1>6. r.type \in {"class", "function"} => r.head = NIL \/ Typed(g, r.head, "string")
  BY <1>1, <1>2, <1>3, PointersAre DEF Fits
<1>7. r.type = "class" => \A k \in DOMAIN r.table : Typed(g, r.table[k], "closure")
  BY <1>1, <1>2, <1>3, PointersAre DEF Fits
<1>8. /\ r.type = "instance" => Typed(g, r.head, "class")
      /\ r.type = "bound" => Typed(g, r.head, "closure")
  BY <1>1, <1>2, <1>3, PointersAre DEF Fits
<1>9. Pointers(r) \subseteq DOMAIN g
  OBVIOUS
<1> QED BY <1>1, <1>4, <1>5, <1>6, <1>7, <1>8, <1>9 DEF Fits

(* Objects are written, each by what fits the heap as it was, and keep     *)
(* their types.                                                            *)
LEMMA WritesEvolve ==
  ASSUME NEW h, NEW g, WellFormed(h), DOMAIN h \subseteq DOMAIN g, DOMAIN g \subseteq Obj,
         g = [x \in DOMAIN g |-> g[x]],
         \A x \in DOMAIN g : Fits(h, g[x]) \/ (x \in DOMAIN h /\ g[x] = h[x]),
         \A x \in DOMAIN h : g[x].type = h[x].type,
         \A x \in DOMAIN g : g[x].type = "string" => x \in DOMAIN h /\ g[x] = h[x]
  PROVE  Evolves(h, g)
<1>1. Kept(DOMAIN h, h, g)
  BY DEF Kept
<1>2. ASSUME NEW q, Fits(h, q) PROVE Fits(g, q)
  <2>1. DOMAIN h \subseteq Obj /\ Pointers(q) \subseteq DOMAIN h
    BY <1>2 DEF WellFormed, Fits
  <2> QED BY <1>1, <1>2, <2>1, FitsStays DEF Kept
<1>3. ASSUME NEW x \in DOMAIN g PROVE Fits(g, g[x])
  <2>1. Fits(h, g[x])
    BY DEF WellFormed
  <2> QED BY <2>1, <1>2
<1> QED BY <1>1, <1>3 DEF Evolves, WellFormed

(* A new object, or an object that stays of its type, is written.          *)
LEMMA WriteEvolves ==
  ASSUME NEW h, NEW o \in Obj, NEW r, WellFormed(h), Fits(h, r), r.type # "string",
         o \in DOMAIN h => r.type = h[o].type
  PROVE  /\ Evolves(h, Write(h, o, r))
         /\ DOMAIN Write(h, o, r) = DOMAIN h \cup {o} /\ Write(h, o, r)[o] = r
         /\ \A p \in DOMAIN h : p # o => Write(h, o, r)[p] = h[p]
<1> DEFINE g == Write(h, o, r)
<1>1. /\ DOMAIN g = DOMAIN h \cup {o} /\ g[o] = r
      /\ \A p \in DOMAIN h : p # o => g[p] = h[p]
      /\ g = [x \in DOMAIN g |-> g[x]]
  BY DEF Write
<1> HIDE DEF g
<1>2. DOMAIN h \subseteq Obj
  BY DEF WellFormed
<1>3. Evolves(h, g)
  BY <1>1, <1>2, WritesEvolve
<1> QED BY <1>1, <1>3 DEF g

(* Nothing happens to the heap.                                            *)
LEMMA SameEvolves ==
  ASSUME NEW h, WellFormed(h)
  PROVE  Evolves(h, h)
BY DEF Evolves, WellFormed, Kept

LEMMA EvolvesTwice ==
  ASSUME NEW h, NEW g, NEW k, Evolves(h, g), Evolves(g, k)
  PROVE  Evolves(h, k)
BY DEF Evolves, Kept

LEMMA NewStringFits ==
  ASSUME NEW h, NEW txt \in Text
  PROVE  Fits(h, MkString(txt)) /\ MkString(txt).type = "string"
<1> DEFINE r == MkString(txt)
<1>1. /\ r.type = "string" /\ r.head = txt /\ r.elems = <<>> /\ r.table = NoTable
      /\ r = [type |-> "string", head |-> txt, elems |-> <<>>, table |-> NoTable]
  BY DEF MkString
<1> HIDE DEF r
<1>2. IsObject(r) /\ Shaped(r)
  BY <1>1, Blank DEF IsObject, Shaped, ObjType
<1>3. Pointers(r) = {}
  BY <1>1, Blank, HeapAssumption DEF Pointers
<1> QED BY <1>1, <1>2, <1>3, Blank DEF Fits, r

(* allocate_string makes a string.                                         *)
LEMMA NewString ==
  ASSUME NEW h, NEW o \in Obj \ DOMAIN h, NEW txt \in Text, WellFormed(h),
         NEW g, g = Write(h, o, MkString(txt))
  PROVE  /\ WellFormed(g) /\ Kept(DOMAIN h, h, g)
         /\ DOMAIN g = DOMAIN h \cup {o} /\ g[o] = MkString(txt)
         /\ \A p \in DOMAIN h : g[p] = h[p]
<1>1. /\ DOMAIN g = DOMAIN h \cup {o} /\ g[o] = MkString(txt)
      /\ \A p \in DOMAIN h : g[p] = h[p]
      /\ g = [x \in DOMAIN g |-> g[x]]
  BY DEF Write
<1>2. Kept(DOMAIN h, h, g) /\ DOMAIN h \subseteq Obj
  BY <1>1 DEF Kept, WellFormed
<1>3. ASSUME NEW q, Fits(h, q) PROVE Fits(g, q)
  <2>1. Pointers(q) \subseteq DOMAIN h
    BY <1>3 DEF Fits
  <2> QED BY <1>2, <1>3, <2>1, FitsStays DEF Kept
<1>4. Fits(g, MkString(txt))
  BY NewStringFits
<1>5. WellFormed(g)
  <2>1. ASSUME NEW x \in DOMAIN g PROVE Fits(g, g[x])
    BY <1>1, <1>3, <1>4 DEF WellFormed
  <2> QED BY <1>1, <1>2, <2>1 DEF WellFormed
<1> QED BY <1>1, <1>2, <1>5

(* A collection leaves a closed set of objects.                            *)
LEMMA SweepKeeps ==
  ASSUME NEW h, NEW S, WellFormed(h), \A o \in S \cap DOMAIN h : Pointers(h[o]) \subseteq S
  PROVE  WellFormed([o \in DOMAIN h \cap S |-> h[o]])
<1> DEFINE g == [o \in DOMAIN h \cap S |-> h[o]]
<1>1. DOMAIN g = DOMAIN h \cap S /\ g = [o \in DOMAIN g |-> g[o]] /\ \A o \in DOMAIN g : g[o] = h[o]
  OBVIOUS
<1> HIDE DEF g
<1>2. DOMAIN h \subseteq Obj
  BY DEF WellFormed
<1>3. ASSUME NEW o \in DOMAIN g PROVE Fits(g, g[o])
  <2>1. Fits(h, h[o]) /\ o \in S /\ o \in DOMAIN h /\ g[o] = h[o]
    BY <1>1 DEF WellFormed
  <2>2. Pointers(h[o]) \subseteq DOMAIN g
    BY <2>1, <1>1 DEF Fits
  <2>3. \A p \in Pointers(h[o]) : p \in DOMAIN g /\ g[p].type = h[p].type
    BY <2>2, <1>1
  <2> QED BY <2>1, <2>3, <1>2, FitsStays
<1> QED BY <1>1, <1>2, <1>3 DEF WellFormed, g
-----------------------------------------------------------------------------
(* The new_* functions make objects that fit.                              *)
Record(ty, hd, es) == [type |-> ty, head |-> hd, elems |-> es, table |-> NoTable]

LEMMA BlankRecord ==
  ASSUME NEW h, NEW ty \in ObjType, NEW hd \in Val, NEW es \in Seq(Val),
         Value(h, hd), \A i \in DOMAIN es : Value(h, es[i])
  PROVE  LET r == Record(ty, hd, es) IN
         /\ IsObject(r) /\ Pointers(r) \subseteq DOMAIN h /\ DOMAIN r.table = {}
         /\ r.type = ty /\ r.head = hd /\ r.elems = es /\ r.table = NoTable
<1> DEFINE r == Record(ty, hd, es)
<1>1. /\ r.type = ty /\ r.head = hd /\ r.elems = es /\ r.table = NoTable
      /\ r = [type |-> ty, head |-> hd, elems |-> es, table |-> NoTable]
  BY DEF Record
<1> HIDE DEF r
<1>2. IsObject(r)
  BY <1>1, Blank DEF IsObject
<1>3. Pointers(r) \subseteq DOMAIN h
  BY <1>1, Blank, HeapAssumption DEF Pointers, Elements, Value
<1> QED BY <1>1, <1>2, <1>3, Blank DEF r

LEMMA NewNativeFits ==
  ASSUME NEW h
  PROVE  Fits(h, MkNative) /\ MkNative.type = "native"
<1> DEFINE r == MkNative
<1>1. r = Record("native", NIL, <<>>)
  BY DEF MkNative, Record
<1>2. /\ r.type = "native" /\ r.head = NIL /\ r.elems = <<>> /\ r.table = NoTable
      /\ "native" \in ObjType /\ DOMAIN r.table = {}
  BY Blank DEF MkNative, ObjType
<1> HIDE DEF r
<1>3. IsObject(r) /\ Pointers(r) \subseteq DOMAIN h
  BY <1>1, <1>2, Blank, BlankRecord DEF ObjType
<1>4. Shaped(r)
  BY <1>2, <1>3 DEF Shaped
<1>5. Fits(h, r)
  BY <1>2, <1>3, <1>4 DEF Fits
<1> QED BY <1>2, <1>3, <1>5 DEF r

LEMMA NewFunction ==
  ASSUME NEW h
  PROVE  Fits(h, MkFunction) /\ MkFunction.type = "function"
<1> DEFINE r == MkFunction
<1>1. r = Record("function", NIL, <<>>)
  BY DEF MkFunction, Record
<1>2. /\ r.type = "function" /\ r.head = NIL /\ r.elems = <<>> /\ r.table = NoTable
      /\ "function" \in ObjType /\ DOMAIN r.table = {}
  BY Blank DEF MkFunction, ObjType
<1> HIDE DEF r
<1>3. IsObject(r) /\ Pointers(r) \subseteq DOMAIN h
  BY <1>1, <1>2, Blank, BlankRecord DEF ObjType
<1>4. Shaped(r)
  BY <1>2, <1>3 DEF Shaped, Val
<1>5. Fits(h, r)
  BY <1>2, <1>3, <1>4 DEF Fits
<1> QED BY <1>2, <1>3, <1>5 DEF r

LEMMA NewClosure ==
  ASSUME NEW h, NEW f \in Obj, NEW n \in Nat, Typed(h, f, "function")
  PROVE  /\ Fits(h, MkClosure(f, n)) /\ MkClosure(f, n).type = "closure"
         /\ Len(MkClosure(f, n).elems) = n
<1> DEFINE es == [i \in 1 .. n |-> NIL]
           r == MkClosure(f, n)
<1>1. r = Record("closure", f, es)
  BY DEF MkClosure, Record
<1>2. es \in Seq(Val) /\ Len(es) = n /\ (\A i \in DOMAIN es : es[i] = NIL)
  BY IsASeq DEF Val
<1>3. /\ r.type = "closure" /\ r.head = f /\ r.elems = es /\ r.table = NoTable
      /\ "closure" \in ObjType /\ DOMAIN r.table = {}
  BY Blank DEF MkClosure, ObjType
<1> HIDE DEF r, es
<1>4. IsObject(r) /\ Pointers(r) \subseteq DOMAIN h
  BY <1>1, <1>2, <1>3, BlankRecord DEF ObjType, Val, Value, Typed
<1>5. Shaped(r)
  BY <1>2, <1>3, <1>4 DEF Shaped
<1>6. Fits(h, r)
  BY <1>2, <1>3, <1>4, <1>5 DEF Fits, Elements
<1> QED BY <1>2, <1>3, <1>4, <1>6 DEF r

LEMMA NewUpvalue ==
  ASSUME NEW h
  PROVE  Fits(h, MkUpvalue) /\ MkUpvalue.type = "upvalue"
<1> DEFINE r == MkUpvalue
<1>1. r = Record("upvalue", NIL, <<>>)
  BY DEF MkUpvalue, Record
<1>2. /\ r.type = "upvalue" /\ r.head = NIL /\ r.elems = <<>> /\ r.table = NoTable
      /\ "upvalue" \in ObjType /\ DOMAIN r.table = {}
  BY Blank DEF MkUpvalue, ObjType
<1> HIDE DEF r
<1>3. IsObject(r) /\ Pointers(r) \subseteq DOMAIN h
  BY <1>1, <1>2, Blank, BlankRecord DEF ObjType
<1>4. Shaped(r)
  BY <1>2, <1>3 DEF Shaped, Val
<1>5. Fits(h, r)
  BY <1>2, <1>3, <1>4 DEF Fits
<1> QED BY <1>2, <1>3, <1>5 DEF r

LEMMA NewClass ==
  ASSUME NEW h, NEW k \in Obj, Typed(h, k, "string")
  PROVE  Fits(h, MkClass(k)) /\ MkClass(k).type = "class"
<1> DEFINE r == MkClass(k)
<1>1. r = Record("class", k, <<>>)
  BY DEF MkClass, Record
<1>2. /\ r.type = "class" /\ r.head = k /\ r.elems = <<>> /\ r.table = NoTable
      /\ "class" \in ObjType /\ DOMAIN r.table = {}
  BY Blank DEF MkClass, ObjType
<1> HIDE DEF r
<1>3. IsObject(r) /\ Pointers(r) \subseteq DOMAIN h
  BY <1>1, <1>2, Blank, BlankRecord DEF ObjType, Val, Value, Typed
<1>4. Shaped(r)
  BY <1>2, <1>3 DEF Shaped
<1>5. Fits(h, r)
  BY <1>2, <1>3, <1>4 DEF Fits
<1> QED BY <1>2, <1>3, <1>5 DEF r

LEMMA NewInstance ==
  ASSUME NEW h, NEW k \in Obj, Typed(h, k, "class")
  PROVE  Fits(h, MkInstance(k)) /\ MkInstance(k).type = "instance"
<1> DEFINE r == MkInstance(k)
<1>1. r = Record("instance", k, <<>>)
  BY DEF MkInstance, Record
<1>2. /\ r.type = "instance" /\ r.head = k /\ r.elems = <<>> /\ r.table = NoTable
      /\ "instance" \in ObjType /\ DOMAIN r.table = {}
  BY Blank DEF MkInstance, ObjType
<1> HIDE DEF r
<1>3. IsObject(r) /\ Pointers(r) \subseteq DOMAIN h
  BY <1>1, <1>2, Blank, BlankRecord DEF ObjType, Val, Value, Typed
<1>4. Shaped(r)
  BY <1>2, <1>3 DEF Shaped
<1>5. Fits(h, r)
  BY <1>2, <1>3, <1>4 DEF Fits
<1> QED BY <1>2, <1>3, <1>5 DEF r

LEMMA NewBound ==
  ASSUME NEW h, NEW v \in Val, NEW m \in Obj, Value(h, v), Typed(h, m, "closure")
  PROVE  Fits(h, MkBound(v, m)) /\ MkBound(v, m).type = "bound"
<1> DEFINE es == <<v>>
           r == MkBound(v, m)
<1>1. r = Record("bound", m, es)
  BY DEF MkBound, Record
<1>2. es \in Seq(Val) /\ Len(es) = 1 /\ \A i \in DOMAIN es : es[i] = v
  OBVIOUS
<1>3. /\ r.type = "bound" /\ r.head = m /\ r.elems = es /\ r.table = NoTable
      /\ "bound" \in ObjType /\ DOMAIN r.table = {}
  BY Blank DEF MkBound, ObjType
<1> HIDE DEF r, es
<1>4. IsObject(r) /\ Pointers(r) \subseteq DOMAIN h
  BY <1>1, <1>2, <1>3, BlankRecord DEF Val, Value, Typed
<1>5. Shaped(r)
  BY <1>2, <1>3, <1>4 DEF Shaped
<1>6. Fits(h, r)
  BY <1>2, <1>3, <1>4, <1>5 DEF Fits
<1> QED BY <1>2, <1>3, <1>4, <1>6 DEF r

LEMMA NewArrayFits ==
  ASSUME NEW h, NEW es \in Seq(Val), \A i \in DOMAIN es : Value(h, es[i])
  PROVE  Fits(h, MkArray(es)) /\ MkArray(es).type = "array"
<1> DEFINE r == MkArray(es)
<1>1. r = Record("array", NIL, es)
  BY DEF MkArray, Record
<1>2. /\ r.type = "array" /\ r.head = NIL /\ r.elems = es /\ r.table = NoTable
      /\ "array" \in ObjType /\ DOMAIN r.table = {}
  BY Blank DEF MkArray, ObjType
<1> HIDE DEF r
<1>3. IsObject(r) /\ Pointers(r) \subseteq DOMAIN h
  BY SMTT(30), <1>1, <1>2, Blank, BlankRecord DEF ObjType
<1>4. Shaped(r)
  BY <1>2, <1>3 DEF Shaped
<1>5. Fits(h, r)
  BY <1>2, <1>3, <1>4 DEF Fits
<1> QED BY <1>2, <1>3, <1>5 DEF r
-----------------------------------------------------------------------------
(* A part of an object is written.                                         *)
WithHead(q, v) == [q EXCEPT !.head = v]
WithElems(q, es) == [q EXCEPT !.elems = es]
WithTable(q, t) == [q EXCEPT !.table = t]

LEMMA HeadWritten ==
  ASSUME NEW h, NEW o \in DOMAIN h, NEW v \in Val, WellFormed(h),
         \/ h[o].type = "upvalue" /\ Value(h, v)
         \/ h[o].type = "function" /\ Typed(h, v, "string")
  PROVE  /\ Fits(h, WithHead(h[o], v))
         /\ WithHead(h[o], v).type = h[o].type
<1> DEFINE q == h[o]
           r == WithHead(q, v)
<1>1. Fits(h, q)
  BY DEF WellFormed
<1> HIDE DEF q
<1>3. IsObject(q) /\ Shaped(q)
  BY <1>1 DEF Fits
<1>4. /\ r.type = q.type /\ r.head = v /\ r.elems = q.elems /\ r.table = q.table
      /\ r = [type |-> q.type, head |-> v, elems |-> q.elems, table |-> q.table]
  BY <1>3, Parts DEF WithHead
<1> HIDE DEF r
<1>5. q.type \in {"upvalue", "function"}
  BY DEF q
<1>6. IsObject(r)
  BY <1>3, <1>4, Parts DEF IsObject, IsTable
<1>7. Shaped(r)
  BY <1>3, <1>4, <1>5 DEF Shaped
<1>8. Pointers(r) \subseteq DOMAIN h
  <2>1. Pointers(r) \subseteq Pointers(q) \cup ({v} \cap Obj)
    BY <1>4 DEF Pointers
  <2>2. {v} \cap Obj \subseteq DOMAIN h
    BY HeapAssumption DEF Value, Typed
  <2> QED BY <2>1, <2>2, <1>1 DEF Fits
<1>9. Fits(h, r)
  <2>1. \A k \in DOMAIN r.table : Typed(h, k, "string")
    BY <1>1, <1>4 DEF Fits
  <2>2. r.type = "function" => Typed(h, r.head, "string")
    BY <1>4 DEF q
  <2> QED BY <1>4, <1>5, <1>6, <1>7, <1>8, <2>1, <2>2 DEF Fits
<1> QED BY <1>4, <1>9 DEF q, r

LEMMA ElemsWritten ==
  ASSUME NEW h, NEW o \in DOMAIN h, NEW es \in Seq(Val), WellFormed(h),
         \/ h[o].type \in {"function", "array"} /\ \A i \in DOMAIN es : Value(h, es[i])
         \/ h[o].type = "closure"
              /\ \A i \in DOMAIN es : es[i] = NIL \/ Typed(h, es[i], "upvalue")
  PROVE  /\ Fits(h, WithElems(h[o], es))
         /\ WithElems(h[o], es).type = h[o].type
         /\ WithElems(h[o], es).elems = es
<1> DEFINE q == h[o]
           r == WithElems(q, es)
<1>1. Fits(h, q)
  BY DEF WellFormed
<1> HIDE DEF q
<1>3. IsObject(q) /\ Shaped(q)
  BY <1>1 DEF Fits
<1>4. /\ r.type = q.type /\ r.head = q.head /\ r.elems = es /\ r.table = q.table
      /\ r = [type |-> q.type, head |-> q.head, elems |-> es, table |-> q.table]
  BY <1>3, Parts DEF WithElems
<1> HIDE DEF r
<1>5. q.type \in {"function", "array", "closure"}
  BY DEF q
<1>6. IsObject(r)
  BY <1>3, <1>4, Parts DEF IsObject, IsTable
<1>7. Shaped(r)
  BY <1>3, <1>4, <1>5 DEF Shaped
<1>8. Pointers(r) \subseteq DOMAIN h
  <2>1. Pointers(r) \subseteq Pointers(q) \cup (Elements(es) \cap Obj)
    BY <1>4 DEF Pointers
  <2>2. Elements(es) \cap Obj \subseteq DOMAIN h
    BY HeapAssumption DEF Value, Typed, Elements
  <2> QED BY <2>1, <2>2, <1>1 DEF Fits
<1>9. Fits(h, r)
  <2>1. \A k \in DOMAIN r.table : Typed(h, k, "string")
    BY <1>1, <1>4 DEF Fits
  <2>2. r.type = "function" => r.head = NIL \/ Typed(h, r.head, "string")
    BY <1>1, <1>4 DEF Fits
  <2>3. r.type = "closure" =>
          Typed(h, r.head, "function") /\ \A u \in Elements(r.elems) : u = NIL \/ Typed(h, u, "upvalue")
    BY <1>1, <1>4 DEF Fits, q, Elements
  <2> QED BY <1>4, <1>5, <1>6, <1>7, <1>8, <2>1, <2>2, <2>3 DEF Fits
<1> QED BY <1>4, <1>9 DEF q, r

LEMMA TableWritten ==
  ASSUME NEW h, NEW o \in DOMAIN h, NEW t, WellFormed(h), IsTable(t),
         \A k \in DOMAIN t : Typed(h, k, "string"),
         \/ h[o].type = "instance" /\ \A k \in DOMAIN t : Value(h, t[k])
         \/ h[o].type = "class" /\ \A k \in DOMAIN t : Typed(h, t[k], "closure")
  PROVE  /\ Fits(h, WithTable(h[o], t))
         /\ WithTable(h[o], t).type = h[o].type
<1> DEFINE q == h[o]
           r == WithTable(q, t)
<1>1. Fits(h, q)
  BY DEF WellFormed
<1> HIDE DEF q
<1>3. IsObject(q) /\ Shaped(q)
  BY <1>1 DEF Fits
<1>4. /\ r.type = q.type /\ r.head = q.head /\ r.elems = q.elems /\ r.table = t
      /\ r = [type |-> q.type, head |-> q.head, elems |-> q.elems, table |-> t]
  BY <1>3, Parts DEF WithTable
<1> HIDE DEF r
<1>5. q.type \in {"instance", "class"}
  BY DEF q
<1>6. IsObject(r)
  BY <1>3, <1>4, Parts DEF IsObject
<1>7. Shaped(r)
  BY <1>3, <1>4, <1>5 DEF Shaped
<1>8. Pointers(r) \subseteq DOMAIN h
  <2>1. Pointers(r) \subseteq Pointers(q) \cup (TableRefs(t) \cap Obj)
    BY <1>4 DEF Pointers
  <2>2. TableRefs(t) \cap Obj \subseteq DOMAIN h
    BY HeapAssumption DEF Value, Typed, TableRefs
  <2> QED BY <2>1, <2>2, <1>1 DEF Fits
<1>9. Fits(h, r)
  <2>1. \A k \in DOMAIN r.table : Typed(h, k, "string")
    BY <1>4
  <2>2. /\ r.type = "class" => r.head = NIL \/ Typed(h, r.head, "string")
        /\ r.type = "instance" => Typed(h, r.head, "class")
    BY <1>1, <1>4 DEF Fits
  <2>3. r.type = "class" => \A k \in DOMAIN r.table : Typed(h, r.table[k], "closure")
    BY <1>4 DEF q
  <2> QED BY <1>4, <1>5, <1>6, <1>7, <1>8, <2>1, <2>2, <2>3 DEF Fits
<1> QED BY <1>4, <1>9 DEF q, r

(* hash_set writes a key and a value.                                      *)
LEMMA TableWith ==
  ASSUME NEW t, IsTable(t), NEW k \in Obj, NEW v \in Val
  PROVE  /\ IsTable(With(t, k, v)) /\ DOMAIN With(t, k, v) = DOMAIN t \cup {k}
         /\ With(t, k, v)[k] = v /\ \A l \in DOMAIN t : l # k => With(t, k, v)[l] = t[l]
BY DEF IsTable, With
-----------------------------------------------------------------------------
(* The inductive invariant.                                                *)
StackOK(h, s) == s \in Seq(Val) /\ \A i \in DOMAIN s : Value(h, s[i])

(* The frames hold closures, and each begins above the one below it.       *)
FramesOK(h, s, fs) ==
  /\ fs \in Seq([closure : Obj, slots : Nat \ {0}])
  /\ \A i \in DOMAIN fs : Typed(h, fs[i].closure, "closure") /\ fs[i].slots <= Len(s)
  /\ \A i, j \in DOMAIN fs : i < j => fs[i].slots < fs[j].slots

(* The open upvalues point into the stack, one at a slot.                  *)
OpenOK(h, s, op) ==
  /\ op \in [DOMAIN op -> Nat \ {0}]
  /\ \A u \in DOMAIN op : Typed(h, u, "upvalue") /\ op[u] <= Len(s)
  /\ \A u, w \in DOMAIN op : op[u] = op[w] => u = w

GlobalsOK(h, g) == IsTable(g) /\ \A k \in DOMAIN g : k \in DOMAIN h /\ Value(h, g[k])

CompilersOK(h, cs) ==
  cs \in Seq(Obj) /\ \A i \in DOMAIN cs : Typed(h, cs[i], "function")

(* The string that allocate_string has pushed and not interned yet.        *)
Pending == IF c.at = "intern" THEN {Top(stack)} ELSE {}

(* The intern table holds the strings, and no two with the same contents.  *)
(* Once it has been weeded, that is the strings that are marked.           *)
StringsOK ==
  /\ \A s \in strings : Typed(heap, s, "string")
  /\ \A o \in Live : /\ heap[o].type = "string"
                     /\ phase = "sweep" => o \in marked
                     => o \in strings \cup Pending
  /\ \A s, t \in Live : /\ heap[s].type = "string" /\ heap[t].type = "string"
                        /\ heap[s].head = heap[t].head
                        => s = t

Closed(S) == \A o \in S : Pointers(heap[o]) \subseteq S

(* Where the collector stands.  What it has marked so far is in every set  *)
(* that a collector may not free.                                          *)
CollectorOK ==
  /\ phase \in {"mutate", "trace", "sweep"}
  /\ phase = "mutate" => marked = {}
  /\ phase # "trace" => gray = {}
  /\ phase # "mutate" =>
       /\ Roots \subseteq marked /\ marked \subseteq Live /\ gray \subseteq marked
       /\ \A o \in marked \ gray : Pointers(heap[o]) \subseteq marked
       /\ \A S \in SUBSET Live : Roots \subseteq S /\ Closed(S) => marked \subseteq S
  /\ phase = "sweep" => strings \subseteq marked

Sound ==
  /\ WellFormed(heap) /\ StackOK(heap, stack) /\ FramesOK(heap, stack, frames)
  /\ OpenOK(heap, stack, open) /\ GlobalsOK(heap, globals)
  /\ CompilersOK(heap, compilers)
  /\ IsTable(methods) /\ consts \subseteq Obj /\ Typed(heap, init_string, "string")
  /\ StringsOK /\ CollectorOK

(* No variable and no frame needs the stack above index n.                 *)
Below(n) == (\A u \in DOMAIN open : open[u] <= n) /\ (frames # <<>> => Base <= n)

(* n values on the stack are nobody's but the handler's.                   *)
Room(n) == n <= Len(stack) /\ Below(Len(stack) - n)

(* What a handler relies on after an allocation.                           *)
CallOK ==
  /\ c \in [at : {"none", "name", "intern", "constant", "script", "super",
                  "capture", "fill", "exit"},
             next : {"none", "name", "constant", "concat"},
             o : Val, s : {NIL}, n : Nat]
  /\ c.at # "super" => c.o = NIL
  /\ c.at \in {"name", "constant"} => compilers # <<>>
  /\ c.at \in {"constant"} => Room(1)
  /\ c.at = "intern" =>
       /\ Room(1) /\ Typed(heap, Top(stack), "string")
       /\ \/ c.next \in {"name", "constant"} /\ compilers # <<>>
          \/ c.next = "concat" /\ Room(3)
  /\ c.at = "script" => Room(1) /\ Typed(heap, Top(stack), "function")
  /\ c.at = "super" =>
       /\ frames # <<>> /\ Room(1)
       /\ \E u \in Upvalues :
            /\ Is(Location(u), "class")
            /\ \E k \in DOMAIN heap[Location(u)].table : c.o = heap[Location(u)].table[k]
  /\ c.at = "capture" =>
       /\ frames # <<>> /\ Is(Peek(0), "closure")
       /\ c.n \in 1 .. Len(heap[Peek(0)].elems)
  /\ c.at = "fill" => frames # <<>> /\ Room(c.n + 1) /\ Is(Peek(0), "array")

IInv == Sound /\ CallOK
-----------------------------------------------------------------------------
(* Sequences: what Append, Cut and a write in the middle leave.            *)

LEMMA Appended ==
  ASSUME NEW S, NEW s \in Seq(S), NEW v \in S
  PROVE  /\ Append(s, v) \in Seq(S) /\ Len(Append(s, v)) = Len(s) + 1 /\ Len(s) \in Nat
         /\ DOMAIN Append(s, v) = 1 .. Len(s) + 1 /\ DOMAIN s = 1 .. Len(s)
         /\ Append(s, v)[Len(s) + 1] = v /\ Top(Append(s, v)) = v
         /\ \A i \in 1 .. Len(s) : Append(s, v)[i] = s[i]
<1>1. Len(s) \in Nat /\ DOMAIN s = 1 .. Len(s)
  BY LenProperties
<1>2. /\ Append(s, v) \in Seq(S) /\ Len(Append(s, v)) = Len(s) + 1
      /\ \A i \in 1 .. Len(s) : Append(s, v)[i] = s[i]
      /\ Append(s, v)[Len(s) + 1] = v
  BY AppendProperties
<1>3. DOMAIN Append(s, v) = 1 .. Len(s) + 1
  BY <1>2, LenProperties
<1> QED BY <1>1, <1>2, <1>3 DEF Top

LEMMA CutOff ==
  ASSUME NEW S, NEW s \in Seq(S), NEW n \in Nat, n <= Len(s)
  PROVE  /\ Cut(s, n) \in Seq(S) /\ Len(Cut(s, n)) = Len(s) - n /\ Len(s) \in Nat
         /\ DOMAIN Cut(s, n) = 1 .. Len(s) - n /\ DOMAIN s = 1 .. Len(s)
         /\ \A i \in 1 .. Len(s) - n : Cut(s, n)[i] = s[i]
<1>1. Len(s) \in Nat /\ DOMAIN s = 1 .. Len(s)
  BY LenProperties
<1>2. \A i \in 1 .. Len(s) - n : s[i] \in S
  BY <1>1, ElementOfSeq
<1>3. /\ SubSeq(s, 1, Len(s) - n) \in Seq(S)
      /\ Len(SubSeq(s, 1, Len(s) - n)) = Len(s) - n
      /\ \A i \in 1 .. Len(s) - n : SubSeq(s, 1, Len(s) - n)[i] = s[i]
  <2> DEFINE m == Len(s) - n
  <2>1. m \in Nat
    BY <1>1
  <2> HIDE DEF m
  <2>2. /\ SubSeq(s, 1, m) \in Seq(S)
        /\ Len(SubSeq(s, 1, m)) = IF 1 <= m THEN m - 1 + 1 ELSE 0
        /\ \A i \in 1 .. m - 1 + 1 : SubSeq(s, 1, m)[i] = s[1 + i - 1]
    BY <1>2, <2>1, SubSeqProperties DEF m
  <2>3. \A i \in 1 .. m : i \in 1 .. m - 1 + 1 /\ 1 + i - 1 = i
    BY <2>1
  <2> QED BY <2>1, <2>2, <2>3 DEF m
<1>4. DOMAIN SubSeq(s, 1, Len(s) - n) = 1 .. Len(s) - n
  BY <1>3, LenProperties
<1> QED BY <1>1, <1>3, <1>4 DEF Cut

Sub(s, i, v) == [s EXCEPT ![i] = v]

LEMMA Replaced ==
  ASSUME NEW S, NEW s \in Seq(S), NEW v \in S, NEW i \in 1 .. Len(s)
  PROVE  /\ Sub(s, i, v) \in Seq(S) /\ Len(Sub(s, i, v)) = Len(s)
         /\ DOMAIN Sub(s, i, v) = DOMAIN s /\ Sub(s, i, v)[i] = v
         /\ \A j \in DOMAIN s : j # i => Sub(s, i, v)[j] = s[j]
<1>1. Len(s) \in Nat /\ DOMAIN s = 1 .. Len(s) /\ s = [j \in 1 .. Len(s) |-> s[j]]
  BY LenProperties, SeqDef
<1>2. /\ Sub(s, i, v) \in Seq(S) /\ Len(Sub(s, i, v)) = Len(s)
  BY ExceptSeq, <1>1 DEF Sub
<1> QED BY <1>1, <1>2 DEF Sub
-----------------------------------------------------------------------------
(* The stack, as a whole.                                                  *)

LEMMA StackIs ==
  ASSUME NEW h, NEW s, StackOK(h, s)
  PROVE  /\ s \in Seq(Val) /\ Len(s) \in Nat /\ DOMAIN s = 1 .. Len(s)
         /\ \A i \in 1 .. Len(s) : s[i] \in Val /\ Value(h, s[i])
<1>1. s \in Seq(Val)
  BY DEF StackOK
<1>2. Len(s) \in Nat /\ DOMAIN s = 1 .. Len(s) /\ \A i \in DOMAIN s : s[i] \in Val
  BY <1>1, ElementsOfSeq
<1> QED BY <1>1, <1>2 DEF StackOK

LEMMA StackAppend ==
  ASSUME NEW h, NEW s, StackOK(h, s), NEW v \in Val, Value(h, v)
  PROVE  /\ StackOK(h, Append(s, v)) /\ Len(Append(s, v)) = Len(s) + 1 /\ Top(Append(s, v)) = v
         /\ \A i \in 1 .. Len(s) : Append(s, v)[i] = s[i]
<1>1. s \in Seq(Val) /\ DOMAIN s = 1 .. Len(s) /\ \A i \in DOMAIN s : Value(h, s[i])
  BY StackIs DEF StackOK
<1>2. /\ Append(s, v) \in Seq(Val) /\ Len(Append(s, v)) = Len(s) + 1 /\ Len(s) \in Nat
      /\ DOMAIN Append(s, v) = 1 .. Len(s) + 1
      /\ Append(s, v)[Len(s) + 1] = v /\ Top(Append(s, v)) = v
      /\ \A i \in 1 .. Len(s) : Append(s, v)[i] = s[i]
  BY <1>1, Appended
<1>3. ASSUME NEW i \in 1 .. Len(s) + 1 PROVE Value(h, Append(s, v)[i])
  <2>1. i \in 1 .. Len(s) \/ i = Len(s) + 1
    BY <1>2
  <2> QED BY <1>1, <1>2, <2>1
<1> QED BY <1>2, <1>3 DEF StackOK

LEMMA StackCut ==
  ASSUME NEW h, NEW s, StackOK(h, s), NEW n \in Nat, n <= Len(s)
  PROVE  /\ StackOK(h, Cut(s, n)) /\ Len(Cut(s, n)) = Len(s) - n
         /\ \A i \in 1 .. Len(s) - n : Cut(s, n)[i] = s[i]
<1>1. s \in Seq(Val) /\ DOMAIN s = 1 .. Len(s) /\ \A i \in DOMAIN s : Value(h, s[i])
  BY StackIs DEF StackOK
<1>2. /\ Cut(s, n) \in Seq(Val) /\ Len(Cut(s, n)) = Len(s) - n /\ Len(s) \in Nat
      /\ DOMAIN Cut(s, n) = 1 .. Len(s) - n
      /\ \A i \in 1 .. Len(s) - n : Cut(s, n)[i] = s[i]
  BY <1>1, CutOff
<1>3. \A i \in 1 .. Len(s) - n : Value(h, Cut(s, n)[i])
  BY <1>1, <1>2
<1> QED BY <1>2, <1>3 DEF StackOK

(* n values are popped, and their result is pushed.                        *)
LEMMA StackReplace ==
  ASSUME NEW h, NEW s, StackOK(h, s), NEW n \in Nat, n <= Len(s), NEW v \in Val, Value(h, v)
  PROVE  /\ StackOK(h, Append(Cut(s, n), v)) /\ Len(Append(Cut(s, n), v)) = Len(s) - n + 1
         /\ Top(Append(Cut(s, n), v)) = v
         /\ \A i \in 1 .. Len(s) - n : Append(Cut(s, n), v)[i] = s[i]
<1>1. /\ StackOK(h, Cut(s, n)) /\ Len(Cut(s, n)) = Len(s) - n
      /\ \A i \in 1 .. Len(s) - n : Cut(s, n)[i] = s[i]
  BY StackCut
<1> DEFINE r == Cut(s, n)
<1> HIDE DEF r
<1>2. /\ StackOK(h, Append(r, v)) /\ Len(Append(r, v)) = Len(r) + 1 /\ Top(Append(r, v)) = v
      /\ \A i \in 1 .. Len(r) : Append(r, v)[i] = r[i]
  BY <1>1, StackAppend DEF r
<1> QED BY <1>1, <1>2 DEF r

LEMMA StackWrite ==
  ASSUME NEW h, NEW s, StackOK(h, s), NEW i \in 1 .. Len(s), NEW v \in Val, Value(h, v)
  PROVE  StackOK(h, Sub(s, i, v)) /\ Len(Sub(s, i, v)) = Len(s)
<1>1. s \in Seq(Val) /\ \A j \in DOMAIN s : Value(h, s[j])
  BY DEF StackOK
<1>2. /\ Sub(s, i, v) \in Seq(Val) /\ Len(Sub(s, i, v)) = Len(s)
      /\ DOMAIN Sub(s, i, v) = DOMAIN s /\ Sub(s, i, v)[i] = v
      /\ \A j \in DOMAIN s : j # i => Sub(s, i, v)[j] = s[j]
  BY <1>1, Replaced
<1>3. \A j \in DOMAIN s : Value(h, Sub(s, i, v)[j])
  BY <1>1, <1>2
<1> QED BY <1>2, <1>3 DEF StackOK
-----------------------------------------------------------------------------
(* What the VM holds it still holds when the heap keeps it.                *)

LEMMA StackKept ==
  ASSUME NEW S, NEW h, NEW g, NEW s, StackOK(h, s), Kept(S, h, g), DOMAIN h \subseteq Obj,
         Elements(s) \cap Obj \subseteq S
  PROVE  StackOK(g, s)
BY DEF StackOK, Kept, Value, Elements

LEMMA FramesKept ==
  ASSUME NEW S, NEW h, NEW g, NEW s, NEW fs, FramesOK(h, s, fs), Kept(S, h, g),
         {fs[i].closure : i \in DOMAIN fs} \subseteq S
  PROVE  FramesOK(g, s, fs)
BY DEF FramesOK, Kept, Typed

LEMMA OpenKept ==
  ASSUME NEW S, NEW h, NEW g, NEW s, NEW op, OpenOK(h, s, op), Kept(S, h, g), DOMAIN op \subseteq S
  PROVE  OpenOK(g, s, op)
BY DEF OpenOK, Kept, Typed

LEMMA GlobalsKept ==
  ASSUME NEW S, NEW h, NEW g, NEW gl, GlobalsOK(h, gl), Kept(S, h, g), DOMAIN h \subseteq Obj,
         TableRefs(gl) \cap Obj \subseteq S
  PROVE  GlobalsOK(g, gl)
<1>1. \A k \in DOMAIN gl : k \in DOMAIN h /\ Value(h, gl[k])
  BY DEF GlobalsOK
<1>2. \A k \in DOMAIN gl : k \in Obj => k \in S
  BY DEF TableRefs
<1>3. \A k \in DOMAIN gl : gl[k] \in Obj => gl[k] \in S
  BY DEF TableRefs
<1> QED BY <1>1, <1>2, <1>3 DEF GlobalsOK, Kept, Value

LEMMA CompilersKept ==
  ASSUME NEW S, NEW h, NEW g, NEW cs, CompilersOK(h, cs), Kept(S, h, g), Elements(cs) \subseteq S
  PROVE  CompilersOK(g, cs)
BY DEF CompilersOK, Kept, Typed, Elements

(* Frames and open upvalues need the stack up to where they point.         *)
LEMMA FramesFit ==
  ASSUME NEW h, NEW s, NEW r, NEW fs, FramesOK(h, s, fs), Len(r) \in Nat,
         fs # <<>> => fs[Len(fs)].slots <= Len(r)
  PROVE  FramesOK(h, r, fs)
<1>1. fs \in Seq([closure : Obj, slots : Nat \ {0}])
  BY DEF FramesOK
<1>2. /\ Len(fs) \in Nat /\ DOMAIN fs = 1 .. Len(fs)
      /\ \A i \in DOMAIN fs : fs[i] \in [closure : Obj, slots : Nat \ {0}]
  BY <1>1, ElementsOfSeq
<1>3. ASSUME NEW i \in DOMAIN fs PROVE fs[i].slots <= Len(r)
  <2>1. Len(fs) \in DOMAIN fs /\ fs # <<>>
    BY <1>2
  <2>2. i = Len(fs) \/ i < Len(fs)
    BY <1>2
  <2>3. i < Len(fs) => fs[i].slots < fs[Len(fs)].slots
    BY <2>1 DEF FramesOK
  <2>4. fs[i].slots \in Nat /\ fs[Len(fs)].slots \in Nat
    BY <1>2, <2>1
  <2> QED BY <2>1, <2>2, <2>3, <2>4
<1> QED BY <1>3 DEF FramesOK

LEMMA OpenFits ==
  ASSUME NEW h, NEW s, NEW r, NEW op, OpenOK(h, s, op), \A u \in DOMAIN op : op[u] <= Len(r)
  PROVE  OpenOK(h, r, op)
BY DEF OpenOK
-----------------------------------------------------------------------------
(* What the handlers find.                                                 *)

LEMMA ObjectIs ==
  ASSUME NEW h, NEW o \in DOMAIN h, WellFormed(h)
  PROVE  /\ o \in Obj /\ Fits(h, h[o]) /\ h[o].elems \in Seq(Val) /\ IsTable(h[o].table)
         /\ \A i \in DOMAIN h[o].elems : h[o].elems[i] \in Val /\ Value(h, h[o].elems[i])
         /\ \A k \in DOMAIN h[o].table :
              /\ k \in Obj /\ Typed(h, k, "string")
              /\ h[o].table[k] \in Val /\ Value(h, h[o].table[k])
<1> DEFINE q == h[o]
<1>1. o \in Obj /\ Fits(h, q)
  BY DEF WellFormed
<1> HIDE DEF q
<1>2. IsObject(q) /\ Pointers(q) \subseteq DOMAIN h
  BY <1>1 DEF Fits
<1>3. q.elems \in Seq(Val) /\ IsTable(q.table)
  BY <1>2 DEF IsObject
<1>4. ASSUME NEW i \in DOMAIN q.elems PROVE q.elems[i] \in Val /\ Value(h, q.elems[i])
  <2>1. q.elems[i] \in Val /\ q.elems[i] \in Elements(q.elems)
    BY <1>3, ElementsOfSeq DEF Elements
  <2>2. q.elems[i] = NIL \/ q.elems[i] \in Pointers(q)
    BY <2>1, <1>2, PointersAre
  <2> QED BY <2>1, <2>2, <1>2 DEF Value
<1>5. ASSUME NEW k \in DOMAIN q.table
      PROVE  k \in Obj /\ Typed(h, k, "string") /\ q.table[k] \in Val /\ Value(h, q.table[k])
  <2>1. k \in Obj /\ q.table[k] \in Val
    BY <1>3 DEF IsTable
  <2>2. q.table[k] = NIL \/ q.table[k] \in Pointers(q)
    BY <1>2, PointersAre
  <2>3. Typed(h, k, "string")
    BY <1>1 DEF Fits
  <2> QED BY <2>1, <2>2, <2>3, <1>2 DEF Value
<1> QED BY <1>1, <1>3, <1>4, <1>5 DEF q

LEMMA Peeked ==
  ASSUME Sound, NEW n \in Nat, n < Len(stack)
  PROVE  Peek(n) \in Val /\ Value(heap, Peek(n))
<1>1. /\ Len(stack) \in Nat
      /\ \A i \in 1 .. Len(stack) : stack[i] \in Val /\ Value(heap, stack[i])
  BY StackIs DEF Sound
<1>2. Len(stack) - n \in 1 .. Len(stack)
  BY <1>1
<1> QED BY <1>1, <1>2 DEF Peek

(* The frame that runs.                                                    *)
LEMMA FrameIs ==
  ASSUME Sound, frames # <<>>
  PROVE  /\ Len(frames) \in Nat \ {0} /\ DOMAIN frames = 1 .. Len(frames)
         /\ Base \in Nat \ {0} /\ Base <= Len(stack) /\ Len(stack) \in Nat
         /\ Typed(heap, Closure, "closure") /\ Closure \in Obj
<1>1. frames \in Seq([closure : Obj, slots : Nat \ {0}])
  BY DEF Sound, FramesOK
<1>2. /\ Len(frames) \in Nat \ {0} /\ DOMAIN frames = 1 .. Len(frames)
      /\ \A i \in DOMAIN frames : frames[i] \in [closure : Obj, slots : Nat \ {0}]
  BY <1>1, ElementsOfSeq, EmptySeq
<1>3. Len(frames) \in DOMAIN frames
  BY <1>2
<1>4. Typed(heap, frames[Len(frames)].closure, "closure") /\ frames[Len(frames)].slots <= Len(stack)
  BY <1>3 DEF Sound, FramesOK
<1>5. Len(stack) \in Nat
  BY StackIs DEF Sound
<1> QED BY <1>2, <1>3, <1>4, <1>5 DEF Base, Closure, Top

LEMMA ConstantsAre ==
  ASSUME Sound, frames # <<>>, NEW k \in Constants
  PROVE  k \in Val /\ Value(heap, k)
<1>1. Typed(heap, Closure, "closure") /\ WellFormed(heap)
  BY FrameIs DEF Sound
<1>2. Typed(heap, heap[Closure].head, "function")
  BY <1>1 DEF WellFormed, Fits, Typed
<1>3. heap[Closure].head \in DOMAIN heap
  BY <1>2 DEF Typed
<1>4. \E i \in DOMAIN heap[heap[Closure].head].elems : k = heap[heap[Closure].head].elems[i]
  BY DEF Constants, Elements
<1> QED BY <1>1, <1>3, <1>4, ObjectIs

LEMMA UpvaluesAre ==
  ASSUME Sound, frames # <<>>, NEW u \in Upvalues
  PROVE  Typed(heap, u, "upvalue") /\ Location(u) \in Val /\ Value(heap, Location(u))
<1>1. Typed(heap, Closure, "closure") /\ WellFormed(heap)
  BY FrameIs DEF Sound
<1>2. u \in Elements(heap[Closure].elems) /\ u # NIL
  BY DEF Upvalues
<1>3. Typed(heap, u, "upvalue")
  BY <1>1, <1>2 DEF WellFormed, Fits, Typed
<1>4. CASE u \in DOMAIN open
  <2>1. open[u] \in Nat \ {0} /\ open[u] <= Len(stack)
    BY <1>4 DEF Sound, OpenOK
  <2>2. /\ Len(stack) \in Nat
        /\ \A i \in 1 .. Len(stack) : stack[i] \in Val /\ Value(heap, stack[i])
    BY StackIs DEF Sound
  <2>3. open[u] \in 1 .. Len(stack)
    BY <2>1, <2>2
  <2> QED BY <1>3, <1>4, <2>2, <2>3 DEF Location
<1>5. CASE u \notin DOMAIN open
  <2>1. IsObject(heap[u]) /\ Shaped(heap[u]) /\ Pointers(heap[u]) \subseteq DOMAIN heap
    BY <1>1, <1>3 DEF WellFormed, Fits, Typed
  <2>2. heap[u].head \in Val
    BY <1>3, <2>1 DEF Shaped, Typed
  <2>3. Value(heap, heap[u].head)
    BY <2>1, <2>2, PointersAre DEF Value, Val
  <2> QED BY <1>3, <1>5, <2>2, <2>3 DEF Location
<1> QED BY <1>4, <1>5
-----------------------------------------------------------------------------
(* Steps of the program.                                                   *)

LEMMA ProgramStep ==
  ASSUME Sound, phase = "mutate", WellFormed(heap'), Kept(DOMAIN heap, heap, heap'),
         StackOK(heap', stack'), FramesOK(heap', stack', frames'),
         OpenOK(heap', stack', open'), GlobalsOK(heap', globals'),
         CompilersOK(heap', compilers'), consts' \subseteq Obj, StringsOK',
         UNCHANGED <<methods, collector>>
  PROVE  Sound'
<1>1. Typed(heap', init_string, "string") /\ IsTable(methods')
  BY DEF Sound, Kept, Typed
<1>2. CollectorOK'
  BY DEF Sound, CollectorOK, collector
<1> QED BY <1>1, <1>2 DEF Sound

(* A handler that makes no string.                                         *)
LEMMA MutatorStep ==
  ASSUME Sound, phase = "mutate", c.at # "intern", Evolves(heap, heap'),
         StackOK(heap', stack'), FramesOK(heap', stack', frames'),
         OpenOK(heap', stack', open'), GlobalsOK(heap', globals'),
         CompilersOK(heap', compilers'), consts' \subseteq Obj, c'.at # "intern",
         UNCHANGED <<strings, methods, collector>>
  PROVE  Sound'
<1>1. /\ WellFormed(heap') /\ Kept(DOMAIN heap, heap, heap')
      /\ \A p \in DOMAIN heap' : heap'[p].type = "string" => p \in DOMAIN heap /\ heap'[p] = heap[p]
  BY DEF Evolves
<1>2. StringsOK'
  <2>1. \A s \in strings : Typed(heap', s, "string")
    BY <1>1 DEF Sound, StringsOK, Kept, Typed
  <2>2. ASSUME NEW o \in DOMAIN heap', heap'[o].type = "string" PROVE o \in strings
    BY <1>1, <2>2 DEF Sound, StringsOK, Pending, Live
  <2>3. ASSUME NEW s \in DOMAIN heap', NEW t \in DOMAIN heap', heap'[s].type = "string",
               heap'[t].type = "string", heap'[s].head = heap'[t].head
        PROVE  s = t
    BY <1>1, <2>3 DEF Sound, StringsOK, Live
  <2> QED BY <2>1, <2>2, <2>3 DEF StringsOK, Live
<1> QED BY <1>1, <1>2, ProgramStep

LEMMA RestKept ==
  ASSUME Sound, Kept(DOMAIN heap, heap, heap')
  PROVE  /\ StackOK(heap', stack) /\ FramesOK(heap', stack, frames)
         /\ OpenOK(heap', stack, open) /\ GlobalsOK(heap', globals)
         /\ CompilersOK(heap', compilers) /\ consts \subseteq Obj
         /\ \A v : Value(heap, v) => Value(heap', v)
         /\ \A v, t : Typed(heap, v, t) => Typed(heap', v, t)
<1>1. DOMAIN heap \subseteq Obj
  BY DEF Sound, WellFormed
<1>2. FramesOK(heap', stack, frames)
  <2>1. {frames[i].closure : i \in DOMAIN frames} \subseteq DOMAIN heap
    BY DEF Sound, FramesOK, Typed
  <2> QED BY <2>1, FramesKept DEF Sound
<1>3. OpenOK(heap', stack, open)
  <2>1. DOMAIN open \subseteq DOMAIN heap
    BY DEF Sound, OpenOK, Typed
  <2> QED BY <2>1, OpenKept DEF Sound
<1>4. GlobalsOK(heap', globals)
  <2>1. TableRefs(globals) \cap Obj \subseteq DOMAIN heap
    BY HeapAssumption DEF Sound, GlobalsOK, TableRefs, Value
  <2> QED BY <1>1, <2>1, GlobalsKept DEF Sound
<1>5. CompilersOK(heap', compilers)
  <2>1. Elements(compilers) \subseteq DOMAIN heap
    BY DEF Sound, CompilersOK, Typed, Elements
  <2> QED BY <2>1, CompilersKept DEF Sound
<1>6. \A v : Value(heap, v) => Value(heap', v)
  BY DEF Value, Kept
<1>7. \A v, t : Typed(heap, v, t) => Typed(heap', v, t)
  BY DEF Typed, Kept
<1>8. StackOK(heap', stack)
  BY <1>6 DEF Sound, StackOK
<1> QED BY <1>2, <1>3, <1>4, <1>5, <1>6, <1>7, <1>8 DEF Sound

(* Frames and open upvalues when the stack has grown or shrunk.            *)
LEMMA BelowFits ==
  ASSUME Sound, Kept(DOMAIN heap, heap, heap'), StackOK(heap', stack'), Below(Len(stack'))
  PROVE  FramesOK(heap', stack', frames) /\ OpenOK(heap', stack', open)
<1>1. FramesOK(heap', stack', frames)
  <2>1. Len(stack') \in Nat /\ (frames # <<>> => frames[Len(frames)].slots <= Len(stack'))
    BY StackIs DEF Below, Base, Top
  <2> QED BY <2>1, RestKept, FramesFit
<1>2. OpenOK(heap', stack', open)
  BY RestKept, OpenFits DEF Below
<1> QED BY <1>1, <1>2

LEMMA RestEvolves ==
  ASSUME Sound, Evolves(heap, heap')
  PROVE  GlobalsOK(heap', globals) /\ CompilersOK(heap', compilers) /\ consts \subseteq Obj
BY RestKept DEF Evolves

(* Nothing but the stack and the heap changes.                             *)
LEMMA StackStep ==
  ASSUME Sound, phase = "mutate", c.at # "intern", Evolves(heap, heap'),
         StackOK(heap', stack'), Below(Len(stack')), c'.at # "intern",
         UNCHANGED <<strings, frames, open, globals, methods, consts, compilers, collector>>
  PROVE  Sound'
<1>1. Kept(DOMAIN heap, heap, heap')
  BY DEF Evolves
<1>2. FramesOK(heap', stack', frames) /\ OpenOK(heap', stack', open)
  BY <1>1, BelowFits
<1>3. GlobalsOK(heap', globals) /\ CompilersOK(heap', compilers) /\ consts \subseteq Obj
  BY RestEvolves
<1> QED BY <1>2, <1>3, MutatorStep

(* A handler that needs nothing afterwards.                                *)
LEMMA DoneCall ==
  ASSUME c' = NoCall
  PROVE  CallOK' /\ c'.at # "intern"
<1>1. c' = [at |-> "none", next |-> "none", o |-> NIL, s |-> NIL, n |-> 0]
  BY DEF NoCall
<1> QED BY <1>1 DEF CallOK, Val

LEMMA QuietCall ==
  ASSUME CallOK, c.at = "none", UNCHANGED c
  PROVE  CallOK' /\ c'.at # "intern"
BY DEF CallOK

LEMMA AtIs ==
  ASSUME NEW l
  PROVE  At(l) = [at |-> l, next |-> "none", o |-> NIL, s |-> NIL, n |-> 0]
BY DEF At, NoCall

(* In a heap that only grew, what was on the stack is still there.         *)
LEMMA StackEvolves ==
  ASSUME Sound, Evolves(heap, heap')
  PROVE  /\ StackOK(heap', stack) /\ \A v : Value(heap, v) => Value(heap', v)
         /\ \A v, t : Typed(heap, v, t) => Typed(heap', v, t)
BY RestKept DEF Evolves

(* More room than before is room enough, and so is what Temporary found.   *)
LEMMA BelowMore ==
  ASSUME Sound, NEW n \in Nat, NEW m \in Nat, Below(n), n <= m
  PROVE  Below(m)
<1>1. \A u \in DOMAIN open : open[u] \in Nat
  BY DEF Sound, OpenOK
<1>2. frames # <<>> => Base \in Nat
  BY FrameIs
<1> QED BY <1>1, <1>2 DEF Below

LEMMA BelowTop ==
  ASSUME Sound
  PROVE  Len(stack) \in Nat /\ Below(Len(stack))
<1>1. Len(stack) \in Nat
  BY StackIs DEF Sound
<1>2. \A u \in DOMAIN open : open[u] <= Len(stack)
  BY DEF Sound, OpenOK
<1>3. frames # <<>> => Base <= Len(stack)
  BY FrameIs
<1> QED BY <1>1, <1>2, <1>3 DEF Below

LEMMA TemporaryIsRoom ==
  ASSUME Sound, frames # <<>>, NEW n \in Nat, Temporary(n)
  PROVE  /\ Len(stack) \in Nat /\ n < Len(stack) /\ Below(Len(stack) - n)
         /\ Len(stack) - n \in Nat /\ Base <= Len(stack) - n
<1>1. Base \in Nat \ {0} /\ Len(stack) \in Nat
  BY FrameIs
<1>2. Len(stack) - Base >= n /\ \A s \in Captured : s <= Len(stack) - n
  BY DEF Temporary
<1>3. \A u \in DOMAIN open : open[u] <= Len(stack) - n
  BY <1>2 DEF Captured
<1>4. Base <= Len(stack) - n
  BY <1>1, <1>2
<1> QED BY <1>1, <1>3, <1>4 DEF Below

LEMMA HeapStays ==
  ASSUME Sound, heap' = heap
  PROVE  Evolves(heap, heap')
BY SameEvolves DEF Sound

LEMMA PushStep ==
  ASSUME IInv, Idle, NEW v \in Val, Value(heap, v), Push(v)
  PROVE  IInv'
<1>1. Sound /\ CallOK /\ phase = "mutate" /\ c.at = "none"
  BY DEF IInv, Idle
<1>2. /\ stack' = Append(stack, v) /\ heap' = heap /\ c' = c
      /\ UNCHANGED <<strings, frames, open, globals, methods, consts, compilers, collector>>
  BY DEF Push
<1>3. Evolves(heap, heap')
  BY <1>1, <1>2, HeapStays
<1>4. StackOK(heap', stack') /\ Len(stack') = Len(stack) + 1
  BY <1>1, <1>2, StackAppend DEF Sound
<1>5. Below(Len(stack'))
  <2>1. Len(stack) \in Nat /\ Below(Len(stack))
    BY <1>1, BelowTop
  <2> QED BY <1>1, <1>4, <2>1, BelowMore
<1>6. CallOK' /\ c'.at # "intern"
  BY <1>1, <1>2, QuietCall
<1>7. Sound'
  BY <1>1, <1>2, <1>3, <1>4, <1>5, <1>6, StackStep
<1> QED BY <1>6, <1>7 DEF IInv

LEMMA PushConstantStep == ASSUME IInv, PushConstant PROVE IInv'
<1>1. Idle /\ frames # <<>> /\ Sound
  BY DEF PushConstant, Running, IInv
<1>2. PICK v \in {k \in Constants : Is(k, "string")} \cup {NIL} : Push(v)
  BY DEF PushConstant
<1>3. v \in Val /\ Value(heap, v)
  BY <1>1, ConstantsAre, Blank
<1> QED BY <1>1, <1>2, <1>3, PushStep

LEMMA GetLocalStep == ASSUME IInv, GetLocal PROVE IInv'
<1>1. Idle /\ frames # <<>> /\ Sound
  BY DEF GetLocal, Running, IInv
<1>2. PICK i \in Locals : Push(stack[i])
  BY DEF GetLocal
<1>3. Len(stack) \in Nat /\ \A j \in 1 .. Len(stack) : stack[j] \in Val /\ Value(heap, stack[j])
  BY <1>1, StackIs DEF Sound
<1>4. i \in 1 .. Len(stack)
  BY <1>1, <1>3, FrameIs DEF Locals
<1> QED BY <1>1, <1>2, <1>3, <1>4, PushStep

LEMMA GetGlobalStep == ASSUME IInv, GetGlobal PROVE IInv'
<1>1. Idle /\ Sound
  BY DEF GetGlobal, Running, IInv
<1>2. PICK k \in Constants \cap DOMAIN globals : Push(globals[k])
  BY DEF GetGlobal
<1>3. globals[k] \in Val /\ Value(heap, globals[k])
  BY <1>1, <1>2 DEF Sound, GlobalsOK, IsTable
<1> QED BY <1>1, <1>2, <1>3, PushStep

LEMMA GetUpvalueStep == ASSUME IInv, GetUpvalue PROVE IInv'
<1>1. Idle /\ frames # <<>> /\ Sound
  BY DEF GetUpvalue, Running, IInv
<1>2. PICK u \in Upvalues : Push(Location(u))
  BY DEF GetUpvalue
<1>3. Location(u) \in Val /\ Value(heap, Location(u))
  BY <1>1, UpvaluesAre
<1> QED BY <1>1, <1>2, <1>3, PushStep

(* n temporaries are popped, and v is pushed.                              *)
LEMMA ReplaceStep ==
  ASSUME IInv, Idle, frames # <<>>, NEW n \in Nat, Temporary(n),
         Evolves(heap, heap'), NEW v \in Val, Value(heap', v),
         stack' = Append(Cut(stack, n), v),
         CallOK', c'.at # "intern",
         UNCHANGED <<strings, frames, open, globals, methods, consts, compilers, collector>>
  PROVE  IInv'
<1>1. Sound /\ phase = "mutate" /\ c.at = "none"
  BY DEF IInv, Idle
<1>2. n < Len(stack) /\ Below(Len(stack) - n) /\ Len(stack) \in Nat /\ Len(stack) - n \in Nat
  BY <1>1, TemporaryIsRoom
<1>3. StackOK(heap', stack)
  BY <1>1, StackEvolves
<1>4. StackOK(heap', stack') /\ Len(stack') = Len(stack) - n + 1
  BY <1>2, <1>3, StackReplace
<1>5. Below(Len(stack'))
  BY <1>1, <1>2, <1>4, BelowMore
<1> QED BY <1>1, <1>4, <1>5, StackStep DEF IInv

(* n temporaries are popped.                                               *)
LEMMA PopStep ==
  ASSUME IInv, Idle, frames # <<>>, NEW n \in Nat, Temporary(n),
         Evolves(heap, heap'), stack' = Cut(stack, n), CallOK', c'.at # "intern",
         UNCHANGED <<strings, frames, open, globals, methods, consts, compilers, collector>>
  PROVE  IInv'
<1>1. Sound /\ phase = "mutate" /\ c.at = "none"
  BY DEF IInv, Idle
<1>2. n < Len(stack) /\ Below(Len(stack) - n) /\ Len(stack) \in Nat /\ Len(stack) - n \in Nat
  BY <1>1, TemporaryIsRoom
<1>3. StackOK(heap', stack)
  BY <1>1, StackEvolves
<1>4. StackOK(heap', stack') /\ Len(stack') = Len(stack) - n
  BY <1>2, <1>3, StackCut
<1>5. Below(Len(stack'))
  BY <1>2, <1>4
<1> QED BY <1>1, <1>4, <1>5, StackStep DEF IInv

LEMMA PopsStep == ASSUME IInv, Pop \/ Binary PROVE IInv'
<1>1. Idle /\ frames # <<>> /\ Sound /\ CallOK /\ c.at = "none"
  BY DEF Pop, Binary, Running, IInv, Idle
<1>2. /\ heap' = heap /\ c' = c
      /\ UNCHANGED <<strings, frames, open, globals, methods, consts, compilers, collector>>
  BY DEF Pop, Binary
<1>3. Evolves(heap, heap') /\ CallOK' /\ c'.at # "intern"
  BY <1>1, <1>2, HeapStays, QuietCall
<1>4. CASE Temporary(1) /\ stack' = Cut(stack, 1)
  BY <1>1, <1>2, <1>3, <1>4, PopStep
<1>5. CASE Temporary(2) /\ stack' = Append(Cut(stack, 2), NIL)
  BY <1>1, <1>2, <1>3, <1>5, Blank, ReplaceStep
<1> QED BY <1>4, <1>5 DEF Pop, Binary

LEMMA SetLocalStep == ASSUME IInv, SetLocal PROVE IInv'
<1>1. Idle /\ frames # <<>> /\ Sound /\ CallOK /\ c.at = "none" /\ phase = "mutate"
  BY DEF SetLocal, Running, IInv, Idle
<1>2. /\ heap' = heap /\ c' = c
      /\ UNCHANGED <<strings, frames, open, globals, methods, consts, compilers, collector>>
  BY DEF SetLocal
<1>3. Evolves(heap, heap') /\ CallOK' /\ c'.at # "intern"
  BY <1>1, <1>2, HeapStays, QuietCall
<1>4. PICK i \in Base + 1 .. Len(stack) : stack' = [stack EXCEPT ![i] = Peek(0)]
  BY DEF SetLocal
<1>5. i \in 1 .. Len(stack) /\ 0 < Len(stack)
  BY <1>1, FrameIs
<1>6. Peek(0) \in Val /\ Value(heap, Peek(0))
  BY <1>1, <1>5, Peeked
<1>7. StackOK(heap', stack') /\ Len(stack') = Len(stack)
  <2> DEFINE v == Peek(0)
  <2>1. stack' = Sub(stack, i, v) /\ v \in Val /\ Value(heap, v) /\ StackOK(heap, stack)
    BY <1>1, <1>4, <1>6 DEF Sound, Sub
  <2> HIDE DEF v
  <2> QED BY <1>2, <1>5, <2>1, StackWrite
<1>8. Below(Len(stack'))
  BY <1>1, <1>7, BelowTop
<1> QED BY <1>1, <1>2, <1>3, <1>7, <1>8, StackStep DEF IInv

LEMMA SetUpvalueStep == ASSUME IInv, SetUpvalue PROVE IInv'
<1>1. Idle /\ frames # <<>> /\ Sound /\ CallOK /\ c.at = "none" /\ phase = "mutate"
  BY DEF SetUpvalue, Running, IInv, Idle
<1>2. /\ c' = c
      /\ UNCHANGED <<strings, frames, open, globals, methods, consts, compilers, collector>>
  BY DEF SetUpvalue
<1>3. CallOK' /\ c'.at # "intern"
  BY <1>1, <1>2, QuietCall
<1>4. PICK u \in Upvalues :
        IF u \in DOMAIN open
        THEN stack' = [stack EXCEPT ![open[u]] = Peek(0)] /\ UNCHANGED heap
        ELSE heap' = [heap EXCEPT ![u].head = Peek(0)] /\ UNCHANGED stack
  BY DEF SetUpvalue
<1>5. Typed(heap, u, "upvalue") /\ Peek(0) \in Val /\ Value(heap, Peek(0))
  <2>1. Len(stack) \in Nat /\ 0 < Len(stack)
    BY <1>1, FrameIs
  <2> QED BY <1>1, <2>1, Peeked, UpvaluesAre
<1>6. CASE u \in DOMAIN open
  <2>1. stack' = [stack EXCEPT ![open[u]] = Peek(0)] /\ heap' = heap
    BY <1>4, <1>6
  <2>2. open[u] \in 1 .. Len(stack)
    BY <1>1, <1>6, BelowTop DEF Sound, OpenOK
  <2>3. StackOK(heap', stack') /\ Len(stack') = Len(stack)
    <3> DEFINE v == Peek(0)
               i == open[u]
    <3>1. /\ stack' = Sub(stack, i, v) /\ v \in Val /\ Value(heap, v)
          /\ StackOK(heap, stack) /\ i \in 1 .. Len(stack) /\ heap' = heap
      BY <1>1, <1>5, <2>1, <2>2 DEF Sound, Sub
    <3> HIDE DEF v, i
    <3> QED BY <3>1, StackWrite
  <2>4. Evolves(heap, heap') /\ Below(Len(stack'))
    BY <1>1, <2>1, <2>3, HeapStays, BelowTop
  <2> QED BY <1>1, <1>2, <1>3, <2>3, <2>4, StackStep DEF IInv
<1>7. CASE u \notin DOMAIN open
  <2>1. heap' = [heap EXCEPT ![u].head = Peek(0)] /\ stack' = stack
    BY <1>4, <1>7
  <2> DEFINE v == Peek(0)
             r == WithHead(heap[u], v)
  <2>2. u \in DOMAIN heap /\ heap[u].type = "upvalue" /\ u \in Obj /\ WellFormed(heap)
    BY <1>1, <1>5 DEF Typed, Sound, WellFormed
  <2>3. heap' = Write(heap, u, r) /\ Fits(heap, r) /\ r.type = heap[u].type
    <3>1. heap' = Write(heap, u, r) /\ v \in Val /\ Value(heap, v)
      BY <1>5, <2>1, <2>2 DEF Write, WithHead, WellFormed
    <3> HIDE DEF v
    <3> QED BY <2>2, <3>1, HeadWritten
  <2> HIDE DEF r
  <2>4. Evolves(heap, heap')
    BY <2>2, <2>3, WriteEvolves
  <2>5. StackOK(heap', stack') /\ Below(Len(stack'))
    BY <1>1, <2>1, <2>4, StackEvolves, BelowTop
  <2> QED BY <1>1, <1>2, <1>3, <2>4, <2>5, StackStep DEF IInv
<1> QED BY <1>6, <1>7

(* A global is written, and n temporaries are popped.                      *)
LEMMA GlobalStep ==
  ASSUME IInv, Idle, frames # <<>>, NEW n \in Nat, Temporary(n), stack' = Cut(stack, n),
         NEW k, Is(k, "string") \/ k \in DOMAIN globals, globals' = With(globals, k, Peek(0)),
         UNCHANGED <<heap, strings, frames, open, methods, consts, compilers, c, collector>>
  PROVE  IInv'
<1>1. Sound /\ CallOK /\ c.at = "none" /\ phase = "mutate"
  BY DEF IInv, Idle
<1>2. Evolves(heap, heap') /\ CallOK' /\ c'.at # "intern"
  BY <1>1, HeapStays, QuietCall
<1>3. n < Len(stack) /\ Below(Len(stack) - n) /\ Len(stack) \in Nat /\ Len(stack) - n \in Nat
  BY <1>1, TemporaryIsRoom
<1>4. StackOK(heap, stack') /\ Len(stack') = Len(stack) - n
  BY <1>1, <1>3, StackCut DEF Sound
<1>5. FramesOK(heap, stack', frames) /\ OpenOK(heap, stack', open)
  <2>1. Len(stack') \in Nat /\ (frames # <<>> => frames[Len(frames)].slots <= Len(stack'))
    BY <1>3, <1>4 DEF Below, Base, Top
  <2>2. \A u \in DOMAIN open : open[u] <= Len(stack')
    BY <1>3, <1>4 DEF Below
  <2> QED BY <1>1, <2>1, <2>2, FramesFit, OpenFits DEF Sound
<1>6. GlobalsOK(heap, globals')
  <2>1. Peek(0) \in Val /\ Value(heap, Peek(0))
    <3>1. 0 < Len(stack)
      BY <1>3
    <3> QED BY <1>1, <3>1, Peeked
  <2>2. k \in Obj /\ k \in DOMAIN heap /\ IsTable(globals)
    BY <1>1 DEF Is, Live, Sound, WellFormed, GlobalsOK
  <2>3. /\ IsTable(globals') /\ DOMAIN globals' = DOMAIN globals \cup {k}
        /\ globals'[k] = Peek(0) /\ \A l \in DOMAIN globals : l # k => globals'[l] = globals[l]
    <3> DEFINE v == Peek(0)
               g == With(globals, k, v)
    <3>1. k \in Obj /\ v \in Val /\ IsTable(globals)
      BY <2>1, <2>2
    <3> HIDE DEF v
    <3>2. /\ IsTable(g) /\ DOMAIN g = DOMAIN globals \cup {k}
          /\ g[k] = v /\ \A l \in DOMAIN globals : l # k => g[l] = globals[l]
      BY <3>1, TableWith
    <3>3. globals' = g
      BY DEF v
    <3> HIDE DEF g
    <3> QED BY <3>2, <3>3 DEF v
  <2> QED BY <1>1, <2>1, <2>2, <2>3 DEF GlobalsOK, Sound
<1> QED BY <1>1, <1>2, <1>4, <1>5, <1>6, MutatorStep DEF IInv, Sound

LEMMA DefineGlobalStep == ASSUME IInv, DefineGlobal PROVE IInv'
<1>1. PICK k \in Constants : Is(k, "string") /\ globals' = With(globals, k, Peek(0))
  BY DEF DefineGlobal
<1> QED BY <1>1, GlobalStep DEF DefineGlobal, Running

LEMMA SetGlobalStep == ASSUME IInv, SetGlobal PROVE IInv'
<1>1. PICK k \in Constants \cap DOMAIN globals : globals' = With(globals, k, Peek(0))
  BY DEF SetGlobal
<1>2. Idle /\ frames # <<>> /\ Sound
  BY DEF SetGlobal, Running, IInv
<1>3. Temporary(0) /\ Cut(stack, 0) = stack
  <2>1. Base \in Nat /\ Base <= Len(stack) /\ Len(stack) \in Nat
    BY <1>2, FrameIs
  <2>2. \A s \in Captured : s \in Nat /\ s <= Len(stack)
    BY <1>2 DEF Captured, Sound, OpenOK
  <2>3. SubSeq(stack, 1, Len(stack)) = stack
    BY <1>2, SubSeqFull DEF Sound, StackOK
  <2> QED BY <2>1, <2>2, <2>3 DEF Temporary, Cut
<1> QED BY <1>1, <1>2, <1>3, GlobalStep DEF SetGlobal
-----------------------------------------------------------------------------
(* Objects, made and written.                                              *)

LEMMA PutEvolves ==
  ASSUME Sound, NEW o \in Free, NEW r, Fits(heap, r), r.type # "string", heap' = Put(o, r)
  PROVE  /\ Evolves(heap, heap') /\ o \in Obj /\ o \in Val /\ Value(heap', o) /\ heap'[o] = r
         /\ Typed(heap', o, r.type) /\ \A p \in DOMAIN heap : heap'[p] = heap[p]
         /\ DOMAIN heap' = DOMAIN heap \cup {o} /\ o \notin DOMAIN heap
<1>1. o \in Obj /\ o \notin DOMAIN heap /\ WellFormed(heap)
  BY DEF Free, Live, Sound
<1>2. heap' = Write(heap, o, r)
  BY DEF Put, Write, Live
<1>3. /\ Evolves(heap, heap') /\ DOMAIN heap' = DOMAIN heap \cup {o} /\ heap'[o] = r
      /\ \A p \in DOMAIN heap : p # o => heap'[p] = heap[p]
  <2>1. o \in DOMAIN heap => r.type = heap[o].type
    BY <1>1
  <2>2. Evolves(heap, Write(heap, o, r))
    BY <1>1, <2>1, WriteEvolves
  <2> QED BY <1>2, <2>2 DEF Write
<1> QED BY <1>1, <1>3 DEF Val, Value, Typed

LEMMA UpdateEvolves ==
  ASSUME Sound, NEW o \in DOMAIN heap, NEW r, Fits(heap, r), r.type = heap[o].type,
         r.type # "string", heap' = Write(heap, o, r)
  PROVE  /\ Evolves(heap, heap') /\ DOMAIN heap' = DOMAIN heap /\ heap'[o] = r
         /\ \A p \in DOMAIN heap : p # o => heap'[p] = heap[p]
<1>1. o \in Obj /\ WellFormed(heap)
  BY DEF Sound, WellFormed
<1>2. Evolves(heap, heap')
  BY <1>1, WriteEvolves
<1> QED BY <1>2 DEF Write

LEMMA ClassIs ==
  ASSUME Sound, NEW v, Is(v, "class")
  PROVE  /\ v \in DOMAIN heap /\ IsTable(heap[v].table)
         /\ \A k \in DOMAIN heap[v].table :
              /\ k \in Obj /\ Typed(heap, k, "string")
              /\ heap[v].table[k] \in Obj /\ Typed(heap, heap[v].table[k], "closure")
<1>1. v \in DOMAIN heap /\ heap[v].type = "class" /\ WellFormed(heap)
  BY DEF Is, Live, Sound
<1>2. \A k \in DOMAIN heap[v].table : Typed(heap, heap[v].table[k], "closure")
  BY <1>1 DEF WellFormed, Fits
<1>3. \A u : u \in DOMAIN heap => u \in Obj
  BY <1>1 DEF WellFormed
<1>4. \A k \in DOMAIN heap[v].table : heap[v].table[k] \in Obj
  BY <1>2, <1>3 DEF Typed
<1> QED BY <1>1, <1>2, <1>4, ObjectIs

LEMMA InstanceIs ==
  ASSUME Sound, NEW v, Is(v, "instance")
  PROVE  v \in DOMAIN heap /\ Is(heap[v].head, "class") /\ heap[v].type = "instance"
<1>1. v \in DOMAIN heap /\ heap[v].type = "instance" /\ WellFormed(heap)
  BY DEF Is, Live, Sound
<1> QED BY <1>1 DEF WellFormed, Fits, Typed, Is, Live

LEMMA BoundIs ==
  ASSUME Sound, NEW v, Is(v, "bound")
  PROVE  /\ v \in DOMAIN heap /\ Typed(heap, heap[v].head, "closure") /\ heap[v].head \in Obj
         /\ heap[v].elems[1] \in Val /\ Value(heap, heap[v].elems[1])
<1>1. v \in DOMAIN heap /\ heap[v].type = "bound" /\ WellFormed(heap)
  BY DEF Is, Live, Sound
<1>2. Typed(heap, heap[v].head, "closure") /\ Shaped(heap[v])
  BY <1>1 DEF WellFormed, Fits
<1>3. Len(heap[v].elems) = 1 /\ heap[v].head \in Obj
  BY <1>1, <1>2 DEF Shaped
<1>4. heap[v].elems \in Seq(Val)
  BY <1>1, ObjectIs
<1>5. 1 \in DOMAIN heap[v].elems
  BY <1>3, <1>4, ElementsOfSeq
<1> QED BY <1>1, <1>2, <1>3, <1>5, ObjectIs

LEMMA GetFieldStep == ASSUME IInv, NEW pops \in {0, 1}, GetField(pops) PROVE IInv'
<1>1. Idle /\ frames # <<>> /\ Sound /\ CallOK /\ c.at = "none" /\ phase = "mutate"
  BY DEF GetField, Running, IInv, Idle
<1>2. /\ heap' = heap /\ c' = c
      /\ UNCHANGED <<strings, frames, open, globals, methods, consts, compilers, collector>>
  BY DEF GetField
<1>3. Evolves(heap, heap') /\ CallOK' /\ c'.at # "intern"
  BY <1>1, <1>2, HeapStays, QuietCall
<1>4. PICK k \in Constants \cap DOMAIN heap[Peek(0)].table :
        stack' = Append(Cut(stack, pops), heap[Peek(0)].table[k])
  BY DEF GetField
<1>5. heap[Peek(0)].table[k] \in Val /\ Value(heap, heap[Peek(0)].table[k])
  BY <1>1, ObjectIs DEF GetField, Is, Live, Sound
<1>6. /\ 1 < Len(stack) /\ Below(Len(stack) - 1) /\ Len(stack) \in Nat /\ Len(stack) - 1 \in Nat
      /\ pops \in Nat /\ pops <= Len(stack)
  BY <1>1, TemporaryIsRoom DEF GetField
<1>7. StackOK(heap', stack') /\ Len(stack') = Len(stack) - pops + 1
  BY <1>1, <1>2, <1>4, <1>5, <1>6, StackReplace DEF Sound
<1>8. Below(Len(stack'))
  BY <1>1, <1>6, <1>7, BelowMore
<1> QED BY <1>1, <1>2, <1>3, <1>7, <1>8, StackStep DEF IInv

(* A bound method replaces the receiver.                                   *)
LEMMA BindStep ==
  ASSUME IInv, phase = "mutate", c.at # "intern", frames # <<>>, 1 <= Len(stack),
         Below(Len(stack) - 1), NEW o \in Free,
         NEW m \in Obj, Typed(heap, m, "closure"), heap' = Put(o, MkBound(Peek(0), m)),
         stack' = Append(Cut(stack, 1), o), CallOK', c'.at # "intern",
         UNCHANGED <<strings, frames, open, globals, methods, consts, compilers, collector>>
  PROVE  IInv'
<1>1. Sound /\ Len(stack) \in Nat
  BY BelowTop DEF IInv
<1>2. Peek(0) \in Val /\ Value(heap, Peek(0))
  BY <1>1, Peeked
<1> DEFINE r == MkBound(Peek(0), m)
<1>3. Fits(heap, r) /\ r.type = "bound"
  BY <1>2, NewBound
<1> HIDE DEF r
<1>4. Evolves(heap, heap') /\ o \in Val /\ Value(heap', o)
  BY <1>1, <1>3, PutEvolves DEF r
<1>5. StackOK(heap', stack)
  BY <1>1, <1>4, StackEvolves
<1>6. StackOK(heap', stack') /\ Len(stack') = Len(stack) - 1 + 1
  BY <1>1, <1>4, <1>5, StackReplace
<1>7. Below(Len(stack'))
  BY <1>1, <1>6, BelowTop
<1> QED BY <1>1, <1>4, <1>6, <1>7, StackStep DEF IInv

LEMMA BindMethodStep == ASSUME IInv, bind_method PROVE IInv'
<1>1. Idle /\ frames # <<>> /\ Sound /\ CallOK /\ c.at = "none" /\ phase = "mutate"
  BY DEF bind_method, Running, IInv, Idle
<1>2. /\ c' = c
      /\ UNCHANGED <<strings, frames, open, globals, methods, consts, compilers, collector>>
  BY DEF bind_method
<1>3. CallOK' /\ c'.at # "intern"
  BY <1>1, <1>2, QuietCall
<1> DEFINE klass == heap[Peek(0)].head
<1>4. PICK k \in Constants \cap DOMAIN heap[klass].table, o \in Free :
        /\ heap' = Put(o, MkBound(Peek(0), heap[klass].table[k]))
        /\ stack' = Append(Cut(stack, 1), o)
  BY DEF bind_method
<1>5. Is(klass, "class")
  BY <1>1, InstanceIs DEF bind_method
<1> HIDE DEF klass
<1>6. heap[klass].table[k] \in Obj /\ Typed(heap, heap[klass].table[k], "closure")
  BY <1>1, <1>5, ClassIs
<1>7. 1 <= Len(stack) /\ Below(Len(stack) - 1)
  BY <1>1, TemporaryIsRoom DEF bind_method
<1> QED BY <1>1, <1>2, <1>3, <1>4, <1>6, <1>7, BindStep

LEMMA BindSuperStep == ASSUME IInv, BindSuper PROVE IInv'
<1>1. Sound /\ CallOK /\ c.at = "super" /\ phase = "mutate"
  BY DEF BindSuper, IInv
<1>2. /\ c' = NoCall
      /\ UNCHANGED <<strings, frames, open, globals, methods, consts, compilers, collector>>
  BY DEF BindSuper
<1>3. CallOK' /\ c'.at # "intern"
  BY <1>2, DoneCall
<1>4. PICK o \in Free : heap' = Put(o, MkBound(Peek(0), c.o)) /\ stack' = Append(Cut(stack, 1), o)
  BY DEF BindSuper
<1>5. frames # <<>> /\ 1 <= Len(stack) /\ Below(Len(stack) - 1)
  BY <1>1 DEF CallOK, Room
<1>6. PICK u \in Upvalues :
        /\ Is(Location(u), "class")
        /\ \E k \in DOMAIN heap[Location(u)].table : c.o = heap[Location(u)].table[k]
  BY <1>1 DEF CallOK
<1>7. c.o \in Obj /\ Typed(heap, c.o, "closure")
  BY <1>1, <1>6, ClassIs
<1> QED BY <1>1, <1>2, <1>3, <1>4, <1>5, <1>7, BindStep

LEMMA GetSuperStep == ASSUME IInv, GetSuper PROVE IInv'
<1>1. Idle /\ frames # <<>> /\ Sound /\ CallOK /\ c.at = "none" /\ phase = "mutate"
  BY DEF GetSuper, Running, IInv, Idle
<1>2. UNCHANGED <<heap, strings, stack, frames, open, globals, methods, consts, compilers, collector>>
  BY DEF GetSuper
<1>3. PICK u \in Upvalues :
       /\ Is(Location(u), "class")
       /\ \E k \in Constants \cap DOMAIN heap[Location(u)].table :
            c' = [At("super") EXCEPT !.o = heap[Location(u)].table[k]]
  BY DEF GetSuper
<1>4. PICK k \in Constants \cap DOMAIN heap[Location(u)].table :
        c' = [At("super") EXCEPT !.o = heap[Location(u)].table[k]]
  BY <1>3
<1> DEFINE m == heap[Location(u)].table[k]
<1>5. m \in Obj
  BY <1>1, <1>3, ClassIs
<1>6. c' = [at |-> "super", next |-> "none", o |-> m, s |-> NIL, n |-> 0]
  BY <1>4, AtIs
<1>7. Evolves(heap, heap') /\ StackOK(heap', stack') /\ Below(Len(stack'))
  BY <1>1, <1>2, HeapStays, StackEvolves, BelowTop
<1>8. Sound'
  BY <1>1, <1>2, <1>6, <1>7, StackStep
<1>9. CallOK'
  <2>1. Room(1)'
    <3>1. 1 <= Len(stack) /\ Below(Len(stack) - 1)
      BY <1>1, TemporaryIsRoom DEF GetSuper
    <3> QED BY <1>2, <3>1 DEF Room, Below, Base, Top
  <2>2. c'.at = "super" /\ c'.o = m /\ c'.next = "none" /\ c'.s = NIL /\ c'.n = 0
    BY <1>6
  <2>3. c' \in [at : {"none", "name", "intern", "constant", "script", "super",
                      "capture", "fill", "exit"},
                next : {"none", "name", "constant", "concat"},
                o : Val, s : {NIL}, n : Nat]
    BY <1>5, <1>6 DEF Val
  <2>4. (\E v \in Upvalues :
           /\ Is(Location(v), "class")
           /\ \E l \in DOMAIN heap[Location(v)].table : c.o = heap[Location(v)].table[l])'
    BY <1>2, <1>3, <2>2 DEF Upvalues, Closure, Top, Location, Is, Live
  <2>5. frames' # <<>>
    BY <1>1, <1>2
  <2> QED BY <2>1, <2>2, <2>3, <2>4, <2>5 DEF CallOK
<1> QED BY <1>8, <1>9 DEF IInv
-----------------------------------------------------------------------------
(* Classes and instances.                                                  *)

LEMMA TableEvolves ==
  ASSUME Sound, NEW o \in DOMAIN heap, NEW t, IsTable(t),
         \A k \in DOMAIN t : Typed(heap, k, "string"),
         \/ heap[o].type = "instance" /\ \A k \in DOMAIN t : Value(heap, t[k])
         \/ heap[o].type = "class" /\ \A k \in DOMAIN t : Typed(heap, t[k], "closure"),
         heap' = Write(heap, o, WithTable(heap[o], t))
  PROVE  Evolves(heap, heap')
<1> DEFINE r == WithTable(heap[o], t)
<1>1. WellFormed(heap)
  BY DEF Sound
<1>2. Fits(heap, r) /\ r.type = heap[o].type
  BY <1>1, TableWritten
<1>3. heap' = Write(heap, o, r)
  OBVIOUS
<1> HIDE DEF r
<1> QED BY <1>2, <1>3, UpdateEvolves

LEMMA SetPropertyStep == ASSUME IInv, SetProperty PROVE IInv'
<1>1. Idle /\ frames # <<>> /\ Sound /\ CallOK /\ c.at = "none" /\ phase = "mutate"
  BY DEF SetProperty, Running, IInv, Idle
<1>2. /\ c' = c /\ stack' = Append(Cut(stack, 2), Peek(0))
      /\ UNCHANGED <<strings, frames, open, globals, methods, consts, compilers, collector>>
  BY DEF SetProperty
<1>3. CallOK' /\ c'.at # "intern"
  BY <1>1, <1>2, QuietCall
<1> DEFINE a == Peek(1)
           v == Peek(0)
<1>4. PICK k \in Constants : Is(k, "string") /\ heap' = [heap EXCEPT ![a].table = With(@, k, v)]
  BY DEF SetProperty
<1> DEFINE t == With(heap[a].table, k, v)
<1>5. Temporary(2) /\ 2 < Len(stack) /\ Len(stack) \in Nat
  BY <1>1, TemporaryIsRoom DEF SetProperty
<1>6. v \in Val /\ Value(heap, v)
  BY <1>1, <1>5, Peeked
<1>7. a \in DOMAIN heap /\ heap[a].type = "instance"
  BY DEF SetProperty, Is, Live
<1>8. heap' = Write(heap, a, WithTable(heap[a], t))
  BY <1>1, <1>4, <1>7 DEF Write, WithTable, Sound, WellFormed
<1>9. Evolves(heap, heap')
  <2> HIDE DEF a, v
  <2>1. k \in Obj /\ Typed(heap, k, "string") /\ WellFormed(heap)
    BY <1>1, <1>4 DEF Is, Live, Sound, WellFormed, Typed
  <2>2. /\ IsTable(heap[a].table)
        /\ \A l \in DOMAIN heap[a].table :
             Typed(heap, l, "string") /\ Value(heap, heap[a].table[l])
    BY <1>7, <2>1, ObjectIs
  <2>3. /\ IsTable(t) /\ DOMAIN t = DOMAIN heap[a].table \cup {k} /\ t[k] = v
        /\ \A l \in DOMAIN heap[a].table : l # k => t[l] = heap[a].table[l]
    BY <1>6, <2>1, <2>2, TableWith
  <2> HIDE DEF t
  <2>4. \A l \in DOMAIN t : Typed(heap, l, "string") /\ Value(heap, t[l])
    BY <1>6, <2>1, <2>2, <2>3
  <2> QED BY <1>1, <1>7, <1>8, <2>3, <2>4, TableEvolves
<1>10. Value(heap', v)
  BY <1>1, <1>6, <1>9, StackEvolves
<1> HIDE DEF v
<1>11. stack' = Append(Cut(stack, 2), v)
  BY <1>2 DEF v
<1> QED BY <1>1, <1>2, <1>3, <1>5, <1>6, <1>9, <1>10, <1>11, ReplaceStep

LEMMA MethodStep == ASSUME IInv, Method PROVE IInv'
<1>1. Idle /\ frames # <<>> /\ Sound /\ CallOK /\ c.at = "none" /\ phase = "mutate"
  BY DEF Method, Running, IInv, Idle
<1>2. /\ c' = c /\ stack' = Cut(stack, 1)
      /\ UNCHANGED <<strings, frames, open, globals, methods, consts, compilers, collector>>
  BY DEF Method
<1>3. CallOK' /\ c'.at # "intern"
  BY <1>1, <1>2, QuietCall
<1> DEFINE a == Peek(1)
           v == Peek(0)
<1>4. PICK k \in Constants : Is(k, "string") /\ heap' = [heap EXCEPT ![a].table = With(@, k, v)]
  BY DEF Method
<1> DEFINE t == With(heap[a].table, k, v)
<1>5. Is(a, "class") /\ Typed(heap, v, "closure") /\ a \in DOMAIN heap /\ heap[a].type = "class"
  BY DEF Method, Is, Live, Typed
<1>6. heap' = Write(heap, a, WithTable(heap[a], t))
  BY <1>1, <1>4, <1>5 DEF Write, WithTable, Sound, WellFormed
<1>7. Evolves(heap, heap')
  <2> HIDE DEF a, v
  <2>1. k \in Obj /\ Typed(heap, k, "string") /\ v \in Val
    BY <1>1, <1>4, <1>5 DEF Is, Live, Sound, WellFormed, Typed, Val
  <2>2. /\ IsTable(heap[a].table)
        /\ \A l \in DOMAIN heap[a].table :
             Typed(heap, l, "string") /\ Typed(heap, heap[a].table[l], "closure")
    BY <1>1, <1>5, ClassIs
  <2>3. /\ IsTable(t) /\ DOMAIN t = DOMAIN heap[a].table \cup {k} /\ t[k] = v
        /\ \A l \in DOMAIN heap[a].table : l # k => t[l] = heap[a].table[l]
    BY <2>1, <2>2, TableWith
  <2> HIDE DEF t
  <2>4. \A l \in DOMAIN t : Typed(heap, l, "string") /\ Typed(heap, t[l], "closure")
    BY <1>5, <2>1, <2>2, <2>3
  <2> QED BY <1>1, <1>5, <1>6, <2>3, <2>4, TableEvolves
<1>8. Temporary(1)
  <2>1. Base \in Nat /\ Len(stack) \in Nat /\ Temporary(2)
    BY <1>1, FrameIs DEF Method
  <2>2. \A s \in Captured : s \in Nat
    BY <1>1 DEF Captured, Sound, OpenOK
  <2> QED BY <2>1, <2>2 DEF Temporary
<1> QED BY <1>1, <1>2, <1>3, <1>7, <1>8, PopStep

LEMMA InheritStep == ASSUME IInv, Inherit PROVE IInv'
<1>1. Idle /\ frames # <<>> /\ Sound /\ CallOK /\ c.at = "none" /\ phase = "mutate"
  BY DEF Inherit, Running, IInv, Idle
<1>2. /\ c' = c /\ stack' = Cut(stack, 1) /\ Temporary(1)
      /\ UNCHANGED <<strings, frames, open, globals, methods, consts, compilers, collector>>
  BY DEF Inherit
<1>3. CallOK' /\ c'.at # "intern"
  BY <1>1, <1>2, QuietCall
<1> DEFINE a == Peek(0)
           from == heap[Peek(1)].table
           to == heap[a].table
           t == [k \in DOMAIN from \cup DOMAIN to |-> IF k \in DOMAIN from THEN from[k] ELSE to[k]]
<1>4. Is(a, "class") /\ Is(Peek(1), "class") /\ heap' = [heap EXCEPT ![a].table = t]
  BY DEF Inherit
<1>5. /\ a \in DOMAIN heap /\ heap[a].type = "class"
      /\ IsTable(from) /\ IsTable(to)
      /\ \A k \in DOMAIN from :
           k \in Obj /\ Typed(heap, k, "string") /\ from[k] \in Obj /\ Typed(heap, from[k], "closure")
      /\ \A k \in DOMAIN to :
           k \in Obj /\ Typed(heap, k, "string") /\ to[k] \in Obj /\ Typed(heap, to[k], "closure")
  BY <1>1, <1>4, ClassIs DEF Is, Live
<1>6. heap' = Write(heap, a, WithTable(heap[a], t))
  <2> HIDE DEF t
  <2> QED BY <1>1, <1>4, <1>5 DEF Write, WithTable, Sound, WellFormed
<1> HIDE DEF a, from, to
<1>7. /\ IsTable(t)
      /\ \A k \in DOMAIN t : Typed(heap, k, "string") /\ Typed(heap, t[k], "closure")
  BY <1>5 DEF IsTable, Val
<1> HIDE DEF t
<1>8. Evolves(heap, heap')
  BY <1>1, <1>5, <1>6, <1>7, TableEvolves
<1> QED BY <1>1, <1>2, <1>3, <1>8, PopStep
-----------------------------------------------------------------------------
(* Calls.                                                                  *)

(* A frame is pushed, and its slot 0 written.                              *)
LEMMA EnterStep ==
  ASSUME IInv, Running, NEW argc \in Nat, Temporary(argc + 1), Evolves(heap, heap'),
         NEW m \in Obj, Typed(heap', m, "closure"),
         NEW recv \in Val, Value(heap', recv), Enter(m, recv, argc),
         UNCHANGED <<strings, open, globals, methods, consts, compilers, c, collector>>
  PROVE  IInv'
<1>1. Idle /\ frames # <<>> /\ Sound /\ CallOK /\ c.at = "none" /\ phase = "mutate"
  BY DEF Running, IInv, Idle
<1>2. CallOK' /\ c'.at # "intern"
  BY <1>1, QuietCall
<1> DEFINE i == Len(stack) - argc
           fr == [closure |-> m, slots |-> i]
<1>3. /\ stack' = Sub(stack, i, recv) /\ frames' = Append(frames, fr)
  BY DEF Enter, Sub
<1>4. /\ Len(stack) \in Nat /\ i \in 1 .. Len(stack) /\ Base < i /\ Base \in Nat
  <2>1. argc + 1 < Len(stack) /\ Base <= Len(stack) - (argc + 1) /\ Len(stack) \in Nat
    BY <1>1, TemporaryIsRoom
  <2>2. Base \in Nat
    BY <1>1, FrameIs
  <2> QED BY <2>1, <2>2
<1>5. fr \in [closure : Obj, slots : Nat \ {0}] /\ fr.closure = m /\ fr.slots = i
  BY <1>4
<1> HIDE DEF i, fr
<1>6. StackOK(heap', stack') /\ Len(stack') = Len(stack)
  <2>1. StackOK(heap', stack)
    BY <1>1, StackEvolves
  <2> QED BY <1>3, <1>4, <2>1, StackWrite
<1>7. FramesOK(heap', stack', frames')
  <2>1. /\ frames \in Seq([closure : Obj, slots : Nat \ {0}])
        /\ \A j \in DOMAIN frames : Typed(heap, frames[j].closure, "closure") /\ frames[j].slots <= Len(stack)
        /\ \A j, l \in DOMAIN frames : j < l => frames[j].slots < frames[l].slots
    BY <1>1 DEF Sound, FramesOK
  <2>2. /\ frames' \in Seq([closure : Obj, slots : Nat \ {0}])
        /\ Len(frames) \in Nat /\ DOMAIN frames' = 1 .. Len(frames) + 1
        /\ DOMAIN frames = 1 .. Len(frames)
        /\ frames'[Len(frames) + 1] = fr
        /\ \A j \in 1 .. Len(frames) : frames'[j] = frames[j]
    BY <1>3, <1>5, <2>1, Appended
  <2>3. \A j \in DOMAIN frames : frames[j].slots \in Nat /\ frames[j].slots <= Base
    <3>1. Base = frames[Len(frames)].slots /\ Len(frames) \in DOMAIN frames
      BY <1>1, <2>2, FrameIs DEF Base, Top
    <3>2. \A j \in DOMAIN frames : frames[j].slots \in Nat
      <4>1. \A j \in DOMAIN frames : frames[j] \in [closure : Obj, slots : Nat \ {0}]
        BY <2>1, ElementsOfSeq
      <4> QED BY <4>1
    <3>3. \A j \in DOMAIN frames : j = Len(frames) \/ j < Len(frames)
      BY <2>2
    <3> QED BY <2>1, <3>1, <3>2, <3>3
  <2>4. \A v, t : Typed(heap, v, t) => Typed(heap', v, t)
    BY <1>1, StackEvolves
  <2>5. \A j \in DOMAIN frames' : Typed(heap', frames'[j].closure, "closure") /\ frames'[j].slots <= Len(stack')
    <3> SUFFICES ASSUME NEW j \in DOMAIN frames'
                 PROVE  Typed(heap', frames'[j].closure, "closure") /\ frames'[j].slots <= Len(stack')
      OBVIOUS
    <3>1. CASE j = Len(frames) + 1
      BY <1>4, <1>5, <1>6, <2>2, <3>1
    <3>2. CASE j \in 1 .. Len(frames)
      BY <1>6, <2>1, <2>2, <2>4, <3>2
    <3> QED BY <2>2, <3>1, <3>2
  <2>6. \A j, l \in DOMAIN frames' : j < l => frames'[j].slots < frames'[l].slots
    <3> SUFFICES ASSUME NEW j \in DOMAIN frames', NEW l \in DOMAIN frames', j < l
                 PROVE  frames'[j].slots < frames'[l].slots
      OBVIOUS
    <3>1. j \in 1 .. Len(frames) /\ frames'[j] = frames[j]
      <4>1. j \in 1 .. Len(frames) + 1 /\ l \in 1 .. Len(frames) + 1
        BY <2>2
      <4> QED BY <2>2, <4>1
    <3>2. CASE l = Len(frames) + 1
      <4>1. frames[j].slots \in Nat /\ frames[j].slots <= Base /\ frames'[l].slots = i
        BY <1>5, <2>2, <2>3, <3>1, <3>2
      <4> QED BY <1>4, <3>1, <4>1
    <3>3. CASE l \in 1 .. Len(frames)
      BY <2>1, <2>2, <3>1, <3>3
    <3>4. l = Len(frames) + 1 \/ l \in 1 .. Len(frames)
      BY <2>2
    <3> QED BY <3>2, <3>3, <3>4
  <2> QED BY <2>2, <2>5, <2>6 DEF FramesOK
<1>8. OpenOK(heap', stack', open)
  <2>1. Kept(DOMAIN heap, heap, heap') /\ DOMAIN open \subseteq DOMAIN heap
    BY <1>1 DEF Evolves, Sound, OpenOK, Typed
  <2>2. OpenOK(heap', stack, open)
    BY <1>1, <2>1, OpenKept DEF Sound
  <2>3. \A u \in DOMAIN open : open[u] <= Len(stack')
    BY <1>1, <1>6 DEF Sound, OpenOK
  <2> QED BY <2>2, <2>3, OpenFits
<1>9. GlobalsOK(heap', globals) /\ CompilersOK(heap', compilers) /\ consts \subseteq Obj
  BY <1>1, RestEvolves
<1> QED BY <1>1, <1>2, <1>6, <1>7, <1>8, <1>9, MutatorStep DEF IInv

LEMMA CallValueStep ==
  ASSUME IInv, Running, NEW argc \in Nat, Temporary(argc + 1),
         NEW v, call_value(v, argc),
         UNCHANGED <<strings, open, globals, methods, consts, compilers, c, collector>>
  PROVE  IInv'
<1>1. Idle /\ frames # <<>> /\ Sound /\ CallOK /\ c.at = "none" /\ phase = "mutate"
  BY DEF Running, IInv, Idle
<1>2. CallOK' /\ c'.at # "intern"
  BY <1>1, QuietCall
<1>3. DOMAIN heap \subseteq Obj
  BY <1>1 DEF Sound, WellFormed
<1>4. CASE Is(v, "closure") /\ Enter(v, v, argc) /\ UNCHANGED heap
  <2>1. Evolves(heap, heap') /\ v \in Obj /\ v \in Val /\ Value(heap', v) /\ Typed(heap', v, "closure")
    BY <1>1, <1>3, <1>4, HeapStays DEF Is, Live, Val, Value, Typed
  <2> QED BY <1>4, <2>1, EnterStep
<1>5. CASE Is(v, "bound") /\ Enter(heap[v].head, heap[v].elems[1], argc) /\ UNCHANGED heap
  <2>1. /\ Evolves(heap, heap') /\ heap[v].head \in Obj /\ Typed(heap', heap[v].head, "closure")
        /\ heap[v].elems[1] \in Val /\ Value(heap', heap[v].elems[1])
    BY <1>1, <1>5, HeapStays, BoundIs
  <2> QED BY <1>5, <2>1, EnterStep
<1>6. CASE /\ Is(v, "class")
           /\ \E o \in Free :
                /\ heap' = Put(o, MkInstance(v))
                /\ \/ /\ init_string \in DOMAIN heap[v].table
                      /\ Enter(heap[v].table[init_string], o, argc)
                   \/ /\ init_string \notin DOMAIN heap[v].table /\ argc = 0
                      /\ stack' = Append(Cut(stack, 1), o) /\ UNCHANGED frames
  <2>1. PICK o \in Free :
          /\ heap' = Put(o, MkInstance(v))
          /\ \/ /\ init_string \in DOMAIN heap[v].table
                /\ Enter(heap[v].table[init_string], o, argc)
             \/ /\ init_string \notin DOMAIN heap[v].table /\ argc = 0
                /\ stack' = Append(Cut(stack, 1), o) /\ UNCHANGED frames
    BY <1>6
  <2> DEFINE r == MkInstance(v)
  <2>2. v \in Obj /\ Typed(heap, v, "class")
    BY <1>3, <1>6 DEF Is, Live, Typed
  <2>3. Fits(heap, r) /\ r.type = "instance"
    BY <2>2, NewInstance
  <2> HIDE DEF r
  <2>4. Evolves(heap, heap') /\ o \in Val /\ Value(heap', o)
    BY <1>1, <2>1, <2>3, PutEvolves DEF r
  <2>5. CASE init_string \in DOMAIN heap[v].table /\ Enter(heap[v].table[init_string], o, argc)
    <3>1. heap[v].table[init_string] \in Obj /\ Typed(heap, heap[v].table[init_string], "closure")
      BY <1>1, <1>6, <2>5, ClassIs
    <3>2. Typed(heap', heap[v].table[init_string], "closure")
      BY <1>1, <2>4, <3>1, StackEvolves
    <3> QED BY <2>4, <2>5, <3>1, <3>2, EnterStep
  <2>6. CASE argc = 0 /\ stack' = Append(Cut(stack, 1), o) /\ UNCHANGED frames
    <3>1. Temporary(1)
      BY <2>6
    <3> QED BY <1>1, <1>2, <2>4, <2>6, <3>1, ReplaceStep
  <2> QED BY <2>1, <2>5, <2>6
<1>7. CASE stack' = Append(Cut(stack, argc + 1), NIL) /\ UNCHANGED <<heap, frames>>
  <2>1. Evolves(heap, heap') /\ NIL \in Val /\ Value(heap', NIL) /\ argc + 1 \in Nat
    BY <1>1, <1>7, HeapStays, Blank
  <2> QED BY <1>1, <1>2, <1>7, <2>1, ReplaceStep
<1> QED BY <1>4, <1>5, <1>6, <1>7 DEF call_value

LEMMA CallStep == ASSUME IInv, NEW argc \in Nat, Call(argc) PROVE IInv'
BY CallValueStep DEF Call

LEMMA InvokeStep == ASSUME IInv, NEW argc \in Nat, Invoke(argc) PROVE IInv'
<1> DEFINE v == Peek(argc)
           self == heap[v]
           klass == heap[self.head]
<1>1. Idle /\ frames # <<>> /\ Sound
  BY DEF Invoke, Running, IInv
<1>2. /\ Running /\ Temporary(argc + 1) /\ Is(v, "instance")
      /\ UNCHANGED <<strings, open, globals, methods, consts, compilers, c, collector>>
  BY DEF Invoke
<1>3. PICK k \in Constants :
        \/ k \in DOMAIN self.table /\ call_value(self.table[k], argc)
        \/ /\ k \in DOMAIN klass.table \ DOMAIN self.table
           /\ Enter(klass.table[k], v, argc) /\ UNCHANGED heap
  BY DEF Invoke
<1>4. CASE call_value(self.table[k], argc)
  <2> HIDE DEF self
  <2> QED BY <1>2, <1>4, CallValueStep
<1>5. CASE /\ k \in DOMAIN klass.table
           /\ Enter(klass.table[k], v, argc) /\ UNCHANGED heap
  <2>1. Is(self.head, "class")
    BY <1>1, <1>2, InstanceIs
  <2>2. klass.table[k] \in Obj /\ Typed(heap, klass.table[k], "closure")
    BY <1>1, <1>5, <2>1, ClassIs
  <2>3. v \in Val /\ Value(heap, v)
    BY <1>1, <1>2 DEF Is, Live, Val, Value, Sound, WellFormed
  <2> HIDE DEF klass, self, v
  <2>4. Evolves(heap, heap')
    BY <1>1, <1>5, HeapStays
  <2> QED BY <1>2, <1>5, <2>2, <2>3, <2>4, EnterStep
<1> QED BY <1>3, <1>4, <1>5

LEMMA SuperInvokeStep == ASSUME IInv, NEW argc \in Nat, SuperInvoke(argc) PROVE IInv'
<1> DEFINE v == Peek(argc)
<1>1. Idle /\ frames # <<>> /\ Sound
  BY DEF SuperInvoke, Running, IInv
<1>2. /\ Running /\ Temporary(argc + 1) /\ Is(v, "instance")
      /\ UNCHANGED <<heap, strings, open, globals, methods, consts, compilers, c, collector>>
  BY DEF SuperInvoke
<1>3. PICK u \in Upvalues :
        /\ Is(Location(u), "class")
        /\ \E k \in Constants \cap DOMAIN heap[Location(u)].table :
             Enter(heap[Location(u)].table[k], v, argc)
  BY DEF SuperInvoke
<1>4. PICK k \in Constants \cap DOMAIN heap[Location(u)].table :
        Enter(heap[Location(u)].table[k], v, argc)
  BY <1>3
<1> DEFINE m == heap[Location(u)].table[k]
<1>5. m \in Obj /\ Typed(heap, m, "closure")
  BY <1>1, <1>3, ClassIs
<1>6. v \in Val /\ Value(heap, v)
  BY <1>1, <1>2 DEF Is, Live, Val, Value, Sound, WellFormed
<1>7. Enter(m, v, argc)
  BY <1>4
<1> HIDE DEF v, m
<1>8. Evolves(heap, heap')
  BY <1>1, <1>2, HeapStays
<1> QED BY <1>2, <1>5, <1>6, <1>7, <1>8, EnterStep
-----------------------------------------------------------------------------
(* Arrays.                                                                 *)

(* The values of an array are like those of the stack.                     *)
LEMMA ArrayIs ==
  ASSUME Sound, NEW a, Is(a, "array")
  PROVE  a \in DOMAIN heap /\ heap[a].type = "array" /\ StackOK(heap, heap[a].elems)
BY ObjectIs DEF Is, Live, Sound, StackOK

LEMMA ElemsEvolve ==
  ASSUME Sound, NEW o \in DOMAIN heap, heap[o].type \in {"array", "function"}, NEW es,
         StackOK(heap, es), heap' = Write(heap, o, WithElems(heap[o], es))
  PROVE  Evolves(heap, heap')
<1> DEFINE r == WithElems(heap[o], es)
<1>1. WellFormed(heap) /\ es \in Seq(Val) /\ \A i \in DOMAIN es : Value(heap, es[i])
  BY DEF Sound, StackOK
<1>2. Fits(heap, r) /\ r.type = heap[o].type
  BY <1>1, ElemsWritten
<1>3. heap' = Write(heap, o, r)
  OBVIOUS
<1> HIDE DEF r
<1> QED BY <1>2, <1>3, UpdateEvolves

LEMMA TailIs ==
  ASSUME NEW h, NEW s, StackOK(h, s), s # <<>>
  PROVE  StackOK(h, Tail(s)) /\ Head(s) \in Val /\ Value(h, Head(s))
<1>1. /\ s \in Seq(Val) /\ Len(s) \in Nat /\ DOMAIN s = 1 .. Len(s)
      /\ \A i \in 1 .. Len(s) : s[i] \in Val /\ Value(h, s[i])
  BY StackIs
<1>2. Len(s) > 0
  BY <1>1, EmptySeq
<1>3. /\ Tail(s) \in Seq(Val) /\ Len(Tail(s)) = Len(s) - 1
      /\ \A i \in 1 .. Len(s) - 1 : Tail(s)[i] = s[i + 1]
  BY <1>1, <1>2, HeadTailProperties
<1>4. DOMAIN Tail(s) = 1 .. Len(s) - 1
  BY <1>3, LenProperties
<1>5. \A i \in 1 .. Len(s) - 1 : i + 1 \in 1 .. Len(s)
  BY <1>1
<1>6. Head(s) = s[1] /\ 1 \in 1 .. Len(s)
  BY <1>1, <1>2
<1> QED BY <1>1, <1>3, <1>4, <1>5, <1>6 DEF StackOK

LEMMA Prepended ==
  ASSUME NEW h, NEW s, StackOK(h, s), NEW v \in Val, Value(h, v)
  PROVE  StackOK(h, <<v>> \o s)
<1>1. /\ s \in Seq(Val) /\ Len(s) \in Nat
      /\ \A i \in 1 .. Len(s) : Value(h, s[i])
  BY StackIs
<1>2. <<v>> \in Seq(Val) /\ Len(<<v>>) = 1 /\ <<v>>[1] = v
  OBVIOUS
<1> DEFINE p == <<v>>
<1>3. p \in Seq(Val) /\ Len(p) = 1 /\ p[1] = v
  BY <1>2
<1> HIDE DEF p
<1>4. /\ p \o s \in Seq(Val) /\ Len(p \o s) = 1 + Len(s)
      /\ \A i \in 1 .. Len(p) + Len(s) : (p \o s)[i] = IF i <= Len(p) THEN p[i] ELSE s[i - Len(p)]
  BY <1>1, <1>3, ConcatProperties
<1>5. DOMAIN (p \o s) = 1 .. 1 + Len(s)
  BY <1>4, LenProperties
<1>6. ASSUME NEW i \in 1 .. 1 + Len(s) PROVE Value(h, (p \o s)[i])
  <2>1. CASE i = 1
    BY <1>1, <1>3, <1>4, <2>1
  <2>2. CASE i # 1
    <3>1. i - 1 \in 1 .. Len(s) /\ (p \o s)[i] = s[i - 1]
      BY <1>1, <1>3, <1>4, <2>2
    <3> QED BY <1>1, <3>1
  <2> QED BY <2>1, <2>2
<1> QED BY <1>4, <1>5, <1>6 DEF StackOK, p

LEMMA ArrayMethodStep == ASSUME IInv, NEW argc \in Nat, ArrayMethod(argc) PROVE IInv'
<1> DEFINE a == Peek(argc)
           vs == heap[a].elems
           Returns(v) == stack' = Append(Cut(stack, argc + 1), v)
           Becomes(ws) == heap' = [heap EXCEPT ![a].elems = ws]
<1>1. Idle /\ frames # <<>> /\ Sound /\ CallOK /\ c.at = "none" /\ phase = "mutate"
  BY DEF ArrayMethod, Running, IInv, Idle
<1>2. /\ Temporary(argc + 1) /\ Is(a, "array")
      /\ UNCHANGED <<strings, frames, open, globals, methods, consts, compilers, c, collector>>
  BY DEF ArrayMethod
<1>3. CallOK' /\ c'.at # "intern"
  BY <1>1, <1>2, QuietCall
<1>4. a \in DOMAIN heap /\ heap[a].type = "array" /\ StackOK(heap, vs)
  BY <1>1, <1>2, ArrayIs
<1>5. Peek(0) \in Val /\ Value(heap, Peek(0)) /\ NIL \in Val /\ Value(heap, NIL)
  <2>1. Len(stack) \in Nat /\ 0 < Len(stack)
    BY <1>1, FrameIs
  <2> QED BY <1>1, <2>1, Peeked, Blank
<1>6. \/ Becomes(Append(vs, Peek(0))) /\ Returns(NIL)
      \/ Becomes(<<Peek(0)>> \o vs) /\ Returns(NIL)
      \/ vs # <<>> /\ Becomes(Cut(vs, 1)) /\ Returns(Top(vs))
      \/ vs # <<>> /\ Becomes(Tail(vs)) /\ Returns(Head(vs))
      \/ UNCHANGED heap /\ Returns(NIL)
  BY DEF ArrayMethod
<1>7. ASSUME NEW ws, StackOK(heap, ws), Becomes(ws), NEW v \in Val, Value(heap, v), Returns(v)
      PROVE  IInv'
  <2>1. heap' = Write(heap, a, WithElems(heap[a], ws))
    BY <1>1, <1>4, <1>7 DEF Write, WithElems, Sound, WellFormed
  <2>2. Evolves(heap, heap')
    <3> HIDE DEF a
    <3> QED BY <1>1, <1>4, <1>7, <2>1, ElemsEvolve
  <2>3. Value(heap', v)
    BY <1>1, <1>7, <2>2, StackEvolves
  <2>4. argc + 1 \in Nat /\ stack' = Append(Cut(stack, argc + 1), v)
    BY <1>7
  <2> HIDE DEF a, vs, Returns, Becomes
  <2> QED BY <1>1, <1>2, <1>3, <1>7, <2>2, <2>3, <2>4, ReplaceStep
<1>8. CASE UNCHANGED heap /\ Returns(NIL)
  <2>1. Evolves(heap, heap') /\ Value(heap', NIL)
    BY <1>1, <1>5, <1>8, HeapStays
  <2> QED BY <1>1, <1>2, <1>3, <1>5, <1>8, <2>1, ReplaceStep
<1> HIDE DEF a, vs, Returns, Becomes
<1>9. CASE Becomes(Append(vs, Peek(0))) /\ Returns(NIL)
  BY <1>4, <1>5, <1>7, <1>9, StackAppend
<1>10. CASE Becomes(<<Peek(0)>> \o vs) /\ Returns(NIL)
  BY <1>4, <1>5, <1>7, <1>10, Prepended
<1>11. CASE vs # <<>> /\ Becomes(Cut(vs, 1)) /\ Returns(Top(vs))
  <2>1. /\ Len(vs) \in Nat /\ vs \in Seq(Val)
        /\ \A i \in 1 .. Len(vs) : vs[i] \in Val /\ Value(heap, vs[i])
    BY <1>4, StackIs
  <2>2. Len(vs) \in 1 .. Len(vs) /\ 1 <= Len(vs)
    BY <1>11, <2>1, EmptySeq
  <2>3. Top(vs) \in Val /\ Value(heap, Top(vs))
    BY <2>1, <2>2 DEF Top
  <2>4. StackOK(heap, Cut(vs, 1))
    BY <1>4, <2>2, StackCut
  <2> QED BY <1>7, <1>11, <2>3, <2>4
<1>12. CASE vs # <<>> /\ Becomes(Tail(vs)) /\ Returns(Head(vs))
  BY <1>4, <1>7, <1>12, TailIs
<1> QED BY <1>6, <1>8, <1>9, <1>10, <1>11, <1>12

LEMMA SliceStep == ASSUME IInv, Slice PROVE IInv'
<1>1. Idle /\ frames # <<>> /\ Sound /\ CallOK /\ c.at = "none" /\ phase = "mutate"
  BY DEF Slice, Running, IInv, Idle
<1>2. /\ heap' = heap /\ c' = c /\ Temporary(2)
      /\ UNCHANGED <<strings, frames, open, globals, methods, consts, compilers, collector>>
  BY DEF Slice
<1>3. Evolves(heap, heap') /\ CallOK' /\ c'.at # "intern"
  BY <1>1, <1>2, HeapStays, QuietCall
<1>4. PICK v \in Elements(heap[Peek(1)].elems) : stack' = Append(Cut(stack, 2), v)
  BY DEF Slice
<1>5. StackOK(heap, heap[Peek(1)].elems)
  BY <1>1, ArrayIs DEF Slice
<1>6. v \in Val /\ Value(heap', v)
  BY <1>2, <1>5, StackIs DEF Elements
<1> QED BY <1>1, <1>2, <1>3, <1>4, <1>6, ReplaceStep

(* A new object is pushed.                                                 *)
LEMMA MakeStep ==
  ASSUME Sound, phase = "mutate", c.at # "intern", NEW o \in Free, NEW r, Fits(heap, r),
         r.type # "string", heap' = Put(o, r), stack' = Append(stack, o), c'.at # "intern",
         UNCHANGED <<strings, frames, open, globals, methods, consts, compilers, collector>>
  PROVE  /\ Sound' /\ Len(stack') = Len(stack) + 1 /\ Peek(0)' = o /\ Len(stack) \in Nat
         /\ o \in DOMAIN heap' /\ heap'[o] = r
<1>1. Evolves(heap, heap') /\ o \in Val /\ Value(heap', o) /\ heap'[o] = r /\ o \in DOMAIN heap'
  <2>1. Evolves(heap, heap') /\ o \in Val /\ Value(heap', o) /\ heap'[o] = r
    BY PutEvolves
  <2>2. o \in DOMAIN heap'
    BY DEF Put
  <2> QED BY <2>1, <2>2
<1>2. StackOK(heap', stack)
  BY <1>1, StackEvolves
<1>3. StackOK(heap', stack') /\ Len(stack') = Len(stack) + 1 /\ Top(stack') = o
  BY <1>1, <1>2, StackAppend
<1>4. Len(stack) \in Nat /\ Below(Len(stack))
  BY BelowTop
<1>5. Below(Len(stack'))
  BY <1>3, <1>4, BelowMore
<1>6. Peek(0)' = o
  BY <1>3, <1>4 DEF Peek, Top
<1> QED BY <1>1, <1>3, <1>4, <1>5, <1>6, StackStep

LEMMA NewArrayStep == ASSUME IInv, NEW n \in Nat, NewArray(n) PROVE IInv'
<1>1. Idle /\ frames # <<>> /\ Sound /\ CallOK /\ c.at = "none" /\ phase = "mutate"
  BY DEF NewArray, Running, IInv, Idle
<1>2. /\ Temporary(n) /\ c' = [At("fill") EXCEPT !.n = n]
      /\ UNCHANGED <<strings, frames, open, globals, methods, consts, compilers, collector>>
  BY DEF NewArray
<1>3. c' = [at |-> "fill", next |-> "none", o |-> NIL, s |-> NIL, n |-> n]
  BY <1>2, AtIs
<1>4. PICK o \in Free : heap' = Put(o, MkArray(<<>>)) /\ stack' = Append(stack, o)
  BY DEF NewArray
<1> DEFINE r == MkArray(<<>>)
<1>5. Fits(heap, r) /\ r.type = "array"
  BY Blank, NewArrayFits
<1> HIDE DEF r
<1>6. /\ Sound' /\ Len(stack') = Len(stack) + 1 /\ Peek(0)' = o /\ Len(stack) \in Nat
      /\ o \in DOMAIN heap' /\ heap'[o] = r
  <2>1. heap' = Put(o, r) /\ stack' = Append(stack, o) /\ c'.at # "intern"
    BY <1>3, <1>4 DEF r
  <2> QED BY <1>1, <1>2, <1>5, <2>1, MakeStep
<1>7. Room(n + 1)'
  <2>1. n < Len(stack) /\ Below(Len(stack) - n)
    BY <1>1, <1>2, TemporaryIsRoom
  <2>2. n + 1 <= Len(stack') /\ Len(stack') - (n + 1) = Len(stack) - n
    BY <1>6, <2>1
  <2> QED BY <1>2, <2>1, <2>2 DEF Room, Below, Base, Top
<1>8. Is(Peek(0), "array")'
  BY <1>5, <1>6 DEF Is, Live
<1>9. CallOK'
  <2>1. c'.at = "fill" /\ c'.o = NIL /\ c'.n = n
    BY <1>3
  <2>2. c' \in [at : {"none", "name", "intern", "constant", "script", "super",
                      "capture", "fill", "exit"},
                next : {"none", "name", "constant", "concat"},
                o : Val, s : {NIL}, n : Nat]
    BY <1>3 DEF Val
  <2>3. frames' # <<>> /\ Room(c.n + 1)'
    BY <1>1, <1>2, <1>7, <2>1
  <2> QED BY <1>8, <2>1, <2>2, <2>3 DEF CallOK
<1> QED BY <1>6, <1>9 DEF IInv

LEMMA FillArrayStep == ASSUME IInv, FillArray PROVE IInv'
<1> DEFINE a == Peek(0)
           es == SubSeq(stack, Len(stack) - c.n, Len(stack) - 1)
<1>1. Sound /\ CallOK /\ c.at = "fill" /\ phase = "mutate"
  BY DEF FillArray, IInv
<1>2. /\ c' = NoCall
      /\ heap' = [heap EXCEPT ![a].elems = es]
      /\ stack' = Append(Cut(stack, c.n + 1), a)
      /\ UNCHANGED <<strings, frames, open, globals, methods, consts, compilers, collector>>
  BY DEF FillArray
<1>3. CallOK' /\ c'.at # "intern"
  BY <1>2, DoneCall
<1>4. c.n \in Nat /\ c.n + 1 <= Len(stack) /\ Below(Len(stack) - (c.n + 1)) /\ Is(a, "array")
  BY <1>1 DEF CallOK, Room
<1>5. a \in DOMAIN heap /\ heap[a].type = "array" /\ a \in Val
  BY <1>1, <1>4, ArrayIs DEF Sound, WellFormed, Val
<1>6. StackOK(heap, es)
  <2>1. /\ stack \in Seq(Val) /\ Len(stack) \in Nat
        /\ \A i \in 1 .. Len(stack) : stack[i] \in Val /\ Value(heap, stack[i])
    BY <1>1, StackIs DEF Sound
  <2> DEFINE m == Len(stack) - c.n
             k == Len(stack) - 1
  <2>2. m \in Int /\ k \in Int /\ m >= 1 /\ k < Len(stack)
    BY <1>4, <2>1
  <2>3. \A i \in m .. k : stack[i] \in Val /\ Value(heap, stack[i])
    BY <2>1, <2>2
  <2> HIDE DEF m, k
  <2>4. /\ SubSeq(stack, m, k) \in Seq(Val)
        /\ Len(SubSeq(stack, m, k)) = IF m <= k THEN k - m + 1 ELSE 0
        /\ \A i \in 1 .. k - m + 1 : SubSeq(stack, m, k)[i] = stack[m + i - 1]
    BY <2>2, <2>3, SubSeqProperties
  <2>5. DOMAIN SubSeq(stack, m, k) = 1 .. Len(SubSeq(stack, m, k))
    BY <2>4, LenProperties
  <2>6. ASSUME NEW i \in DOMAIN SubSeq(stack, m, k) PROVE Value(heap, SubSeq(stack, m, k)[i])
    <3>1. i \in 1 .. k - m + 1 /\ m + i - 1 \in m .. k
      BY <2>2, <2>4, <2>5
    <3> QED BY <2>3, <2>4, <3>1
  <2> QED BY <2>4, <2>6 DEF StackOK, m, k
<1>7. heap' = Write(heap, a, WithElems(heap[a], es))
  <2> HIDE DEF es
  <2> QED BY <1>1, <1>2, <1>5 DEF Write, WithElems, Sound, WellFormed
<1> HIDE DEF a, es
<1>8. Evolves(heap, heap')
  BY <1>1, <1>5, <1>6, <1>7, ElemsEvolve
<1>9. StackOK(heap', stack) /\ Value(heap', a) /\ Len(stack) \in Nat
  <2>1. Value(heap, a)
    BY <1>5 DEF Value
  <2> QED BY <1>1, <1>8, <2>1, StackEvolves, BelowTop
<1>10. StackOK(heap', stack') /\ Len(stack') = Len(stack) - (c.n + 1) + 1
  <2>1. c.n + 1 \in Nat
    BY <1>4
  <2> QED BY <1>2, <1>4, <1>5, <1>9, <2>1, StackReplace
<1>11. Below(Len(stack'))
  <2>1. Len(stack) - (c.n + 1) \in Nat /\ Len(stack') \in Nat /\ Len(stack) - (c.n + 1) <= Len(stack')
    BY <1>4, <1>9, <1>10
  <2> QED BY <1>1, <1>4, <2>1, BelowMore
<1> QED BY <1>1, <1>2, <1>3, <1>8, <1>10, <1>11, StackStep DEF IInv

LEMMA ClassStep == ASSUME IInv, Class PROVE IInv'
<1>1. Idle /\ frames # <<>> /\ Sound /\ CallOK /\ c.at = "none" /\ phase = "mutate"
  BY DEF Class, Running, IInv, Idle
<1>2. UNCHANGED <<strings, frames, open, globals, methods, consts, compilers, c, collector>>
  BY DEF Class
<1>3. CallOK' /\ c'.at # "intern"
  BY <1>1, <1>2, QuietCall
<1>4. PICK k \in Constants, o \in Free :
        Is(k, "string") /\ heap' = Put(o, MkClass(k)) /\ stack' = Append(stack, o)
  BY DEF Class
<1> DEFINE r == MkClass(k)
<1>5. Fits(heap, r) /\ r.type = "class"
  BY <1>1, <1>4, NewClass DEF Is, Live, Typed, Sound, WellFormed
<1>6. heap' = Put(o, r) /\ stack' = Append(stack, o)
  BY <1>4
<1> HIDE DEF r
<1> QED BY <1>1, <1>2, <1>3, <1>5, <1>6, MakeStep DEF IInv

LEMMA RuntimeErrorStep == ASSUME IInv, RuntimeError PROVE IInv'
<1>1. Idle /\ Sound /\ c.at = "none" /\ phase = "mutate"
  BY DEF RuntimeError, Running, IInv, Idle
<1>2. /\ stack' = <<>> /\ frames' = <<>> /\ open' = NoTable /\ c' = At("exit") /\ heap' = heap
      /\ UNCHANGED <<strings, globals, methods, consts, compilers, collector>>
  BY DEF RuntimeError
<1>3. c' = [at |-> "exit", next |-> "none", o |-> NIL, s |-> NIL, n |-> 0]
  BY <1>2, AtIs
<1>4. CallOK'
  BY <1>3 DEF CallOK, Val
<1>5. Evolves(heap, heap')
  BY <1>1, <1>2, HeapStays
<1>6. StackOK(heap', stack') /\ FramesOK(heap', stack', frames')
  <2>1. DOMAIN stack' = {} /\ DOMAIN frames' = {} /\ stack' \in Seq(Val)
        /\ frames' \in Seq([closure : Obj, slots : Nat \ {0}])
    BY <1>2
  <2> QED BY <2>1 DEF StackOK, FramesOK
<1>7. OpenOK(heap', stack', open')
  BY <1>2 DEF OpenOK, NoTable
<1>8. c'.at # "intern"
  BY <1>3
<1> QED BY <1>1, <1>2, <1>4, <1>5, <1>6, <1>7, <1>8, RestEvolves, MutatorStep DEF IInv, Sound
-----------------------------------------------------------------------------
(* Closures.                                                               *)

LEMMA MakeClosureStep == ASSUME IInv, NEW n \in Nat, MakeClosure(n) PROVE IInv'
<1>1. Idle /\ frames # <<>> /\ Sound /\ CallOK /\ c.at = "none" /\ phase = "mutate"
  BY DEF MakeClosure, Running, IInv, Idle
<1>2. /\ c' = IF n = 0 THEN NoCall ELSE [At("capture") EXCEPT !.n = 1]
      /\ UNCHANGED <<strings, frames, open, globals, methods, consts, compilers, collector>>
  BY DEF MakeClosure
<1>3. PICK f \in Constants, o \in Free :
        Is(f, "function") /\ heap' = Put(o, MkClosure(f, n)) /\ stack' = Append(stack, o)
  BY DEF MakeClosure
<1> DEFINE r == MkClosure(f, n)
<1>4. Fits(heap, r) /\ r.type = "closure" /\ Len(r.elems) = n
  BY <1>1, <1>3, NewClosure DEF Is, Live, Typed, Sound, WellFormed
<1>5. heap' = Put(o, r) /\ stack' = Append(stack, o)
  BY <1>3
<1> HIDE DEF r
<1>6. c'.at # "intern" /\ (n = 0 \/ c' = [at |-> "capture", next |-> "none", o |-> NIL, s |-> NIL, n |-> 1])
  BY <1>2, AtIs DEF NoCall
<1>7. /\ Sound' /\ Len(stack') = Len(stack) + 1 /\ Peek(0)' = o /\ Len(stack) \in Nat
      /\ o \in DOMAIN heap' /\ heap'[o] = r
  BY <1>1, <1>2, <1>4, <1>5, <1>6, MakeStep
<1>8. CASE n = 0
  BY <1>2, <1>7, <1>8, DoneCall DEF IInv
<1>9. CASE n # 0
  <2>1. c' = [at |-> "capture", next |-> "none", o |-> NIL, s |-> NIL, n |-> 1]
    BY <1>6, <1>9
  <2>2. c'.at = "capture" /\ c'.o = NIL /\ c'.n = 1
    BY <2>1
  <2>3. c' \in [at : {"none", "name", "intern", "constant", "script", "super",
                      "capture", "fill", "exit"},
                next : {"none", "name", "constant", "concat"},
                o : Val, s : {NIL}, n : Nat]
    BY <2>1 DEF Val
  <2>4. /\ frames' # <<>> /\ Is(Peek(0), "closure")'
        /\ (c.n \in 1 .. Len(heap[Peek(0)].elems))'
    BY <1>1, <1>2, <1>4, <1>7, <1>9, <2>2 DEF Is, Live
  <2> QED BY <1>7, <2>2, <2>3, <2>4 DEF CallOK, IInv
<1> QED BY <1>8, <1>9

(* An upvalue is written to a closure.                                     *)
LEMMA CaptureWrites ==
  ASSUME NEW h, WellFormed(h), NEW a \in DOMAIN h, h[a].type = "closure",
         NEW n \in 1 .. Len(h[a].elems), NEW u, Typed(h, u, "upvalue")
  PROVE  /\ Evolves(h, Write(h, a, WithElems(h[a], Sub(h[a].elems, n, u))))
         /\ WithElems(h[a], Sub(h[a].elems, n, u)).type = "closure"
         /\ Len(WithElems(h[a], Sub(h[a].elems, n, u)).elems) = Len(h[a].elems)
<1> DEFINE es == h[a].elems
           ws == Sub(es, n, u)
           r == WithElems(h[a], ws)
<1>1. a \in Obj /\ es \in Seq(Val) /\ u \in Val
  BY ObjectIs DEF WellFormed, Typed, Val
<1>2. \A i \in DOMAIN es : es[i] = NIL \/ Typed(h, es[i], "upvalue")
  BY DEF WellFormed, Fits, Elements
<1> HIDE DEF es
<1>3. n \in 1 .. Len(es)
  BY DEF es
<1>4. /\ ws \in Seq(Val) /\ Len(ws) = Len(es) /\ DOMAIN ws = DOMAIN es /\ ws[n] = u
      /\ \A j \in DOMAIN es : j # n => ws[j] = es[j]
  <2>1. ws \in Seq(Val) /\ Len(ws) = Len(es)
    BY <1>1, <1>3, Replaced
  <2>2. n \in DOMAIN es
    BY <1>1, <1>3, LenProperties
  <2> QED BY <2>1, <2>2 DEF Sub
<1> HIDE DEF ws
<1>5. \A i \in DOMAIN ws : ws[i] = NIL \/ Typed(h, ws[i], "upvalue")
  BY <1>2, <1>4
<1>6. Fits(h, r) /\ r.type = h[a].type /\ r.elems = ws
  BY <1>4, <1>5, ElemsWritten
<1> HIDE DEF r
<1>7. Evolves(h, Write(h, a, r))
  BY <1>1, <1>6, WriteEvolves
<1> QED BY <1>4, <1>6, <1>7 DEF r, ws, es

(* The closure on top has its next upvalue.                                *)
LEMMA CaptureDone ==
  ASSUME IInv, Capture, Evolves(heap, heap'), Peek(0) \in DOMAIN heap',
         heap'[Peek(0)].type = "closure",
         Len(heap'[Peek(0)].elems) = Len(heap[Peek(0)].elems),
         OpenOK(heap', stack, open')
  PROVE  IInv'
<1> DEFINE a == Peek(0)
           es == heap[a].elems
<1>1. Sound /\ CallOK /\ c.at = "capture" /\ phase = "mutate"
  BY DEF Capture, IInv
<1>2. /\ c' = IF c.n = Len(heap[a].elems) THEN NoCall ELSE [c EXCEPT !.n = @ + 1]
      /\ UNCHANGED <<strings, stack, frames, globals, methods, consts, compilers, collector>>
  BY DEF Capture
<1>3. frames # <<>> /\ a \in DOMAIN heap /\ c.n \in 1 .. Len(es) /\ WellFormed(heap)
  BY <1>1 DEF CallOK, Is, Live, Sound
<1>4. es \in Seq(Val) /\ Len(es) \in Nat
  BY <1>3, ObjectIs, ElementsOfSeq
<1>5. c \in [at : {"none", "name", "intern", "constant", "script", "super",
                   "capture", "fill", "exit"},
             next : {"none", "name", "constant", "concat"},
             o : Val, s : {NIL}, n : Nat] /\ c.o = NIL
  BY <1>1 DEF CallOK
<1>6. CallOK' /\ c'.at # "intern"
  <2>1. CASE c.n = Len(es)
    BY <1>2, <2>1, DoneCall
  <2>2. CASE c.n # Len(es)
    <3>1. c' = [c EXCEPT !.n = @ + 1]
      BY <1>2, <2>2
    <3>2. c'.at = "capture" /\ c'.n = c.n + 1 /\ c'.o = NIL
      BY <1>1, <1>5, <3>1
    <3>3. c' \in [at : {"none", "name", "intern", "constant", "script", "super",
                        "capture", "fill", "exit"},
                  next : {"none", "name", "constant", "concat"},
                  o : Val, s : {NIL}, n : Nat]
      BY <1>5, <3>1
    <3>4. c.n + 1 \in 1 .. Len(es)
      BY <1>3, <1>4, <2>2
    <3>5. Peek(0)' = a
      BY <1>2 DEF Peek
    <3>6. Is(Peek(0), "closure")' /\ (c.n \in 1 .. Len(heap[Peek(0)].elems))' /\ frames' # <<>>
      BY <1>2, <1>3, <3>2, <3>4, <3>5 DEF Is, Live
    <3> QED BY <3>2, <3>3, <3>6 DEF CallOK
  <2> QED BY <2>1, <2>2
<1>7. StackOK(heap', stack') /\ FramesOK(heap', stack', frames')
  <2>1. StackOK(heap', stack)
    BY <1>1, StackEvolves
  <2>2. Kept(DOMAIN heap, heap, heap') /\ {frames[i].closure : i \in DOMAIN frames} \subseteq DOMAIN heap
    BY <1>1 DEF Evolves, Sound, FramesOK, Typed
  <2>3. FramesOK(heap', stack, frames)
    BY <1>1, <2>2, FramesKept DEF Sound
  <2> QED BY <1>2, <2>1, <2>3
<1>8. OpenOK(heap', stack', open') /\ consts' \subseteq Obj
  BY <1>1, <1>2 DEF Sound
<1>9. GlobalsOK(heap', globals') /\ CompilersOK(heap', compilers')
  BY <1>1, <1>2, RestEvolves
<1> QED BY <1>1, <1>2, <1>6, <1>7, <1>8, <1>9, MutatorStep DEF IInv

LEMMA CaptureStep == ASSUME IInv, Capture PROVE IInv'
<1> DEFINE a == Peek(0)
           es == heap[a].elems
<1>1. Sound /\ CallOK /\ c.at = "capture" /\ phase = "mutate"
  BY DEF Capture, IInv
<1>2. /\ frames # <<>> /\ a \in DOMAIN heap /\ heap[a].type = "closure" /\ c.n \in 1 .. Len(es)
      /\ WellFormed(heap)
  BY <1>1 DEF CallOK, Is, Live, Sound
<1>3. CASE /\ \E u \in Upvalues \cup {w \in DOMAIN open : open[w] >= Base} :
                heap' = [heap EXCEPT ![a].elems[c.n] = u]
           /\ UNCHANGED open
  <2>1. PICK u \in Upvalues \cup {w \in DOMAIN open : open[w] >= Base} :
          heap' = [heap EXCEPT ![a].elems[c.n] = u]
    BY <1>3
  <2>2. Typed(heap, u, "upvalue")
    BY <1>1, <1>2, UpvaluesAre DEF Sound, OpenOK
  <2> DEFINE r == WithElems(heap[a], Sub(es, c.n, u))
  <2>3. heap' = Write(heap, a, r)
    BY <1>2, <2>1 DEF Write, WithElems, Sub, WellFormed
  <2>4. Evolves(heap, Write(heap, a, r)) /\ r.type = "closure" /\ Len(r.elems) = Len(es)
    <3> HIDE DEF a
    <3> QED BY <1>2, <2>2, CaptureWrites
  <2>5. Evolves(heap, heap')
    BY <2>3, <2>4
  <2>6. /\ a \in DOMAIN heap' /\ heap'[a].type = "closure" /\ Len(heap'[a].elems) = Len(es)
    <3> HIDE DEF r
    <3> QED BY <1>2, <2>3, <2>4 DEF Write
  <2>7. OpenOK(heap', stack, open)
    <3>1. Kept(DOMAIN heap, heap, heap') /\ DOMAIN open \subseteq DOMAIN heap
      BY <1>1, <2>5 DEF Evolves, Sound, OpenOK, Typed
    <3> QED BY <1>1, <3>1, OpenKept DEF Sound
  <2> QED BY <1>3, <2>5, <2>6, <2>7, CaptureDone
<1>4. CASE \E s \in Locals \ Captured, o \in Free :
             /\ heap' = [Put(o, MkUpvalue) EXCEPT ![a].elems[c.n] = o]
             /\ open' = With(open, o, s)
  <2>1. PICK s \in Locals \ Captured, o \in Free :
             /\ heap' = [Put(o, MkUpvalue) EXCEPT ![a].elems[c.n] = o]
             /\ open' = With(open, o, s)
    BY <1>4
  <2> DEFINE g == Put(o, MkUpvalue)
  <2>2. /\ Evolves(heap, g) /\ o \in Obj /\ o \notin DOMAIN heap /\ Typed(g, o, "upvalue")
        /\ a \in DOMAIN g /\ g[a] = heap[a]
    <3> DEFINE r == MkUpvalue
    <3>1. o \in Obj /\ o \notin DOMAIN heap /\ g = Write(heap, o, r)
      BY DEF Free, Live, Put, Write
    <3>2. Fits(heap, r) /\ r.type = "upvalue"
      BY NewUpvalue
    <3> HIDE DEF r, g, a
    <3>3. o \in DOMAIN heap => r.type = heap[o].type
      BY <3>1
    <3>4. Evolves(heap, Write(heap, o, r))
      BY <1>2, <3>1, <3>2, <3>3, WriteEvolves
    <3>5. Typed(Write(heap, o, r), o, "upvalue")
      BY <3>2 DEF Write, Typed
    <3>6. a \in DOMAIN Write(heap, o, r) /\ Write(heap, o, r)[a] = heap[a]
      BY <1>2, <3>1 DEF Write
    <3> QED BY <3>1, <3>4, <3>5, <3>6
  <2>3. heap' = [g EXCEPT ![a].elems[c.n] = o]
    BY <2>1
  <2> HIDE DEF g
  <2> DEFINE r == WithElems(g[a], Sub(g[a].elems, c.n, o))
  <2>4. WellFormed(g)
    BY <2>2 DEF Evolves
  <2>5. heap' = Write(g, a, r)
    BY <2>2, <2>3, <2>4 DEF Write, WithElems, Sub, WellFormed
  <2>6. Evolves(g, Write(g, a, r)) /\ r.type = "closure" /\ Len(r.elems) = Len(g[a].elems)
    <3>1. c.n \in 1 .. Len(g[a].elems) /\ g[a].type = "closure"
      BY <1>2, <2>2
    <3> HIDE DEF a
    <3> QED BY <2>2, <2>4, <3>1, CaptureWrites
  <2>7. Evolves(heap, heap')
    <3>1. Evolves(g, heap')
      BY <2>5, <2>6
    <3> QED BY <2>2, <3>1, EvolvesTwice
  <2>8. /\ a \in DOMAIN heap' /\ heap'[a].type = "closure" /\ Len(heap'[a].elems) = Len(es)
    <3> HIDE DEF r
    <3> QED BY <1>2, <2>2, <2>5, <2>6 DEF Write
  <2>9. OpenOK(heap', stack, open')
    <3>1. Kept(DOMAIN heap, heap, heap') /\ DOMAIN open \subseteq DOMAIN heap
      BY <1>1, <2>7 DEF Evolves, Sound, OpenOK, Typed
    <3>2. OpenOK(heap', stack, open)
      BY <1>1, <3>1, OpenKept DEF Sound
    <3>3. /\ s \in Nat \ {0} /\ s <= Len(stack) /\ \A w \in DOMAIN open : open[w] # s
      <4>1. Base \in Nat \ {0} /\ Len(stack) \in Nat /\ s \in Base .. Len(stack) /\ s \notin Captured
        BY <1>1, <1>2, FrameIs DEF Locals
      <4>2. \A w \in DOMAIN open : open[w] # s
        BY <4>1 DEF Captured
      <4> QED BY <4>1, <4>2
    <3>4. /\ DOMAIN open' = DOMAIN open \cup {o} /\ open'[o] = s /\ o \notin DOMAIN open
          /\ \A w \in DOMAIN open : open'[w] = open[w]
          /\ open' = [w \in DOMAIN open' |-> open'[w]]
      BY <2>1, <2>2, <3>1 DEF With
    <3>5. Typed(heap', o, "upvalue")
      BY <2>2, <2>5, <2>6 DEF Evolves, Kept, Typed
    <3>6. open' \in [DOMAIN open' -> Nat \ {0}]
      BY <3>2, <3>3, <3>4 DEF OpenOK
    <3>7. \A u \in DOMAIN open' : Typed(heap', u, "upvalue") /\ open'[u] <= Len(stack)
      BY <3>2, <3>3, <3>4, <3>5 DEF OpenOK
    <3>8. \A u, w \in DOMAIN open' : open'[u] = open'[w] => u = w
      BY <3>2, <3>3, <3>4 DEF OpenOK
    <3> QED BY <3>6, <3>7, <3>8 DEF OpenOK
  <2> QED BY <2>7, <2>8, <2>9, CaptureDone
<1> QED BY <1>3, <1>4 DEF Capture

LEMMA CloseEvolves ==
  ASSUME Sound, NEW last, close_upvalues(last)
  PROVE  /\ Evolves(heap, heap') /\ DOMAIN open' \subseteq DOMAIN open
         /\ open' = [u \in DOMAIN open' |-> open[u]]
         /\ \A u \in DOMAIN open' : ~(open[u] >= last)
<1> DEFINE closing == {u \in DOMAIN open : open[u] >= last}
<1>1. /\ heap' = [o \in DOMAIN heap |-> IF o \in closing
                                       THEN WithHead(heap[o], stack[open[o]])
                                       ELSE heap[o]]
      /\ open' = [u \in DOMAIN open \ closing |-> open[u]]
  BY DEF close_upvalues, WithHead, Live
<1>2. WellFormed(heap) /\ Len(stack) \in Nat
  BY BelowTop DEF Sound
<1>3. ASSUME NEW o \in closing
      PROVE  /\ o \in DOMAIN heap /\ heap[o].type = "upvalue"
             /\ Fits(heap, WithHead(heap[o], stack[open[o]]))
             /\ WithHead(heap[o], stack[open[o]]).type = "upvalue"
  <2>1. Typed(heap, o, "upvalue") /\ open[o] \in Nat \ {0} /\ open[o] <= Len(stack)
    BY DEF Sound, OpenOK
  <2>2. open[o] \in 1 .. Len(stack)
    BY <1>2, <2>1
  <2>3. stack[open[o]] \in Val /\ Value(heap, stack[open[o]])
    BY <2>2, StackIs DEF Sound
  <2> DEFINE v == stack[open[o]]
  <2> HIDE DEF v
  <2>4. v \in Val /\ Value(heap, v) /\ o \in DOMAIN heap /\ heap[o].type = "upvalue"
    BY <2>1, <2>3 DEF v, Typed
  <2>5. Fits(heap, WithHead(heap[o], v)) /\ WithHead(heap[o], v).type = heap[o].type
    BY <1>2, <2>4, HeadWritten
  <2> QED BY <2>4, <2>5 DEF v
<1> HIDE DEF closing
<1>4. DOMAIN heap' = DOMAIN heap /\ heap' = [o \in DOMAIN heap' |-> heap'[o]]
  BY <1>1
<1>5. \A x \in DOMAIN heap' : Fits(heap, heap'[x]) \/ (x \in DOMAIN heap /\ heap'[x] = heap[x])
  BY <1>1, <1>3
<1>6. \A x \in DOMAIN heap : heap'[x].type = heap[x].type
  BY <1>1, <1>3
<1>7. \A x \in DOMAIN heap' : heap'[x].type = "string" => x \in DOMAIN heap /\ heap'[x] = heap[x]
  BY <1>1, <1>3
<1>8. DOMAIN heap' \subseteq Obj
  BY <1>2, <1>4 DEF WellFormed
<1>9. Evolves(heap, heap')
  BY <1>2, <1>4, <1>5, <1>6, <1>7, <1>8, WritesEvolve
<1>10. DOMAIN open' \subseteq DOMAIN open /\ open' = [u \in DOMAIN open' |-> open[u]]
  BY <1>1
<1>11. \A u \in DOMAIN open' : ~(open[u] >= last)
  BY <1>1 DEF closing
<1> QED BY <1>9, <1>10, <1>11

(* The upvalues that stay open.                                            *)
LEMMA OpenPart ==
  ASSUME NEW h, NEW s, NEW op, NEW r, NEW oq, OpenOK(h, s, op), DOMAIN oq \subseteq DOMAIN op,
         oq = [u \in DOMAIN oq |-> op[u]], \A u \in DOMAIN oq : op[u] <= Len(r)
  PROVE  OpenOK(h, r, oq)
BY DEF OpenOK

LEMMA CloseUpvalueStep == ASSUME IInv, CloseUpvalue PROVE IInv'
<1>1. Idle /\ frames # <<>> /\ Sound /\ CallOK /\ c.at = "none" /\ phase = "mutate"
  BY DEF CloseUpvalue, Running, IInv, Idle
<1>2. /\ close_upvalues(Len(stack)) /\ stack' = Cut(stack, 1) /\ Len(stack) > Base
      /\ UNCHANGED <<strings, frames, globals, methods, consts, compilers, c, collector>>
  BY DEF CloseUpvalue
<1>3. CallOK' /\ c'.at # "intern"
  BY <1>1, <1>2, QuietCall
<1>4. Base \in Nat \ {0} /\ Len(stack) \in Nat
  BY <1>1, FrameIs
<1>5. /\ Evolves(heap, heap') /\ DOMAIN open' \subseteq DOMAIN open
      /\ open' = [u \in DOMAIN open' |-> open[u]]
      /\ \A u \in DOMAIN open' : ~(open[u] >= Len(stack))
  BY <1>1, <1>2, CloseEvolves
<1>6. Kept(DOMAIN heap, heap, heap')
  BY <1>5 DEF Evolves
<1>7. StackOK(heap', stack') /\ Len(stack') = Len(stack) - 1
  <2>1. StackOK(heap', stack) /\ 1 \in Nat /\ 1 <= Len(stack)
    BY <1>1, <1>2, <1>4, <1>6, RestKept
  <2> QED BY <1>2, <2>1, StackCut
<1>8. FramesOK(heap', stack', frames')
  <2>1. FramesOK(heap', stack, frames)
    BY <1>1, <1>6, RestKept
  <2>2. frames[Len(frames)].slots <= Len(stack') /\ Len(stack') \in Nat
    BY <1>2, <1>4, <1>7 DEF Base, Top
  <2> QED BY <1>2, <2>1, <2>2, FramesFit
<1>9. OpenOK(heap', stack', open')
  <2>1. OpenOK(heap', stack, open)
    BY <1>1, <1>6, RestKept
  <2>2. \A u \in DOMAIN open' : open[u] \in Nat
    BY <1>5, <2>1 DEF OpenOK
  <2>3. \A u \in DOMAIN open' : open[u] <= Len(stack')
    BY <1>4, <1>5, <1>7, <2>2
  <2> QED BY <1>5, <2>1, <2>3, OpenPart
<1>10. GlobalsOK(heap', globals') /\ CompilersOK(heap', compilers') /\ consts' \subseteq Obj
  BY <1>1, <1>2, <1>6, RestKept
<1> QED BY <1>1, <1>2, <1>3, <1>5, <1>7, <1>8, <1>9, <1>10, MutatorStep DEF IInv

LEMMA ReturnStep == ASSUME IInv, Return PROVE IInv'
<1>1. Idle /\ frames # <<>> /\ Sound /\ CallOK /\ c.at = "none" /\ phase = "mutate"
  BY DEF Return, Running, IInv, Idle
<1>2. /\ close_upvalues(Base) /\ frames' = Cut(frames, 1) /\ Temporary(1)
      /\ stack' = IF Len(frames) = 1 THEN Cut(stack, 2)
                                     ELSE Append(SubSeq(stack, 1, Base - 1), Peek(0))
      /\ UNCHANGED <<strings, globals, methods, consts, compilers, c, collector>>
  BY DEF Return
<1>3. CallOK' /\ c'.at # "intern"
  BY <1>1, <1>2, QuietCall
<1>4. /\ Base \in Nat \ {0} /\ Len(stack) \in Nat /\ Base + 1 <= Len(stack)
      /\ Len(frames) \in Nat \ {0} /\ DOMAIN frames = 1 .. Len(frames)
  <2>1. Base <= Len(stack) - 1
    BY <1>1, <1>2, TemporaryIsRoom
  <2> QED BY <1>1, <2>1, FrameIs
<1>5. /\ Evolves(heap, heap') /\ DOMAIN open' \subseteq DOMAIN open
      /\ open' = [u \in DOMAIN open' |-> open[u]]
      /\ \A u \in DOMAIN open' : ~(open[u] >= Base)
  BY <1>1, <1>2, CloseEvolves
<1>6. Kept(DOMAIN heap, heap, heap')
  BY <1>5 DEF Evolves
<1>7. /\ StackOK(heap', stack') /\ Base - 1 <= Len(stack') /\ Len(stack') \in Nat
      /\ Len(frames) # 1 => Base <= Len(stack')
  <2>1. StackOK(heap', stack)
    BY <1>1, <1>6, RestKept
  <2>2. CASE Len(frames) = 1
    <3>1. stack' = Cut(stack, 2) /\ 2 \in Nat /\ 2 <= Len(stack)
      BY <1>2, <1>4, <2>2
    <3>2. StackOK(heap', stack') /\ Len(stack') = Len(stack) - 2
      BY <2>1, <3>1, StackCut
    <3> QED BY <1>4, <2>2, <3>1, <3>2
  <2>3. CASE Len(frames) # 1
    <3> DEFINE n == Len(stack) - (Base - 1)
               v == Peek(0)
    <3>1. n \in Nat /\ n <= Len(stack) /\ Len(stack) - n = Base - 1 /\ 0 < Len(stack)
      BY <1>4
    <3>2. v \in Val /\ Value(heap, v)
      BY <1>1, <3>1, Peeked
    <3>3. Value(heap', v)
      BY <1>1, <1>6, <3>2, RestKept
    <3>4. stack' = Append(Cut(stack, n), v)
      BY <1>2, <2>3, <3>1 DEF Cut
    <3> HIDE DEF n, v
    <3>5. StackOK(heap', stack') /\ Len(stack') = Len(stack) - n + 1
      BY <2>1, <3>1, <3>2, <3>3, <3>4, StackReplace
    <3> QED BY <1>4, <3>1, <3>5
  <2> QED BY <2>2, <2>3
<1>8. FramesOK(heap', stack', frames')
  <2>1. FramesOK(heap', stack, frames)
    BY <1>1, <1>6, RestKept
  <2>2. /\ frames \in Seq([closure : Obj, slots : Nat \ {0}])
        /\ \A i \in DOMAIN frames : Typed(heap', frames[i].closure, "closure")
        /\ \A i, j \in DOMAIN frames : i < j => frames[i].slots < frames[j].slots
    BY <2>1 DEF FramesOK
  <2>3. /\ frames' \in Seq([closure : Obj, slots : Nat \ {0}])
        /\ DOMAIN frames' = 1 .. Len(frames) - 1
        /\ \A i \in 1 .. Len(frames) - 1 : frames'[i] = frames[i]
    <3>1. 1 \in Nat /\ 1 <= Len(frames)
      BY <1>4
    <3> QED BY ZenonT(30), <1>2, <2>2, <3>1, CutOff
  <2>4. \A i \in DOMAIN frames' : i \in DOMAIN frames /\ Len(frames) \in DOMAIN frames /\ i < Len(frames)
    BY <1>4, <2>3
  <2>5. \A i \in DOMAIN frames' : frames'[i].slots <= Len(stack')
    <3> SUFFICES ASSUME NEW i \in DOMAIN frames' PROVE frames'[i].slots <= Len(stack')
      OBVIOUS
    <3>1. frames[i].slots < Base /\ frames'[i] = frames[i]
      BY <2>2, <2>3, <2>4 DEF Base, Top
    <3>2. \A j \in DOMAIN frames : frames[j] \in [closure : Obj, slots : Nat \ {0}]
      BY <2>2, ElementsOfSeq
    <3>3. i \in 1 .. Len(frames) - 1 /\ frames[i].slots \in Nat
      BY <2>3, <2>4, <3>2
    <3>4. Len(frames) # 1
      BY <1>4, <3>3
    <3> QED BY <1>4, <1>7, <3>1, <3>3, <3>4
  <2>6. \A i \in DOMAIN frames' : Typed(heap', frames'[i].closure, "closure")
    BY <2>2, <2>3, <2>4
  <2>7. \A i, j \in DOMAIN frames' : i < j => frames'[i].slots < frames'[j].slots
    <3> SUFFICES ASSUME NEW i \in DOMAIN frames', NEW j \in DOMAIN frames', i < j
                 PROVE  frames'[i].slots < frames'[j].slots
      OBVIOUS
    <3>1. /\ i \in DOMAIN frames /\ j \in DOMAIN frames
          /\ frames'[i] = frames[i] /\ frames'[j] = frames[j]
      BY <2>3, <2>4
    <3> QED BY <2>2, <3>1
  <2> QED BY <2>3, <2>5, <2>6, <2>7 DEF FramesOK
<1>9. OpenOK(heap', stack', open')
  <2>1. OpenOK(heap', stack, open)
    BY <1>1, <1>6, RestKept
  <2>2. \A u \in DOMAIN open' : open[u] \in Nat
    BY <1>5, <2>1 DEF OpenOK
  <2>3. \A u \in DOMAIN open' : open[u] <= Len(stack')
    BY <1>4, <1>5, <1>7, <2>2
  <2> QED BY <1>5, <2>1, <2>3, OpenPart
<1>10. GlobalsOK(heap', globals') /\ CompilersOK(heap', compilers') /\ consts' \subseteq Obj
  BY <1>1, <1>2, <1>6, RestKept
<1> QED BY <1>1, <1>2, <1>3, <1>5, <1>7, <1>8, <1>9, <1>10, MutatorStep DEF IInv
-----------------------------------------------------------------------------
(* Strings.                                                                *)

LEMMA InnermostIs ==
  ASSUME Sound, compilers # <<>>
  PROVE  /\ Len(compilers) \in Nat \ {0} /\ DOMAIN compilers = 1 .. Len(compilers)
         /\ Typed(heap, Top(compilers), "function") /\ Top(compilers) \in DOMAIN heap
<1>1. compilers \in Seq(Obj) /\ \A i \in DOMAIN compilers : Typed(heap, compilers[i], "function")
  BY DEF Sound, CompilersOK
<1>2. Len(compilers) \in Nat \ {0} /\ DOMAIN compilers = 1 .. Len(compilers)
  BY <1>1, ElementsOfSeq, EmptySeq
<1>3. Len(compilers) \in DOMAIN compilers
  BY <1>2
<1> QED BY <1>1, <1>2, <1>3 DEF Top, Typed

(* Naming a function writes it, and every other result leaves the heap.    *)
LEMMA ResultEvolves ==
  ASSUME Sound, NEW s, NEW next, NEW stk, Result(s, next, stk), Typed(heap, s, "string"),
         next = "name" => compilers # <<>>
  PROVE  Evolves(heap, heap')
<1>1. heap' = IF next = "name" THEN [heap EXCEPT ![Top(compilers)].head = s] ELSE heap
  BY DEF Result
<1>2. CASE next # "name"
  BY <1>1, <1>2, HeapStays
<1>3. CASE next = "name"
  <2> DEFINE f == Top(compilers)
             r == WithHead(heap[f], s)
  <2>1. f \in DOMAIN heap /\ heap[f].type = "function" /\ WellFormed(heap)
    BY <1>3, InnermostIs DEF Typed, Sound
  <2>2. s \in Val
    BY <2>1 DEF Typed, WellFormed, Val
  <2>3. heap' = Write(heap, f, r)
    BY <1>1, <1>3, <2>1 DEF Write, WithHead, WellFormed
  <2> HIDE DEF f
  <2>4. Fits(heap, r) /\ r.type = heap[f].type
    BY <2>1, <2>2, HeadWritten
  <2> HIDE DEF r
  <2> QED BY <2>1, <2>3, <2>4, UpdateEvolves
<1> QED BY <1>2, <1>3

(* The table holds all strings again when allocate_string is done.         *)
LEMMA StringsDone ==
  ASSUME Sound, phase = "mutate", UNCHANGED collector, Evolves(heap, heap'),
         strings' = strings \cup Pending, \A p \in Pending : Typed(heap, p, "string"),
         c'.at # "intern"
  PROVE  StringsOK'
<1>1. /\ Kept(DOMAIN heap, heap, heap')
      /\ \A p \in DOMAIN heap' : heap'[p].type = "string" => p \in DOMAIN heap /\ heap'[p] = heap[p]
  BY DEF Evolves
<1>2. StringsOK
  BY DEF Sound
<1>3. \A s \in strings' : Typed(heap', s, "string")
  BY <1>1, <1>2 DEF StringsOK, Kept, Typed
<1>4. ASSUME NEW o \in DOMAIN heap', heap'[o].type = "string" PROVE o \in strings'
  BY <1>1, <1>2, <1>4 DEF StringsOK, Live
<1>5. ASSUME NEW s \in DOMAIN heap', NEW t \in DOMAIN heap', heap'[s].type = "string",
             heap'[t].type = "string", heap'[s].head = heap'[t].head
      PROVE  s = t
  BY <1>1, <1>2, <1>5 DEF StringsOK, Live
<1> QED BY <1>3, <1>4, <1>5 DEF StringsOK, Live

LEMMA ResultStep ==
  ASSUME Sound, phase = "mutate", NEW s, NEW next \in {"name", "constant", "concat"}, NEW stk,
         Result(s, next, stk), Typed(heap, s, "string"), StackOK(heap, stk), Below(Len(stk)),
         next \in {"name", "constant"} => compilers # <<>>,
         next = "concat" => 2 <= Len(stk) /\ Below(Len(stk) - 2),
         strings' = strings \cup Pending, \A p \in Pending : Typed(heap, p, "string"),
         UNCHANGED <<frames, open, globals, methods, consts, compilers, collector>>
  PROVE  IInv'
<1>1. Evolves(heap, heap') /\ Kept(DOMAIN heap, heap, heap') /\ WellFormed(heap')
  BY ResultEvolves DEF Evolves
<1>2. /\ GlobalsOK(heap', globals') /\ CompilersOK(heap', compilers') /\ consts' \subseteq Obj
      /\ \A v : Value(heap, v) => Value(heap', v)
  BY <1>1, RestKept
<1>3. StackOK(heap', stk) /\ Len(stk) \in Nat
  BY <1>2, StackIs DEF StackOK
<1>4. s \in Val /\ Value(heap', s)
  <2>1. s \in Obj
    BY DEF Typed, Sound, WellFormed
  <2> QED BY <1>2, <2>1 DEF Typed, Value, Val
<1>5. CASE next = "constant"
  <2>1. stack' = Append(stk, s) /\ c' = At("constant")
    BY <1>5 DEF Result
  <2>2. StackOK(heap', stack') /\ Len(stack') = Len(stk) + 1
    BY <1>3, <1>4, <2>1, StackAppend
  <2>3. Below(Len(stack'))
    BY <1>3, <2>2, BelowMore
  <2>4. c' = [at |-> "constant", next |-> "none", o |-> NIL, s |-> NIL, n |-> 0]
    BY <2>1, AtIs
  <2>5. Room(1)'
    <3>1. 1 <= Len(stack') /\ Len(stack') - 1 = Len(stk)
      BY <1>3, <2>2
    <3> QED BY <3>1 DEF Room, Below, Base, Top
  <2>6. CallOK'
    BY <1>5, <2>4, <2>5 DEF CallOK, Val
  <2>7. StringsOK'
    BY <1>1, <2>4, StringsDone
  <2>8. FramesOK(heap', stack', frames) /\ OpenOK(heap', stack', open)
    BY <1>1, <2>2, <2>3, BelowFits
  <2> QED BY <1>1, <1>2, <2>2, <2>6, <2>7, <2>8, ProgramStep DEF IInv
<1>6. CASE next # "constant"
  <2>1. c' = NoCall
    BY <1>6 DEF Result
  <2>2. StackOK(heap', stack') /\ Below(Len(stack'))
    <3>1. CASE next = "name"
      <4>1. stack' = stk
        BY <3>1 DEF Result
      <4> QED BY <1>3, <4>1
    <3>2. CASE next = "concat"
      <4>1. stack' = Append(Cut(stk, 2), s)
        BY <3>2 DEF Result
      <4>2. 2 \in Nat /\ 2 <= Len(stk) /\ Len(stk) - 2 \in Nat
        BY <1>3, <3>2
      <4>3. StackOK(heap', stack') /\ Len(stack') = Len(stk) - 2 + 1
        BY <1>3, <1>4, <4>1, <4>2, StackReplace
      <4>4. Len(stack') \in Nat /\ Len(stk) - 2 <= Len(stack')
        BY <1>3, <4>2, <4>3
      <4> QED BY <3>2, <4>2, <4>3, <4>4, BelowMore
    <3> QED BY <1>6, <3>1, <3>2
  <2>3. CallOK' /\ c'.at # "intern"
    BY <2>1, DoneCall
  <2>4. StringsOK'
    BY <1>1, <2>3, StringsDone
  <2>5. FramesOK(heap', stack', frames) /\ OpenOK(heap', stack', open)
    BY <1>1, <2>2, BelowFits
  <2> QED BY <1>1, <1>2, <2>2, <2>3, <2>4, <2>5, ProgramStep DEF IInv
<1> QED BY <1>5, <1>6

LEMMA InternStep == ASSUME IInv, Intern PROVE IInv'
<1>1. Sound /\ CallOK /\ phase = "mutate" /\ c.at = "intern"
  BY DEF Intern, IInv
<1>2. /\ strings' = strings \cup {Top(stack)} /\ Result(Top(stack), c.next, Cut(stack, 1))
      /\ UNCHANGED <<frames, open, globals, methods, consts, compilers, collector>>
  BY DEF Intern
<1>3. Pending = {Top(stack)}
  BY <1>1 DEF Pending
<1>4. /\ Room(1) /\ Typed(heap, Top(stack), "string")
      /\ \/ c.next \in {"name", "constant"} /\ compilers # <<>>
         \/ c.next = "concat" /\ Room(3)
  BY <1>1 DEF CallOK
<1>5. Len(stack) \in Nat /\ StackOK(heap, stack) /\ 1 <= Len(stack)
  BY <1>1, <1>4, BelowTop DEF Sound, Room
<1> DEFINE stk == Cut(stack, 1)
           next == c.next
           s == Top(stack)
<1>6. StackOK(heap, stk) /\ Len(stk) = Len(stack) - 1
  BY <1>5, StackCut
<1>7. Below(Len(stk))
  BY <1>4, <1>6 DEF Room
<1>8. next = "concat" => 2 <= Len(stk) /\ Below(Len(stk) - 2)
  <2>1. Len(stk) - 2 = Len(stack) - 3
    BY <1>5, <1>6
  <2>2. CASE Room(3)
    BY <1>5, <1>6, <2>1, <2>2 DEF Room
  <2> QED BY <1>4, <2>2
<1>9. /\ next \in {"name", "constant", "concat"}
      /\ next \in {"name", "constant"} => compilers # <<>>
  BY <1>4
<1>10. Result(s, next, stk) /\ Typed(heap, s, "string") /\ \A p \in Pending : Typed(heap, p, "string")
  BY <1>2, <1>3, <1>4
<1> HIDE DEF stk, next, s
<1> QED BY <1>1, <1>2, <1>3, <1>6, <1>7, <1>8, <1>9, <1>10, ResultStep

LEMMA CopyStringStep ==
  ASSUME IInv, phase = "mutate", c.at \in {"none", "name"}, NEW txt \in Text,
         NEW next \in {"name", "constant", "concat"},
         CopyString(txt, next),
         next \in {"name", "constant"} => compilers # <<>>,
         next = "concat" => 2 <= Len(stack) /\ Below(Len(stack) - 2)
  PROVE  IInv'
<1>1. Sound /\ CallOK /\ Pending = {} /\ StackOK(heap, stack) /\ WellFormed(heap)
  BY DEF IInv, Pending, Sound
<1>2. UNCHANGED <<strings, frames, open, globals, methods, consts, compilers, collector>>
  BY DEF CopyString
<1>3. Len(stack) \in Nat /\ Below(Len(stack))
  BY <1>1, BelowTop
<1>4. ASSUME NEW s \in strings, Result(s, next, stack)
      PROVE  IInv'
  <2>1. Typed(heap, s, "string")
    BY <1>1 DEF Sound, StringsOK
  <2> QED BY <1>1, <1>2, <1>3, <1>4, <2>1, ResultStep
<1>5. ASSUME \A s \in strings : heap[s].head # txt, NEW o \in Free,
             heap' = Put(o, MkString(txt)), stack' = Append(stack, o),
             c' = [c EXCEPT !.at = "intern", !.next = next]
      PROVE  IInv'
  <2>1. o \in Obj \ DOMAIN heap /\ heap' = Write(heap, o, MkString(txt))
    BY <1>5 DEF Free, Live, Put, Write
  <2>2. /\ WellFormed(heap') /\ Kept(DOMAIN heap, heap, heap')
        /\ DOMAIN heap' = DOMAIN heap \cup {o} /\ heap'[o] = MkString(txt)
        /\ \A p \in DOMAIN heap : heap'[p] = heap[p]
    <3>1. WellFormed(heap) /\ o \in Obj \ DOMAIN heap /\ heap' = Write(heap, o, MkString(txt))
      BY <1>1, <2>1
    <3>2. WellFormed(heap') /\ Kept(DOMAIN heap, heap, heap')
      BY <3>1, NewString
    <3>3. DOMAIN heap' = DOMAIN heap \cup {o} /\ heap'[o] = MkString(txt)
      BY <3>1 DEF Write
    <3>4. \A p \in DOMAIN heap : heap'[p] = heap[p]
      BY <3>1 DEF Write
    <3> QED BY <3>2, <3>3, <3>4
  <2>3. Typed(heap', o, "string") /\ heap'[o].head = txt
    BY <2>2 DEF Typed, MkString
  <2>4. /\ StackOK(heap', stack) /\ GlobalsOK(heap', globals')
        /\ CompilersOK(heap', compilers') /\ consts' \subseteq Obj
    BY <1>1, <1>2, <2>2, RestKept
  <2>5. StackOK(heap', stack') /\ Len(stack') = Len(stack) + 1 /\ Top(stack') = o
    <3>1. o \in Val /\ Value(heap', o)
      BY <2>1, <2>3 DEF Val, Value, Typed
    <3> QED BY <1>5, <2>4, <3>1, StackAppend
  <2>6. Below(Len(stack'))
    BY <1>1, <1>3, <2>5, BelowMore
  <2>7. FramesOK(heap', stack', frames) /\ OpenOK(heap', stack', open)
    BY <1>1, <2>2, <2>5, <2>6, BelowFits
  <2>8. /\ c'.at = "intern" /\ c'.next = next /\ c'.o = NIL
        /\ c' \in [at : {"none", "name", "intern", "constant", "script", "super",
                         "capture", "fill", "exit"},
                   next : {"none", "name", "constant", "concat"},
                   o : Val, s : {NIL}, n : Nat]
    BY <1>1, <1>5 DEF CallOK
  <2>9. Room(1)' /\ (next = "concat" => Room(3)')
    <3>1. 1 <= Len(stack') /\ Len(stack') - 1 = Len(stack)
      BY <1>3, <2>5
    <3>2. next = "concat" => 3 <= Len(stack') /\ Len(stack') - 3 = Len(stack) - 2
      BY <1>3, <2>5
    <3> QED BY <1>2, <1>3, <3>1, <3>2 DEF Room, Below, Base, Top
  <2>10. CallOK'
    <3>1. Typed(heap', Top(stack'), "string")
      BY <2>3, <2>5
    <3>2. \/ c'.next \in {"name", "constant"} /\ compilers' # <<>>
          \/ c'.next = "concat" /\ Room(3)'
      BY <1>2, <2>8, <2>9
    <3> QED BY <2>8, <2>9, <3>1, <3>2 DEF CallOK
  <2>11. StringsOK'
    <3>1. Pending' = {o}
      BY <2>5, <2>8 DEF Pending
    <3>2. \A s \in strings' : Typed(heap', s, "string")
      BY <1>1, <1>2, <2>2 DEF Sound, StringsOK, Typed
    <3>3. \A p \in DOMAIN heap : heap[p].type = "string" => p \in strings
      BY <1>1 DEF Sound, StringsOK, Live
    <3>4. ASSUME NEW p \in DOMAIN heap', heap'[p].type = "string" PROVE p \in strings' \cup Pending'
      BY <1>2, <2>2, <3>1, <3>3, <3>4
    <3>5. ASSUME NEW s \in DOMAIN heap', NEW t \in DOMAIN heap', heap'[s].type = "string",
                 heap'[t].type = "string", heap'[s].head = heap'[t].head
          PROVE  s = t
      <4>1. \A p \in DOMAIN heap : heap[p].type = "string" => heap[p].head # txt
        BY <1>5, <3>3
      <4>2. CASE s # o /\ t # o
        BY <1>1, <2>2, <3>5, <4>2 DEF Sound, StringsOK, Live
      <4>3. CASE s = o \/ t = o
        BY <2>2, <2>3, <3>5, <4>1, <4>3
      <4> QED BY <4>2, <4>3
    <3> QED BY <3>2, <3>4, <3>5 DEF StringsOK, Live
  <2> QED BY <1>1, <1>2, <2>2, <2>4, <2>5, <2>7, <2>10, <2>11, ProgramStep DEF IInv
<1> QED BY <1>4, <1>5 DEF CopyString

LEMMA NameFunctionStep == ASSUME IInv, NEW txt \in Text, NameFunction(txt) PROVE IInv'
<1>1. phase = "mutate" /\ c.at = "name" /\ CopyString(txt, "name")
  BY DEF NameFunction
<1>2. compilers # <<>>
  BY <1>1 DEF IInv, CallOK
<1> QED BY <1>1, <1>2, CopyStringStep

LEMMA StringConstantStep == ASSUME IInv, NEW txt \in Text, StringConstant(txt) PROVE IInv'
<1>1. phase = "mutate" /\ c.at = "none" /\ compilers # <<>> /\ CopyString(txt, "constant")
  BY DEF StringConstant, Compiling, Idle
<1> QED BY <1>1, CopyStringStep

LEMMA ConcatenateStep == ASSUME IInv, NEW txt \in Text, Concatenate(txt) PROVE IInv'
<1>1. /\ phase = "mutate" /\ c.at = "none" /\ frames # <<>> /\ Temporary(2)
      /\ CopyString(txt, "concat")
  BY DEF Concatenate, Running, Idle
<1>2. 2 < Len(stack) /\ Below(Len(stack) - 2) /\ Len(stack) \in Nat
  BY <1>1, TemporaryIsRoom DEF IInv
<1>3. 2 <= Len(stack)
  BY <1>2
<1> QED BY <1>1, <1>2, <1>3, CopyStringStep
-----------------------------------------------------------------------------
(* The compiler.                                                           *)

LEMMA CompilersAppend ==
  ASSUME NEW h, NEW cs, CompilersOK(h, cs), NEW f \in Obj, Typed(h, f, "function")
  PROVE  CompilersOK(h, Append(cs, f)) /\ Append(cs, f) # <<>>
<1>1. cs \in Seq(Obj) /\ \A i \in DOMAIN cs : Typed(h, cs[i], "function")
  BY DEF CompilersOK
<1>2. /\ Append(cs, f) \in Seq(Obj) /\ DOMAIN Append(cs, f) = 1 .. Len(cs) + 1
      /\ DOMAIN cs = 1 .. Len(cs) /\ Append(cs, f)[Len(cs) + 1] = f /\ Len(cs) \in Nat
      /\ Len(Append(cs, f)) = Len(cs) + 1
  BY <1>1, Appended
<1>3. \A i \in 1 .. Len(cs) : Append(cs, f)[i] = cs[i]
  BY <1>1, Appended
<1>4. ASSUME NEW i \in 1 .. Len(cs) + 1 PROVE Typed(h, Append(cs, f)[i], "function")
  <2>1. i \in 1 .. Len(cs) \/ i = Len(cs) + 1
    BY <1>2
  <2> QED BY <1>1, <1>2, <1>3, <2>1
<1>5. Append(cs, f) # <<>>
  BY <1>2, EmptySeq
<1> QED BY <1>2, <1>4, <1>5 DEF CompilersOK

LEMMA CompilersCut ==
  ASSUME NEW h, NEW cs, CompilersOK(h, cs), cs # <<>>
  PROVE  CompilersOK(h, Cut(cs, 1)) /\ (Len(cs) > 1 => Cut(cs, 1) # <<>>)
<1>1. cs \in Seq(Obj) /\ \A i \in DOMAIN cs : Typed(h, cs[i], "function")
  BY DEF CompilersOK
<1>2. Len(cs) \in Nat \ {0} /\ 1 \in Nat /\ 1 <= Len(cs)
  BY <1>1, ElementsOfSeq, EmptySeq
<1>3. /\ Cut(cs, 1) \in Seq(Obj) /\ Len(Cut(cs, 1)) = Len(cs) - 1
      /\ DOMAIN Cut(cs, 1) = 1 .. Len(cs) - 1 /\ DOMAIN cs = 1 .. Len(cs)
  BY <1>1, <1>2, CutOff
<1>4. \A i \in 1 .. Len(cs) - 1 : Cut(cs, 1)[i] = cs[i]
  BY <1>1, <1>2, CutOff
<1>5. \A i \in 1 .. Len(cs) - 1 : i \in DOMAIN cs
  BY <1>2, <1>3
<1>6. Len(cs) > 1 => Cut(cs, 1) # <<>>
  BY <1>2, <1>3, EmptySeq
<1> QED BY <1>1, <1>3, <1>4, <1>5, <1>6 DEF CompilersOK

LEMMA InitCompilerStep == ASSUME IInv, init_compiler PROVE IInv'
<1>1. Idle /\ Sound /\ CallOK /\ c.at = "none" /\ phase = "mutate"
  BY DEF init_compiler, Resting, Compiling, IInv, Idle
<1>2. PICK f \in Free : heap' = Put(f, MkFunction) /\ compilers' = Append(compilers, f)
  BY DEF init_compiler
<1>3. /\ c' = IF compilers = <<>> THEN NoCall ELSE At("name")
      /\ UNCHANGED <<strings, stack, frames, open, globals, methods, consts, collector>>
  BY DEF init_compiler
<1> DEFINE r == MkFunction
<1>4. Fits(heap, r) /\ r.type = "function" /\ heap' = Put(f, r)
  BY <1>2, NewFunction
<1> HIDE DEF r
<1>5. Evolves(heap, heap') /\ f \in Obj /\ Typed(heap', f, "function")
  BY <1>1, <1>4, PutEvolves
<1>6. Kept(DOMAIN heap, heap, heap')
  BY <1>5 DEF Evolves
<1>7. /\ StackOK(heap', stack) /\ FramesOK(heap', stack, frames)
      /\ OpenOK(heap', stack, open) /\ GlobalsOK(heap', globals)
      /\ CompilersOK(heap', compilers) /\ consts \subseteq Obj
  BY <1>1, <1>6, RestKept
<1>8. CompilersOK(heap', compilers') /\ compilers' # <<>>
  BY <1>2, <1>5, <1>7, CompilersAppend
<1>9. CallOK' /\ c'.at # "intern"
  <2>1. CASE compilers = <<>>
    BY <1>3, <2>1, DoneCall
  <2>2. CASE compilers # <<>>
    <3>1. c' = [at |-> "name", next |-> "none", o |-> NIL, s |-> NIL, n |-> 0]
      BY <1>3, <2>2, AtIs
    <3> QED BY <1>8, <3>1 DEF CallOK, Val
  <2> QED BY <2>1, <2>2
<1> QED BY <1>1, <1>3, <1>5, <1>7, <1>8, <1>9, MutatorStep DEF IInv

LEMMA AddConstantStep == ASSUME IInv, AddConstant PROVE IInv'
<1>1. Sound /\ CallOK /\ c.at = "constant" /\ phase = "mutate"
  BY DEF AddConstant, IInv
<1>2. /\ heap' = [heap EXCEPT ![Top(compilers)].elems = Append(@, Top(stack))]
      /\ stack' = Cut(stack, 1) /\ c' = NoCall
      /\ UNCHANGED <<strings, frames, open, globals, methods, consts, compilers, collector>>
  BY DEF AddConstant
<1>3. compilers # <<>> /\ 1 <= Len(stack) /\ Below(Len(stack) - 1) /\ Len(stack) \in Nat
  BY <1>1, BelowTop DEF CallOK, Room
<1> DEFINE f == Top(compilers)
           v == Top(stack)
           es == Append(heap[f].elems, v)
<1>4. f \in DOMAIN heap /\ heap[f].type = "function" /\ WellFormed(heap)
  BY <1>1, <1>3, InnermostIs DEF Typed, Sound
<1>5. v \in Val /\ Value(heap, v)
  <2>1. Len(stack) \in 1 .. Len(stack)
    BY <1>3
  <2> QED BY <1>1, <2>1, StackIs DEF Sound, Top
<1>6. heap' = Write(heap, f, WithElems(heap[f], es))
  BY <1>2, <1>4 DEF Write, WithElems, WellFormed
<1> HIDE DEF f, v
<1>7. StackOK(heap, heap[f].elems)
  BY <1>4, ObjectIs DEF StackOK
<1>8. StackOK(heap, es)
  BY <1>5, <1>7, StackAppend
<1> HIDE DEF es
<1>9. Evolves(heap, heap')
  BY <1>1, <1>4, <1>6, <1>8, ElemsEvolve
<1>10. StackOK(heap', stack') /\ Len(stack') = Len(stack) - 1
  <2>1. StackOK(heap', stack) /\ 1 \in Nat
    BY <1>1, <1>9, StackEvolves
  <2> QED BY ZenonT(30), <1>2, <1>3, <2>1, StackCut
<1>11. CallOK' /\ c'.at # "intern" /\ Below(Len(stack'))
  BY <1>2, <1>3, <1>10, DoneCall
<1> QED BY <1>1, <1>2, <1>9, <1>10, <1>11, StackStep DEF IInv

LEMMA DefineConstStep == ASSUME IInv, DefineConst PROVE IInv'
<1>1. Idle /\ Sound /\ CallOK /\ c.at = "none" /\ phase = "mutate"
  BY DEF DefineConst, Compiling, IInv, Idle
<1>2. PICK k \in Elements(heap[Top(compilers)].elems) : Is(k, "string") /\ consts' = consts \cup {k}
  BY DEF DefineConst
<1>3. UNCHANGED <<heap, strings, stack, frames, open, globals, methods, compilers, c, collector>>
  BY DEF DefineConst
<1>4. consts' \subseteq Obj
  BY <1>1, <1>2 DEF Is, Live, Sound, WellFormed
<1>5. CallOK' /\ c'.at # "intern" /\ Evolves(heap, heap')
  BY <1>1, <1>3, QuietCall, HeapStays
<1> QED BY <1>1, <1>3, <1>4, <1>5, MutatorStep DEF IInv, Sound

(* end_compiler of the script after an error.                              *)
LEMMA DropScript ==
  ASSUME IInv, Idle, compilers # <<>>, compilers' = Cut(compilers, 1), UNCHANGED <<stack, c>>,
         UNCHANGED <<heap, strings, frames, open, globals, methods, consts, collector>>
  PROVE  IInv'
<1>1. Sound /\ CallOK /\ c.at = "none" /\ phase = "mutate"
  BY DEF IInv, Idle
<1>2. CompilersOK(heap, compilers')
  BY <1>1, CompilersCut DEF Sound
<1>3. CallOK' /\ c'.at # "intern" /\ Evolves(heap, heap')
  BY <1>1, QuietCall, HeapStays
<1> QED BY <1>1, <1>2, <1>3, MutatorStep DEF IInv, Sound

(* end_compiler pushes the function.                                       *)
LEMMA PushFunction ==
  ASSUME IInv, Idle, compilers # <<>>, compilers' = Cut(compilers, 1),
         stack' = Append(stack, Top(compilers)),
         \/ c' = At("constant") /\ Len(compilers) > 1
         \/ c' = At("script"),
         UNCHANGED <<heap, strings, frames, open, globals, methods, consts, collector>>
  PROVE  IInv'
<1>1. Sound /\ CallOK /\ c.at = "none" /\ phase = "mutate"
  BY DEF IInv, Idle
<1> DEFINE f == Top(compilers)
<1>2. CompilersOK(heap, compilers') /\ (Len(compilers) > 1 => compilers' # <<>>)
  BY <1>1, CompilersCut DEF Sound
<1>3. f \in Val /\ Value(heap, f) /\ Typed(heap, f, "function")
  BY <1>1, InnermostIs DEF Value, Val, Sound, WellFormed
<1>4. Evolves(heap, heap') /\ Len(stack) \in Nat /\ Below(Len(stack)) /\ StackOK(heap, stack)
  BY <1>1, HeapStays, BelowTop DEF Sound
<1> HIDE DEF f
<1>5. StackOK(heap, stack') /\ Len(stack') = Len(stack) + 1 /\ Top(stack') = f
  BY <1>3, <1>4, StackAppend DEF f
<1>6. Below(Len(stack')) /\ Kept(DOMAIN heap, heap, heap')
  BY <1>1, <1>4, <1>5, BelowMore DEF Evolves
<1>7. FramesOK(heap, stack', frames) /\ OpenOK(heap, stack', open)
  <2>1. FramesOK(heap', stack', frames) /\ OpenOK(heap', stack', open)
    BY <1>1, <1>5, <1>6, BelowFits
  <2> QED BY <2>1
<1>8. Room(1)'
  <2>1. 1 <= Len(stack') /\ Len(stack') - 1 = Len(stack)
    BY <1>4, <1>5
  <2> QED BY <1>4, <2>1 DEF Room, Below, Base, Top
<1>9. CallOK' /\ c'.at # "intern"
  <2>1. CASE c' = At("constant") /\ Len(compilers) > 1
    <3>1. c' = [at |-> "constant", next |-> "none", o |-> NIL, s |-> NIL, n |-> 0]
      BY <2>1, AtIs
    <3> QED BY <1>2, <1>8, <2>1, <3>1 DEF CallOK, Val
  <2>2. CASE c' = At("script")
    <3>1. c' = [at |-> "script", next |-> "none", o |-> NIL, s |-> NIL, n |-> 0]
      BY <2>2, AtIs
    <3>2. Typed(heap', Top(stack'), "function")
      BY <1>3, <1>5
    <3> QED BY <1>8, <3>1, <3>2 DEF CallOK, Val
  <2> QED BY <2>1, <2>2
<1> QED BY <1>1, <1>2, <1>4, <1>5, <1>7, <1>9, MutatorStep DEF IInv, Sound

LEMMA EndCompilerStep == ASSUME IInv, end_compiler PROVE IInv'
<1>1. Idle /\ compilers # <<>> /\ compilers' = Cut(compilers, 1)
  BY DEF end_compiler, Compiling
<1>2. UNCHANGED <<heap, strings, frames, open, globals, methods, consts, collector>>
  BY DEF end_compiler
<1>3. \/ Len(compilers) > 1 /\ stack' = Append(stack, Top(compilers)) /\ c' = At("constant")
      \/ stack' = Append(stack, Top(compilers)) /\ c' = At("script")
      \/ UNCHANGED <<stack, c>>
  BY DEF end_compiler
<1> QED BY <1>1, <1>2, <1>3, DropScript, PushFunction

LEMMA InterpretStep == ASSUME IInv, interpret PROVE IInv'
<1>1. Sound /\ CallOK /\ c.at = "script" /\ phase = "mutate"
  BY DEF interpret, IInv
<1>2. c' = NoCall /\ UNCHANGED <<strings, open, globals, methods, consts, compilers, collector>>
  BY DEF interpret
<1>3. PICK o \in Free :
        /\ heap' = Put(o, MkClosure(Top(stack), 0))
        /\ stack' = Append(Cut(stack, 1), o)
        /\ frames' = <<[closure |-> o, slots |-> Len(stack)]>>
  BY DEF interpret
<1>4. Room(1) /\ Typed(heap, Top(stack), "function") /\ Len(stack) \in Nat
  BY <1>1, BelowTop DEF CallOK
<1> DEFINE r == MkClosure(Top(stack), 0)
<1>5. Fits(heap, r) /\ r.type = "closure" /\ heap' = Put(o, r)
  <2>1. Top(stack) \in Obj /\ 0 \in Nat
    BY <1>1, <1>4 DEF Typed, Sound, WellFormed
  <2> QED BY <1>3, <1>4, <2>1, NewClosure
<1> HIDE DEF r
<1>6. /\ Evolves(heap, heap') /\ o \in Obj /\ o \in Val /\ Value(heap', o)
      /\ Typed(heap', o, "closure")
  BY <1>1, <1>5, PutEvolves
<1>7. Kept(DOMAIN heap, heap, heap') /\ 1 \in Nat /\ 1 <= Len(stack) /\ Below(Len(stack) - 1)
  BY <1>4, <1>6 DEF Evolves, Room
<1>8. /\ StackOK(heap', stack) /\ OpenOK(heap', stack, open) /\ GlobalsOK(heap', globals')
      /\ CompilersOK(heap', compilers') /\ consts' \subseteq Obj
  BY <1>1, <1>2, <1>7, RestKept
<1>9. StackOK(heap', stack') /\ Len(stack') = Len(stack)
  <2>1. StackOK(heap', stack') /\ Len(stack') = Len(stack) - 1 + 1
    BY <1>3, <1>6, <1>7, <1>8, StackReplace
  <2> QED BY <1>4, <2>1
<1>10. FramesOK(heap', stack', frames')
  <2>1. /\ frames' \in Seq([closure : Obj, slots : Nat \ {0}]) /\ DOMAIN frames' = {1}
        /\ frames'[1].closure = o /\ frames'[1].slots = Len(stack)
    BY <1>3, <1>4, <1>6, <1>7
  <2>2. \A i \in DOMAIN frames' : i = 1
    BY <2>1
  <2>3. \A i \in DOMAIN frames' : Typed(heap', frames'[i].closure, "closure") /\ frames'[i].slots <= Len(stack')
    BY <1>4, <1>6, <1>9, <2>1, <2>2
  <2>4. \A i, j \in DOMAIN frames' : ~(i < j)
    BY <2>2
  <2> QED BY <2>1, <2>3, <2>4 DEF FramesOK
<1>11. OpenOK(heap', stack', open')
  <2>1. \A u \in DOMAIN open : open[u] <= Len(stack')
    BY <1>1, <1>9, BelowTop DEF Below
  <2> QED BY <1>2, <1>8, <2>1, OpenFits
<1>12. CallOK' /\ c'.at # "intern"
  BY <1>2, DoneCall
<1> QED BY <1>1, <1>2, <1>6, <1>8, <1>9, <1>10, <1>11, <1>12, MutatorStep DEF IInv
-----------------------------------------------------------------------------
(* The collector.                                                          *)

LEMMA RootsAre ==
  ASSUME Sound
  PROVE  /\ Roots \subseteq Live /\ init_string \in Roots
         /\ Elements(stack) \cap Obj \subseteq Roots /\ DOMAIN open \subseteq Roots
         /\ {frames[i].closure : i \in DOMAIN frames} \subseteq Roots
         /\ TableRefs(globals) \cap Obj \subseteq Roots /\ Elements(compilers) \subseteq Roots
<1>1. Live \subseteq Obj /\ NIL \notin Obj
  BY HeapAssumption DEF Sound, WellFormed, Live
<1>2. Elements(stack) \subseteq Live \cup {NIL}
  BY DEF Sound, StackOK, Value, Live, Elements
<1>3. {frames[i].closure : i \in DOMAIN frames} \subseteq Live
  BY DEF Sound, FramesOK, Typed, Live
<1>4. DOMAIN open \subseteq Live
  BY DEF Sound, OpenOK, Typed, Live
<1>5. TableRefs(globals) \subseteq Live \cup {NIL}
  BY DEF Sound, GlobalsOK, Value, Live, TableRefs
<1>6. Elements(compilers) \subseteq Live
  BY DEF Sound, CompilersOK, Typed, Live, Elements
<1>7. init_string \in Live
  BY DEF Sound, Typed, Live
<1> QED BY <1>1, <1>2, <1>3, <1>4, <1>5, <1>6, <1>7 DEF Roots

(* The collector leaves what it does not write.                            *)
LEMMA MutatorRests ==
  ASSUME IInv, UNCHANGED <<heap, mutator>>, StringsOK', CollectorOK'
  PROVE  IInv'
<1>1. /\ heap' = heap /\ stack' = stack /\ frames' = frames /\ open' = open /\ globals' = globals
      /\ methods' = methods /\ consts' = consts /\ compilers' = compilers /\ c' = c
  BY DEF mutator
<1>2. Sound'
  BY <1>1 DEF IInv, Sound
<1>3. CallOK'
  BY <1>1 DEF IInv, CallOK, Room, Below, Base, Top, Upvalues, Closure, Location, Is, Live, Peek
<1> QED BY <1>2, <1>3 DEF IInv

LEMMA MarkRootsStep == ASSUME IInv, mark_roots PROVE IInv'
<1>1. /\ Sound /\ phase = "mutate" /\ phase' = "trace" /\ marked' = Roots /\ gray' = Roots
      /\ UNCHANGED <<heap, strings, mutator>>
  BY DEF mark_roots, IInv
<1>2. /\ heap' = heap /\ strings' = strings /\ stack' = stack /\ frames' = frames /\ open' = open
      /\ globals' = globals /\ compilers' = compilers /\ c' = c
  BY <1>1 DEF mutator
<1>3. Roots' = Roots /\ Roots \subseteq Live
  BY <1>1, <1>2, RootsAre DEF Roots
<1>4. StringsOK'
  BY <1>1, <1>2 DEF Sound, StringsOK, Live, Pending, Top
<1>5. CollectorOK'
  BY <1>1, <1>2, <1>3 DEF CollectorOK, Live, Closed
<1> QED BY <1>1, <1>4, <1>5, MutatorRests

LEMMA TraceReferenceStep == ASSUME IInv, NEW o \in gray, trace_reference(o) PROVE IInv'
<1>1. /\ Sound /\ phase = "trace" /\ phase' = "trace"
      /\ marked' = marked \cup Blackened(heap[o])
      /\ gray' = (gray \ {o}) \cup (Blackened(heap[o]) \ marked)
      /\ UNCHANGED <<heap, strings, mutator>>
  BY DEF trace_reference, IInv
<1>2. /\ heap' = heap /\ strings' = strings /\ stack' = stack /\ frames' = frames /\ open' = open
      /\ globals' = globals /\ compilers' = compilers /\ c' = c
  BY <1>1 DEF mutator
<1>3. /\ Roots \subseteq marked /\ marked \subseteq Live /\ gray \subseteq marked
      /\ \A p \in marked \ gray : Pointers(heap[p]) \subseteq marked
      /\ \A S \in SUBSET Live : Roots \subseteq S /\ Closed(S) => marked \subseteq S
  BY <1>1 DEF Sound, CollectorOK
<1>4. Roots' = Roots
  BY <1>2 DEF Roots
<1>5. Blackened(heap[o]) = Pointers(heap[o]) /\ Pointers(heap[o]) \subseteq Live
  <2>1. Fits(heap, heap[o])
    BY <1>1, <1>3 DEF Sound, WellFormed, Live
  <2> QED BY <2>1, BlackenedIsComplete DEF Fits, Live
<1>6. StringsOK'
  BY <1>1, <1>2 DEF Sound, StringsOK, Live, Pending, Top
<1>7. \A p \in marked' \ gray' : Pointers(heap[p]) \subseteq marked'
  <2> SUFFICES ASSUME NEW p \in marked' \ gray' PROVE Pointers(heap[p]) \subseteq marked'
    OBVIOUS
  <2>1. p = o \/ p \in marked \ gray
    BY <1>1, <1>3
  <2> QED BY <1>1, <1>3, <1>5, <2>1
<1>8. ASSUME NEW S \in SUBSET Live, Roots \subseteq S, Closed(S) PROVE marked' \subseteq S
  <2>1. marked \subseteq S /\ o \in S
    BY <1>3, <1>8
  <2> QED BY <1>1, <1>5, <1>8, <2>1 DEF Closed
<1>9. marked' \subseteq Live /\ gray' \subseteq marked' /\ Roots' \subseteq marked'
  BY <1>1, <1>3, <1>4, <1>5
<1>10. CollectorOK'
  BY <1>1, <1>2, <1>4, <1>7, <1>8, <1>9 DEF CollectorOK, Live, Closed
<1> QED BY <1>1, <1>6, <1>10, MutatorRests

LEMMA RemoveWhiteStep == ASSUME IInv, remove_white PROVE IInv'
<1>1. /\ Sound /\ phase = "trace" /\ phase' = "sweep" /\ gray = {}
      /\ strings' = strings \cap marked /\ marked' = marked /\ gray' = gray
      /\ UNCHANGED <<heap, mutator>>
  BY DEF remove_white, IInv
<1>2. /\ heap' = heap /\ stack' = stack /\ frames' = frames /\ open' = open
      /\ globals' = globals /\ compilers' = compilers /\ c' = c
  BY <1>1 DEF mutator
<1>3. Roots' = Roots /\ Live' = Live /\ Pending' = Pending
  BY <1>2 DEF Roots, Live, Pending, Top
<1>4. StringsOK'
  BY <1>1, <1>2, <1>3 DEF Sound, StringsOK
<1>5. CollectorOK'
  BY <1>1, <1>2, <1>3 DEF Sound, CollectorOK, Closed
<1> QED BY <1>1, <1>4, <1>5, MutatorRests

(* The heap after a sweep.                                                 *)
LEMMA Swept ==
  ASSUME IInv, sweep
  PROVE  /\ Roots \subseteq marked /\ Closed(marked) /\ marked \subseteq Live
         /\ DOMAIN heap' = marked /\ (\A o \in marked : heap'[o] = heap[o])
         /\ WellFormed(heap') /\ Kept(marked, heap, heap')
<1>1. phase = "sweep" /\ heap' = [o \in Live \cap marked |-> heap[o]] /\ Sound
  BY DEF sweep, IInv
<1>2. Roots \subseteq marked /\ marked \subseteq Live /\ Closed(marked)
  <2>1. gray = {}
    BY <1>1 DEF Sound, CollectorOK
  <2> QED BY <1>1, <2>1 DEF Sound, CollectorOK, Closed
<1>3. DOMAIN heap' = marked /\ \A o \in marked : heap'[o] = heap[o]
  BY <1>1, <1>2
<1>4. WellFormed(heap')
  <2>1. heap' = [o \in DOMAIN heap \cap marked |-> heap[o]]
    BY <1>1 DEF Live
  <2>2. WellFormed(heap) /\ \A o \in marked \cap DOMAIN heap : Pointers(heap[o]) \subseteq marked
    BY <1>1, <1>2 DEF Sound, Closed
  <2> QED BY <2>1, <2>2, SweepKeeps
<1>5. Kept(marked, heap, heap')
  BY <1>3 DEF Kept
<1> QED BY <1>2, <1>3, <1>4, <1>5

(* What a handler holds in C variables or on the stack survives the sweep. *)
LEMMA CallSurvives == ASSUME IInv, sweep PROVE CallOK'
<1>1. /\ stack' = stack /\ frames' = frames /\ open' = open /\ globals' = globals
      /\ compilers' = compilers /\ c' = c /\ Sound /\ CallOK
  BY DEF sweep, mutator, IInv
<1>2. /\ Roots \subseteq marked /\ Closed(marked) /\ marked \subseteq Live /\ DOMAIN heap' = marked
      /\ \A o \in marked : heap'[o] = heap[o]
  BY Swept
<1>3. \A n : Room(n)' = Room(n)
  BY <1>1 DEF Room, Below, Base, Top
<1>4. ASSUME NEW i \in 1 .. Len(stack), NEW t, Typed(heap, stack[i], t)
      PROVE  stack[i] \in marked
  <2>1. stack[i] \in Elements(stack) \cap Obj
    BY <1>1, <1>4, StackIs DEF Sound, Elements, Typed, WellFormed
  <2> QED BY <1>1, <1>2, <2>1, RootsAre
<1>5. Len(stack) \in Nat
  BY <1>1, BelowTop
<1>6. ASSUME NEW t, Typed(heap, Top(stack), t), 1 <= Len(stack)
      PROVE  Typed(heap', Top(stack), t) /\ Top(stack) \in marked
  BY <1>2, <1>4, <1>5, <1>6 DEF Top, Typed
<1>7. Peek(0) = Top(stack) /\ Peek(0)' = Peek(0)
  BY <1>1, <1>5 DEF Peek, Top
<1>8. frames # <<>> => 1 <= Len(stack)
  BY <1>1, FrameIs
<1>9. c.at = "intern" => Typed(heap', Top(stack), "string")
  BY <1>1, <1>6 DEF CallOK, Room
<1>10. c.at = "script" => Typed(heap', Top(stack), "function")
  BY <1>1, <1>6 DEF CallOK, Room
<1>11. c.at = "capture" =>
         Is(Peek(0), "closure")' /\ (c.n \in 1 .. Len(heap[Peek(0)].elems))'
  BY <1>1, <1>2, <1>6, <1>7, <1>8 DEF CallOK, Is, Typed, Live
<1>12. c.at = "fill" => Is(Peek(0), "array")'
  BY <1>1, <1>2, <1>6, <1>7, <1>8 DEF CallOK, Is, Typed, Live
<1>13. ASSUME c.at = "super"
       PROVE  (\E u \in Upvalues :
                 /\ Is(Location(u), "class")
                 /\ \E k \in DOMAIN heap[Location(u)].table : c.o = heap[Location(u)].table[k])'
  <2>1. frames # <<>>
    BY <1>1, <1>13 DEF CallOK
  <2>2. PICK u \in Upvalues :
          /\ Is(Location(u), "class")
          /\ \E k \in DOMAIN heap[Location(u)].table : c.o = heap[Location(u)].table[k]
    BY <1>1, <1>13 DEF CallOK
  <2>3. Closure' = Closure /\ Closure \in marked
    <3>1. Len(frames) \in DOMAIN frames
      BY <1>1, <2>1, FrameIs
    <3> QED BY <1>1, <1>2, <3>1, RootsAre DEF Closure, Top
  <2>4. Upvalues' = Upvalues /\ u \in Elements(heap[Closure].elems) /\ Typed(heap, u, "upvalue")
    BY <1>1, <1>2, <2>1, <2>3, UpvaluesAre DEF Upvalues
  <2>5. u \in marked
    <3>1. u \in Pointers(heap[Closure])
      BY <1>1, <2>4 DEF Pointers, Typed, Sound, WellFormed
    <3> QED BY <1>2, <2>3, <3>1 DEF Closed
  <2>6. Location(u)' = Location(u)
    BY <1>1, <1>2, <2>5 DEF Location
  <2>7. Location(u) \in marked
    <3>1. CASE u \in DOMAIN open
      <4>1. open[u] \in 1 .. Len(stack)
        BY <1>1, <1>5, <3>1 DEF Sound, OpenOK
      <4>2. Typed(heap, stack[open[u]], "class")
        BY <2>2, <3>1 DEF Location, Is, Typed, Live
      <4> QED BY <1>4, <3>1, <4>1, <4>2 DEF Location
    <3>2. CASE u \notin DOMAIN open
      <4>1. heap[u].head \in Obj
        BY <1>1, <2>2, <3>2 DEF Location, Is, Live, Sound, WellFormed
      <4>2. heap[u].head \in Pointers(heap[u])
        BY <4>1 DEF Pointers
      <4> QED BY <1>2, <2>5, <3>2, <4>2 DEF Location, Closed
    <3> QED BY <3>1, <3>2
  <2>8. heap'[Location(u)] = heap[Location(u)] /\ Location(u) \in DOMAIN heap'
    BY <1>2, <2>7
  <2>9. Is(Location(u), "class")'
    BY <2>2, <2>6, <2>8 DEF Is, Live
  <2>10. (\E k \in DOMAIN heap[Location(u)].table : c.o = heap[Location(u)].table[k])'
    BY <1>1, <2>2, <2>6, <2>8
  <2> QED BY <2>4, <2>9, <2>10
<1> QED BY <1>1, <1>3, <1>9, <1>10, <1>11, <1>12, <1>13 DEF CallOK

LEMMA SweepStep == ASSUME IInv, sweep PROVE IInv'
<1>1. /\ stack' = stack /\ frames' = frames /\ open' = open /\ globals' = globals
      /\ methods' = methods /\ consts' = consts /\ compilers' = compilers /\ c' = c
      /\ strings' = strings /\ gray' = gray /\ marked' = {} /\ phase' = "mutate"
      /\ phase = "sweep" /\ Sound
  BY DEF sweep, mutator, IInv
<1>2. /\ Roots \subseteq marked /\ marked \subseteq Live /\ DOMAIN heap' = marked
      /\ \A o \in marked : heap'[o] = heap[o]
  BY Swept
<1>3. WellFormed(heap') /\ Kept(marked, heap, heap') /\ DOMAIN heap \subseteq Obj
  BY <1>1, Swept DEF Sound, WellFormed
<1>4. StackOK(heap', stack)
  BY <1>1, <1>2, <1>3, RootsAre, StackKept DEF Sound
<1>5. FramesOK(heap', stack, frames)
  BY <1>1, <1>2, <1>3, RootsAre, FramesKept DEF Sound
<1>6. OpenOK(heap', stack, open)
  BY <1>1, <1>2, <1>3, RootsAre, OpenKept DEF Sound
<1>7. GlobalsOK(heap', globals)
  BY <1>1, <1>2, <1>3, RootsAre, GlobalsKept DEF Sound
<1>8. CompilersOK(heap', compilers)
  BY <1>1, <1>2, <1>3, RootsAre, CompilersKept DEF Sound
<1>9. Typed(heap', init_string, "string")
  BY <1>1, <1>2, RootsAre DEF Sound, Typed
<1>10. StringsOK'
  <2>1. strings \subseteq marked /\ Pending' = Pending
    BY <1>1 DEF Sound, CollectorOK, Pending, Top
  <2>2. \A s \in strings : Typed(heap', s, "string")
    BY <1>1, <1>2, <2>1 DEF Sound, StringsOK, Typed
  <2>3. ASSUME NEW o \in DOMAIN heap', heap'[o].type = "string" PROVE o \in strings \cup Pending
    BY <1>1, <1>2, <2>3 DEF Sound, StringsOK
  <2>4. ASSUME NEW s \in DOMAIN heap', NEW t \in DOMAIN heap', heap'[s].type = "string",
               heap'[t].type = "string", heap'[s].head = heap'[t].head
        PROVE  s = t
    BY <1>1, <1>2, <2>4 DEF Sound, StringsOK
  <2> QED BY <1>1, <2>1, <2>2, <2>3, <2>4 DEF StringsOK, Live
<1>11. CollectorOK'
  BY <1>1 DEF Sound, CollectorOK
<1>12. Sound'
  BY <1>1, <1>3, <1>4, <1>5, <1>6, <1>7, <1>8, <1>9, <1>10, <1>11 DEF Sound
<1> QED BY <1>12, CallSurvives DEF IInv
-----------------------------------------------------------------------------
(* The invariant.                                                          *)

LEMMA InitIInv == Init => IInv
<1> SUFFICES ASSUME Init PROVE IInv
  OBVIOUS
<1>1. /\ heap = [o \in Names \cup NativeObjs |->
                   IF o \in Names THEN MkString(NameText[o]) ELSE MkNative]
      /\ strings = Names /\ globals = Natives /\ methods = MethodNatives /\ consts = {}
      /\ stack = <<>> /\ frames = <<>> /\ open = NoTable /\ compilers = <<>>
      /\ c = NoCall /\ phase = "mutate" /\ marked = {} /\ gray = {}
  BY DEF Init
<1>2. Names \subseteq Obj /\ NativeObjs \subseteq Obj \ Names /\ NameText \in [Names -> Text]
  BY MemoryAssumption
<1>3. /\ DOMAIN heap = Names \cup NativeObjs
      /\ \A o \in Names : heap[o] = MkString(NameText[o])
      /\ \A o \in NativeObjs : heap[o] = MkNative
  BY <1>1, <1>2
<1>4. \A o \in Names : heap[o].type = "string" /\ heap[o].head = NameText[o]
  BY <1>3 DEF MkString
<1>5. \A o \in NativeObjs : heap[o].type = "native"
  BY <1>3 DEF MkNative
<1>6. WellFormed(heap)
  <2>1. ASSUME NEW o \in Names PROVE Fits(heap, heap[o])
    <3> DEFINE txt == NameText[o]
    <3>1. txt \in Text /\ heap[o] = MkString(txt)
      BY <1>2, <1>3
    <3> HIDE DEF txt
    <3> QED BY <3>1, NewStringFits
  <2>2. ASSUME NEW o \in NativeObjs PROVE Fits(heap, heap[o])
    BY <1>3, NewNativeFits
  <2>3. heap = [o \in DOMAIN heap |-> heap[o]]
    BY <1>1
  <2>4. DOMAIN heap \subseteq Obj
    BY <1>2, <1>3
  <2> QED BY <1>3, <2>1, <2>2, <2>3, <2>4 DEF WellFormed
<1>7. StackOK(heap, stack) /\ FramesOK(heap, stack, frames) /\ CompilersOK(heap, compilers)
  <2>1. /\ stack \in Seq(Val) /\ DOMAIN stack = {} /\ DOMAIN frames = {} /\ DOMAIN compilers = {}
        /\ frames \in Seq([closure : Obj, slots : Nat \ {0}]) /\ compilers \in Seq(Obj)
    BY <1>1
  <2> QED BY <2>1 DEF StackOK, FramesOK, CompilersOK
<1>8. OpenOK(heap, stack, open)
  BY <1>1 DEF OpenOK, NoTable
<1>9. GlobalsOK(heap, globals) /\ IsTable(methods)
  <2>1. IsTable(Natives) /\ IsTable(MethodNatives)
    BY MemoryAssumption
  <2>2. \A k \in DOMAIN Natives : k \in Names /\ Natives[k] \in NativeObjs
    BY DEF Names, NativeObjs
  <2> QED BY <1>1, <1>3, <2>1, <2>2 DEF GlobalsOK, Value
<1>10. Typed(heap, init_string, "string")
  BY <1>3, <1>4 DEF Names, Typed
<1>11. c.at = "none" /\ Pending = {}
  BY <1>1 DEF NoCall, Pending
<1>12. StringsOK
  <2>1. \A s \in strings : Typed(heap, s, "string")
    BY <1>1, <1>3, <1>4 DEF Typed
  <2>2. \A o \in DOMAIN heap : heap[o].type = "string" => o \in Names
    BY <1>3, <1>5
  <2>3. ASSUME NEW s \in DOMAIN heap, NEW t \in DOMAIN heap, heap[s].type = "string",
               heap[t].type = "string", heap[s].head = heap[t].head
        PROVE  s = t
    <3>1. s \in Names /\ t \in Names /\ NameText[s] = NameText[t]
      BY <1>4, <2>2, <2>3
    <3> QED BY <3>1, MemoryAssumption
  <2> QED BY <1>1, <2>1, <2>2, <2>3 DEF StringsOK, Live
<1>13. CollectorOK
  BY <1>1 DEF CollectorOK
<1>14. CallOK
  <2>1. c = [at |-> "none", next |-> "none", o |-> NIL, s |-> NIL, n |-> 0]
    BY <1>1 DEF NoCall
  <2> QED BY <2>1 DEF CallOK, Val
<1> QED BY <1>1, <1>6, <1>7, <1>8, <1>9, <1>10, <1>12, <1>13, <1>14 DEF IInv, Sound

LEMMA Stutter == ASSUME IInv, UNCHANGED vars PROVE IInv'
<1>1. /\ UNCHANGED <<heap, mutator>> /\ heap' = heap /\ strings' = strings /\ stack' = stack
      /\ frames' = frames /\ open' = open /\ globals' = globals /\ compilers' = compilers /\ c' = c
      /\ phase' = phase /\ marked' = marked /\ gray' = gray
  BY DEF vars, mutator, collector
<1>2. Roots' = Roots /\ Live' = Live /\ Pending' = Pending
  BY <1>1 DEF Roots, Live, Pending, Top
<1>3. StringsOK'
  BY <1>1, <1>2 DEF IInv, Sound, StringsOK
<1>4. CollectorOK'
  BY <1>1, <1>2 DEF IInv, Sound, CollectorOK, Closed
<1> QED BY <1>1, <1>3, <1>4, MutatorRests

LEMMA CollectStep == ASSUME IInv, Collect PROVE IInv'
<1>1. CASE mark_roots BY <1>1, MarkRootsStep
<1>2. ASSUME NEW o \in gray, trace_reference(o) PROVE IInv'
  BY <1>2, TraceReferenceStep
<1>3. CASE remove_white BY <1>3, RemoveWhiteStep
<1>4. CASE sweep BY <1>4, SweepStep
<1> QED BY <1>1, <1>2, <1>3, <1>4 DEF Collect

LEMMA CompileStep == ASSUME IInv, Compile PROVE IInv'
<1>1. CASE init_compiler BY <1>1, InitCompilerStep
<1>2. CASE AddConstant BY <1>2, AddConstantStep
<1>3. CASE DefineConst BY <1>3, DefineConstStep
<1>4. CASE end_compiler BY <1>4, EndCompilerStep
<1>5. CASE interpret BY <1>5, InterpretStep
<1>6. ASSUME NEW txt \in Text, NameFunction(txt) PROVE IInv'
  BY <1>6, NameFunctionStep
<1>7. ASSUME NEW txt \in Text, StringConstant(txt) PROVE IInv'
  BY <1>7, StringConstantStep
<1> QED BY <1>1, <1>2, <1>3, <1>4, <1>5, <1>6, <1>7 DEF Compile

LEMMA RunStep == ASSUME IInv, Run PROVE IInv'
<1>1. CASE PushConstant BY <1>1, PushConstantStep
<1>2. CASE GetLocal BY <1>2, GetLocalStep
<1>3. CASE GetGlobal BY <1>3, GetGlobalStep
<1>4. CASE GetUpvalue BY <1>4, GetUpvalueStep
<1>5. CASE Pop \/ Binary BY <1>5, PopsStep
<1>6. CASE SetLocal BY <1>6, SetLocalStep
<1>7. CASE SetUpvalue BY <1>7, SetUpvalueStep
<1>8. CASE DefineGlobal BY <1>8, DefineGlobalStep
<1>9. CASE SetGlobal BY <1>9, SetGlobalStep
<1>10. ASSUME NEW pops \in {0, 1}, GetField(pops) PROVE IInv'
  BY <1>10, GetFieldStep
<1>11. CASE bind_method BY <1>11, BindMethodStep
<1>12. CASE SetProperty BY <1>12, SetPropertyStep
<1>13. CASE GetSuper BY <1>13, GetSuperStep
<1>14. CASE BindSuper BY <1>14, BindSuperStep
<1>15. ASSUME NEW txt \in Text, Concatenate(txt) PROVE IInv'
  BY <1>15, ConcatenateStep
<1>16. 0 .. MaxArgs \subseteq Nat /\ 0 .. MaxUpvalues \subseteq Nat /\ 0 .. MaxElems \subseteq Nat
  BY MemoryAssumption
<1>17. ASSUME NEW argc \in 0 .. MaxArgs, Call(argc) PROVE IInv'
  BY <1>16, <1>17, CallStep
<1>18. ASSUME NEW argc \in 0 .. MaxArgs, Invoke(argc) PROVE IInv'
  BY <1>16, <1>18, InvokeStep
<1>19. ASSUME NEW argc \in 0 .. MaxArgs, SuperInvoke(argc) PROVE IInv'
  BY <1>16, <1>19, SuperInvokeStep
<1>20. ASSUME NEW argc \in 0 .. MaxArgs, ArrayMethod(argc) PROVE IInv'
  BY <1>16, <1>20, ArrayMethodStep
<1>21. ASSUME NEW n \in 0 .. MaxUpvalues, MakeClosure(n) PROVE IInv'
  BY <1>16, <1>21, MakeClosureStep
<1>22. CASE Capture BY <1>22, CaptureStep
<1>23. CASE CloseUpvalue BY <1>23, CloseUpvalueStep
<1>24. CASE Return BY <1>24, ReturnStep
<1>25. CASE Class BY <1>25, ClassStep
<1>26. CASE Inherit BY <1>26, InheritStep
<1>27. CASE Method BY <1>27, MethodStep
<1>28. ASSUME NEW n \in 0 .. MaxElems, NewArray(n) PROVE IInv'
  BY <1>16, <1>28, NewArrayStep
<1>29. CASE FillArray BY <1>29, FillArrayStep
<1>30. CASE Slice BY <1>30, SliceStep
<1>31. CASE RuntimeError BY <1>31, RuntimeErrorStep
<1> QED BY <1>1, <1>2, <1>3, <1>4, <1>5, <1>6, <1>7, <1>8, <1>9, <1>10, <1>11, <1>12, <1>13,
           <1>14, <1>15, <1>17, <1>18, <1>19, <1>20, <1>21, <1>22, <1>23, <1>24, <1>25, <1>26,
           <1>27, <1>28, <1>29, <1>30, <1>31 DEF Run

LEMMA NextIInv == ASSUME IInv, [Next]_vars PROVE IInv'
<1>1. CASE Collect BY <1>1, CollectStep
<1>2. CASE Intern BY <1>2, InternStep
<1>3. CASE Compile BY <1>3, CompileStep
<1>4. CASE Run BY <1>4, RunStep
<1>5. CASE UNCHANGED vars BY <1>5, Stutter
<1> QED BY <1>1, <1>2, <1>3, <1>4, <1>5 DEF Next

(* In every reachable state the heap, the stack and the tables fit         *)
(* together, and what a handler keeps over an allocation is there.         *)
THEOREM InvariantHolds == Spec => []IInv
<1>1. IInv /\ [Next]_vars => IInv'
  BY NextIInv
<1> QED BY <1>1, InitIInv, PTL DEF Spec
-----------------------------------------------------------------------------
(* Whenever a collection strikes, between any two allocations of compiler  *)
(* and VM: what a root, a live object or a C variable of the handler       *)
(* points at has not been freed.                                           *)
THEOREM NothingDangles == Spec => []NoDangling
<1>1. IInv => NoDangling
  <2> SUFFICES ASSUME IInv PROVE NoDangling
    OBVIOUS
  <2>1. Roots \subseteq Live
    BY RootsAre DEF IInv
  <2>2. \A o \in Live : Pointers(heap[o]) \subseteq Live
    BY DEF IInv, Sound, WellFormed, Fits, Live
  <2>3. c.s = NIL /\ (c.at # "super" => c.o = NIL)
    BY DEF IInv, CallOK
  <2>4. c.at = "super" => c.o \in Live
    <3>1. SUFFICES ASSUME c.at = "super" PROVE c.o \in Live
      OBVIOUS
    <3>2. PICK u \in Upvalues :
            /\ Is(Location(u), "class")
            /\ \E k \in DOMAIN heap[Location(u)].table : c.o = heap[Location(u)].table[k]
      BY <3>1 DEF IInv, CallOK
    <3> QED BY <3>2, ClassIs DEF IInv, Typed, Live
  <2> QED BY <2>1, <2>2, <2>3, <2>4, HeapAssumption DEF NoDangling
<1> QED BY <1>1, InvariantHolds, PTL

(* trace_references never leaves a black object pointing at a white one.   *)
THEOREM TriColourHolds == Spec => []TriColour
<1>1. IInv => TriColour
  BY DEF IInv, Sound, CollectorOK, TriColour
<1> QED BY <1>1, InvariantHolds, PTL

(* The weak intern table: it holds every string the program can use and no *)
(* freed one, and no two strings have the same contents, whenever          *)
(* allocate_string is interrupted by a collection.                         *)
THEOREM InterningSurvives == Spec => []Interned
<1>1. IInv => Interned
  <2> SUFFICES ASSUME IInv PROVE Interned
    OBVIOUS
  <2>1. StringsOK
    BY DEF IInv, Sound
  <2>2. strings \subseteq Live
    BY <2>1 DEF StringsOK, Typed, Live
  <2>3. phase # "sweep" => \A o \in Live :
          heap[o].type = "string" => (o \in strings \/ (c.at = "intern" /\ o = Top(stack)))
    BY <2>1 DEF StringsOK, Pending
  <2> QED BY <2>1, <2>2, <2>3 DEF StringsOK, Interned
<1> QED BY <1>1, InvariantHolds, PTL

(* The types, and the unchecked casts of the handlers: what AS_CLOSURE,    *)
(* AS_FUNCTION, AS_CLASS and AS_STRING are applied to is of that type.     *)
THEOREM CastsAreRight == Spec => []CastsOK
<1>1. IInv => CastsOK
  <2> SUFFICES ASSUME IInv PROVE CastsOK
    OBVIOUS
  <2>1. Sound /\ CallOK /\ WellFormed(heap)
    BY DEF IInv, Sound
  <2>2. TypeOK
    <3>1. Live \subseteq Obj /\ heap = [o \in Live |-> heap[o]] /\ \A o \in Live : IsObject(heap[o])
      BY <2>1 DEF WellFormed, Fits, Live
    <3>2. /\ stack \in Seq(Val) /\ frames \in Seq([closure : Obj, slots : Nat \ {0}])
          /\ IsTable(globals) /\ IsTable(methods) /\ consts \subseteq Obj /\ compilers \in Seq(Obj)
      BY <2>1 DEF Sound, StackOK, FramesOK, GlobalsOK, CompilersOK
    <3>3. DOMAIN open \subseteq Obj /\ open \in [DOMAIN open -> Nat \ {0}]
      BY <2>1, <3>1 DEF Sound, OpenOK, Typed, Live
    <3>4. strings \subseteq Obj
      BY <2>1, <3>1 DEF Sound, StringsOK, Typed, Live
    <3>5. /\ phase \in {"mutate", "trace", "sweep"} /\ marked \subseteq Obj /\ gray \subseteq Obj
      BY <2>1, <3>1 DEF Sound, CollectorOK
    <3>6. c \in [at : {"none", "name", "intern", "constant", "script", "super",
                       "capture", "fill", "split", "write", "exit"},
                 next : {"none", "name", "constant", "concat", "split"},
                 o : Val, s : Val, n : Nat]
      BY <2>1 DEF CallOK, Val
    <3> QED BY <3>1, <3>2, <3>3, <3>4, <3>5, <3>6 DEF TypeOK
  <2>3. \A i \in DOMAIN frames : Is(frames[i].closure, "closure")
    BY <2>1 DEF Sound, FramesOK, Typed, Is, Live
  <2>4. /\ \A u \in DOMAIN open : Is(u, "upvalue") /\ open[u] \in DOMAIN stack
        /\ \A u, w \in DOMAIN open : open[u] = open[w] => u = w
    <3>1. Len(stack) \in Nat /\ DOMAIN stack = 1 .. Len(stack)
      BY <2>1, StackIs DEF Sound
    <3> QED BY <2>1, <3>1 DEF Sound, OpenOK, Typed, Is, Live
  <2>5. \A i \in DOMAIN compilers : Is(compilers[i], "function")
    BY <2>1 DEF Sound, CompilersOK, Typed, Is, Live
  <2>6. ASSUME NEW o \in Live
        PROVE  LET r == heap[o] IN
               /\ Shaped(r)
               /\ \A k \in DOMAIN r.table : Is(k, "string")
               /\ r.type = "closure" =>
                    /\ Is(r.head, "function")
                    /\ \A u \in Elements(r.elems) : u = NIL \/ Is(u, "upvalue")
               /\ r.type \in {"class", "function"} => r.head = NIL \/ Is(r.head, "string")
               /\ r.type = "class" => \A k \in DOMAIN r.table : Is(r.table[k], "closure")
               /\ r.type = "instance" => Is(r.head, "class")
               /\ r.type = "bound" => Is(r.head, "closure")
    <3> DEFINE r == heap[o]
    <3>1. Fits(heap, r)
      BY <2>1 DEF WellFormed, Live
    <3> HIDE DEF r
    <3>2. \A v, t : Typed(heap, v, t) => Is(v, t)
      BY DEF Typed, Is, Live
    <3>3. Shaped(r) /\ \A k \in DOMAIN r.table : Is(k, "string")
      BY <3>1, <3>2 DEF Fits
    <3>4. r.type = "closure" =>
            Is(r.head, "function") /\ \A u \in Elements(r.elems) : u = NIL \/ Is(u, "upvalue")
      BY <3>1, <3>2 DEF Fits
    <3>5. r.type = "class" => \A k \in DOMAIN r.table : Is(r.table[k], "closure")
      BY <3>1, <3>2 DEF Fits
    <3>6. /\ r.type \in {"class", "function"} => r.head = NIL \/ Is(r.head, "string")
          /\ r.type = "instance" => Is(r.head, "class")
          /\ r.type = "bound" => Is(r.head, "closure")
      BY <3>1, <3>2 DEF Fits
    <3> QED BY <3>3, <3>4, <3>5, <3>6 DEF r
  <2>7. c.at = "super" => Is(c.o, "closure")
    <3>1. SUFFICES ASSUME c.at = "super" PROVE Is(c.o, "closure")
      OBVIOUS
    <3>2. PICK u \in Upvalues :
            /\ Is(Location(u), "class")
            /\ \E k \in DOMAIN heap[Location(u)].table : c.o = heap[Location(u)].table[k]
      BY <2>1, <3>1 DEF CallOK
    <3> QED BY <2>1, <3>2, ClassIs DEF Typed, Is, Live
  <2> QED BY <2>2, <2>3, <2>4, <2>5, <2>6, <2>7 DEF CastsOK
<1> QED BY <1>1, InvariantHolds, PTL

(* Only a sweep runs once the intern table has been weeded.                *)
LEMMA OnlySweeps == ASSUME Next, phase = "sweep" PROVE sweep
<1>1. ~Intern
  BY DEF Intern
<1>2. ~Compile
  BY DEF Compile, init_compiler, AddConstant, DefineConst, end_compiler, interpret, NameFunction,
         StringConstant, Resting, Compiling, Idle
<1>3. ~Run
  BY DEF Run, PushConstant, GetLocal, GetGlobal, GetUpvalue, Pop, Binary, SetLocal,
         SetUpvalue, DefineGlobal, SetGlobal, GetField, bind_method, SetProperty, GetSuper, BindSuper,
         Concatenate, Call, Invoke, SuperInvoke, ArrayMethod, MakeClosure, Capture, CloseUpvalue,
         Return, Class, Inherit, Method, NewArray, FillArray, Slice, RuntimeError, Running, Idle
<1>4. ~mark_roots /\ ~remove_white /\ \A o \in gray : ~trace_reference(o)
  BY DEF mark_roots, remove_white, trace_reference
<1> QED BY <1>1, <1>2, <1>3, <1>4 DEF Next, Collect

(* A collection frees all garbage: what sweep leaves is contained in every *)
(* set of objects that holds the roots and is closed under pointers.       *)
THEOREM AllGarbageIsFreed == Spec => GarbageFreed
<1>1. ASSUME IInv, [Next]_vars
      PROVE  [phase = "sweep" =>
                \A S \in SUBSET Live :
                  /\ Roots \subseteq S
                  /\ \A o \in S : Pointers(heap[o]) \subseteq S
                  => DOMAIN heap' \subseteq S]_vars
  <2>1. CASE UNCHANGED vars
    BY <2>1
  <2>2. ASSUME Next, phase = "sweep", NEW S \in SUBSET Live, Roots \subseteq S,
               \A o \in S : Pointers(heap[o]) \subseteq S
        PROVE  DOMAIN heap' \subseteq S
    <3>1. sweep
      BY <2>2, OnlySweeps
    <3>2. marked \subseteq S
      BY <1>1, <2>2 DEF IInv, Sound, CollectorOK, Closed
    <3> QED BY <3>1, <3>2 DEF sweep
  <2> QED BY <1>1, <2>1, <2>2
<1> QED BY <1>1, InvariantHolds, PTL DEF Spec, GarbageFreed
=============================================================================
