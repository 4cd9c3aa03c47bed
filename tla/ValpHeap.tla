------------------------------ MODULE ValpHeap ------------------------------
(***************************************************************************)
(* The objects of valp_object.h and what they point at.  An address of Obj *)
(* holds an object while it is in the domain of a heap; the VM's values    *)
(* are addresses, or NIL for whatever is not an object (nil, booleans,     *)
(* numbers).  One record shape serves all types:                           *)
(*   head   the pointer every object of the type has: a function's or a    *)
(*          class's name, a closure's function, an instance's klass, a     *)
(*          bound method's method, an upvalue's closed value; for a string *)
(*          its characters;                                                *)
(*   elems  constants of a function, upvalues of a closure, values of an   *)
(*          array, the receiver of a bound method;                         *)
(*   table  methods of a class, fields of an instance, by name.            *)
(***************************************************************************)
EXTENDS Integers, Sequences, FiniteSets

CONSTANTS
  Obj,       \* addresses
  NIL,       \* a value that is no object, and the null pointer
  Text       \* the contents of strings

ASSUME HeapAssumption ==
  /\ NIL \notin Obj
  /\ Text \cap (Obj \cup {NIL}) = {}

ObjType == {"bound", "class", "closure", "function", "instance", "native",
            "string", "upvalue", "array"}

Val == Obj \cup {NIL}
IsTable(t) == DOMAIN t \subseteq Obj /\ t \in [DOMAIN t -> Val]
NoTable == [k \in {} |-> NIL]

IsObject(r) ==
  /\ r \in [type : ObjType, head : Val \cup Text, elems : Seq(Val), table : {r.table}]
  /\ IsTable(r.table)

(* The new_* functions of valp_object.c, without the allocation.           *)
MkString(txt) == [type |-> "string", head |-> txt, elems |-> <<>>, table |-> NoTable]
MkNative == [type |-> "native", head |-> NIL, elems |-> <<>>, table |-> NoTable]
MkFunction == [type |-> "function", head |-> NIL, elems |-> <<>>, table |-> NoTable]
MkClosure(f, n) == [type |-> "closure", head |-> f,
                    elems |-> [i \in 1 .. n |-> NIL], table |-> NoTable]
MkUpvalue == [type |-> "upvalue", head |-> NIL, elems |-> <<>>, table |-> NoTable]
MkClass(name) == [type |-> "class", head |-> name, elems |-> <<>>, table |-> NoTable]
MkInstance(k) == [type |-> "instance", head |-> k, elems |-> <<>>, table |-> NoTable]
MkBound(recv, m) == [type |-> "bound", head |-> m, elems |-> <<recv>>, table |-> NoTable]
MkArray(vs) == [type |-> "array", head |-> NIL, elems |-> vs, table |-> NoTable]

Elements(s) == {s[i] : i \in DOMAIN s}
TableRefs(t) == DOMAIN t \cup {t[k] : k \in DOMAIN t}

(* Every address stored in an object.                                      *)
Pointers(r) == ({r.head} \cup Elements(r.elems) \cup TableRefs(r.table)) \cap Obj

(* hash_set on a table.                                                    *)
With(t, k, v) == [x \in DOMAIN t \cup {k} |-> IF x = k THEN v ELSE t[x]]

(* Mutant: the methods of a class are not marked.                          *)
Blackened_noMethods(r) ==
  IF r.type = "class" THEN {r.head} \cap Obj ELSE Pointers(r)

(* What blacken_object marks, type by type.                                *)
Blackened(r) ==
  CASE r.type = "bound"    -> ({r.head} \cup Elements(r.elems)) \cap Obj
    [] r.type = "class"    -> ({r.head} \cup TableRefs(r.table)) \cap Obj
    [] r.type = "closure"  -> ({r.head} \cup Elements(r.elems)) \cap Obj
    [] r.type = "function" -> ({r.head} \cup Elements(r.elems)) \cap Obj
    [] r.type = "instance" -> ({r.head} \cup TableRefs(r.table)) \cap Obj
    [] r.type = "upvalue"  -> {r.head} \cap Obj
    [] r.type = "array"    -> Elements(r.elems) \cap Obj
    [] r.type \in {"native", "string"} -> {}

(* The shape of an object: the parts its type does not have are blank.     *)
Shaped(r) ==
  CASE r.type = "bound"    -> r.head \in Obj /\ Len(r.elems) = 1 /\ r.table = NoTable
    [] r.type = "class"    -> r.head \in Obj /\ r.elems = <<>>
    [] r.type = "closure"  -> r.head \in Obj /\ r.table = NoTable
    [] r.type = "function" -> r.head \in Val /\ r.table = NoTable
    [] r.type = "instance" -> r.head \in Obj /\ r.elems = <<>>
    [] r.type = "upvalue"  -> r.head \in Val /\ r.elems = <<>> /\ r.table = NoTable
    [] r.type = "array"    -> r.head = NIL /\ r.table = NoTable
    [] r.type = "string"   -> r.head \in Text /\ r.elems = <<>> /\ r.table = NoTable
    [] r.type = "native"   -> r.head = NIL /\ r.elems = <<>> /\ r.table = NoTable
=============================================================================
