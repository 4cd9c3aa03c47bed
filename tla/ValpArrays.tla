----------------------------- MODULE ValpArrays -----------------------------
(***************************************************************************)
(* Arrays: the value arrays of valp_value.c, the methods of types/array.c, *)
(* OP_NEW_ARRAY, OP_SLICE, and values_equal.  A loop over the elements is  *)
(* a step per turn, and pc names it; the other calls are one step.         *)
(***************************************************************************)
EXTENDS Integers, Sequences, FiniteSets

CONSTANTS
  Array,      \* addresses of arrays
  Data,       \* values other than arrays
  NIL, ERROR, \* NIL_VAL; UNDEFINED_VAL, after a runtime_error
  JUNK,       \* what realloc leaves in new memory
  Indices, MaxLength, MaxDepth  \* bounds of the model

ASSUME ArrayAssumption ==
  /\ Data \cap Array = {} /\ {NIL, ERROR, JUNK} \cap (Data \cup Array) = {}
  /\ JUNK # NIL /\ ERROR # NIL
  /\ Indices \subseteq Int /\ {MaxLength, MaxDepth} \subseteq Nat

VARIABLES
  values,  \* per array, its memory: as many values as its capacity
  count,   \* per array, its elements
  pc,      \* the loop that runs, or "idle"
  self,    \* the array it runs over
  i,       \* its counter
  args,    \* the arguments of the call; the element drop returns
  work,    \* the calls of array_equal that have not returned
  result   \* the call that returned last: [call, of, args, value]

vars == <<values, count, pc, self, i, args, work, result>>

Made == DOMAIN values
Value == Data \cup {NIL} \cup Made
Arity == [len |-> 0, push |-> 1, pop |-> 0, insert |-> 1, drop |-> 0, is_empty |-> 0]

NoCall == [call |-> "none", of |-> NIL, args |-> <<>>, value |-> NIL]

Init ==
  /\ values = [a \in {} |-> <<>>] /\ count = [a \in {} |-> 0]
  /\ pc = "idle" /\ self = NIL /\ i = 0 /\ args = <<>> /\ work = <<>>
  /\ result = NoCall

Returns(call, a, with, value) ==
  result' = [call |-> call, of |-> a, args |-> with, value |-> value]

(* The memory of an array from 0 on, as C counts.                          *)
Cell(a, n) == values[a][n + 1]
CellSet(a, n, v) == values' = [values EXCEPT ![a][n + 1] = v]
-----------------------------------------------------------------------------
GROW_CAPACITY(capacity) == IF capacity < 8 THEN 8 ELSE capacity * 2

(* The memory once there is room for another element.                      *)
Grown(a) ==
  LET capacity == Len(values[a])
  IN  IF capacity >= count[a] + 1 THEN values[a]
      ELSE values[a] \o [n \in 1 .. GROW_CAPACITY(capacity) - capacity |-> JUNK]

write_valp_value_array(a, v) ==
  /\ count[a] < MaxLength
  /\ values' = [values EXCEPT ![a] = [Grown(a) EXCEPT ![count[a] + 1] = v]]
  /\ count' = [count EXCEPT ![a] = @ + 1]

new_array(a) ==
  /\ values' = [x \in Made \cup {a} |-> IF x = a THEN <<>> ELSE values[x]]
  /\ count' = [x \in Made \cup {a} |-> IF x = a THEN 0 ELSE count[x]]

(* OP_NEW_ARRAY: the operands s were pushed in the order of the source.    *)
(* Which address the array gets does not matter.                           *)
op_new_array(s) ==
  /\ pc = "idle"
  /\ Array \ Made # {} /\ Len(s) <= MaxLength
  /\ LET a == CHOOSE a \in Array \ Made : TRUE IN new_array(a) /\ self' = a
  /\ pc' = "new" /\ args' = s /\ i' = Len(s)
  /\ UNCHANGED <<work, result>>

(* A turn of its loop: peek(i), under the array and i - 1 operands.        *)
new_array_element ==
  /\ pc = "new" /\ i > 0
  /\ write_valp_value_array(self, args[Len(args) - i + 1])
  /\ i' = i - 1
  /\ UNCHANGED <<pc, self, args, work, result>>

Done(call, with, value) ==
  /\ Returns(call, self, with, value)
  /\ pc' = "idle" /\ self' = NIL /\ i' = 0 /\ args' = <<>> /\ work' = <<>>

new_array_done ==
  /\ pc = "new" /\ i = 0
  /\ Done("new", args, self)
  /\ UNCHANGED <<values, count>>
-----------------------------------------------------------------------------
(* The methods.                                                            *)
Idle == pc = "idle" /\ UNCHANGED <<pc, self, i, args, work>>
Reads(call, a, with, value) ==
  Idle /\ Returns(call, a, with, value) /\ UNCHANGED <<values, count>>

wrong_arity(m, a, with) == Len(with) # Arity[m] /\ Reads(m, a, with, ERROR)

array_length(a) == Reads("len", a, <<>>, count[a])
array_empty(a) == Reads("is_empty", a, <<>>, count[a] = 0)

array_push(a, v) ==
  Idle /\ write_valp_value_array(a, v) /\ Returns("push", a, <<v>>, NIL)

array_pop(a) ==
  IF count[a] = 0 THEN Reads("pop", a, <<>>, NIL)
  ELSE /\ Idle
       /\ Returns("pop", a, <<>>, Cell(a, count[a] - 1))
       /\ count' = [count EXCEPT ![a] = @ - 1] /\ UNCHANGED values

(* array_insert and prepend_valp_value_array: up to the loop, ...          *)
array_insert(a, v) ==
  /\ pc = "idle" /\ count[a] < MaxLength
  /\ values' = [values EXCEPT ![a] = Grown(a)]
  /\ pc' = "insert" /\ self' = a /\ args' = <<v>> /\ i' = count[a] - 1
  /\ UNCHANGED <<count, work, result>>

(* ... a turn of it, from the last element down, ...                       *)
prepend_shift ==
  /\ pc = "insert" /\ i >= 0
  /\ CellSet(self, i + 1, Cell(self, i))
  /\ i' = i - 1
  /\ UNCHANGED <<count, pc, self, args, work, result>>

(* ... and from it on.                                                     *)
prepend_done ==
  /\ pc = "insert" /\ i < 0
  /\ CellSet(self, 0, args[1])
  /\ count' = [count EXCEPT ![self] = @ + 1]
  /\ Done("insert", args, NIL)

array_drop(a) ==
  IF count[a] = 0 THEN Reads("drop", a, <<>>, NIL)
  ELSE /\ pc = "idle" /\ pc' = "drop" /\ self' = a /\ args' = <<Cell(a, 0)>> /\ i' = 0
       /\ UNCHANGED <<values, count, work, result>>

drop_shift ==
  /\ pc = "drop" /\ i < count[self] - 1
  /\ CellSet(self, i, Cell(self, i + 1))
  /\ i' = i + 1
  /\ UNCHANGED <<count, pc, self, args, work, result>>

drop_done ==
  /\ pc = "drop" /\ i >= count[self] - 1
  /\ count' = [count EXCEPT ![self] = @ - 1]
  /\ Done("drop", <<>>, args[1])
  /\ UNCHANGED values

(* Mutant: the index may be the number of elements.                        *)
op_slice_over(a, idx) ==
  Reads("slice", a, <<idx>>, IF idx < 0 \/ idx > count[a] THEN ERROR ELSE Cell(a, idx))

(* OP_SLICE                                                                *)
op_slice(a, idx) ==
  Reads("slice", a, <<idx>>, IF idx < 0 \/ idx > count[a] - 1 THEN ERROR ELSE Cell(a, idx))
-----------------------------------------------------------------------------
(* values_equal of two arrays: array_equal calls it for their elements.    *)
Comparison(a, b) == [left |-> a, right |-> b, i |-> 0]
Top == work[Len(work)]

values_equal(a, b) ==
  /\ pc = "idle"
  /\ pc' = "equal" /\ self' = a /\ args' = <<b>> /\ work' = <<Comparison(a, b)>>
  /\ UNCHANGED <<values, count, i, result>>

(* array_equal when it returns at once: false goes up through all calls.   *)
array_differs ==
  /\ pc = "equal"
  /\ \/ count[Top.left] # count[Top.right]
     \/ /\ count[Top.left] = count[Top.right] /\ Top.i < count[Top.left]
        /\ LET x == Cell(Top.left, Top.i)
               y == Cell(Top.right, Top.i)
           IN  ~({x, y} \subseteq Array) /\ x # y
  /\ Done("equal", args, FALSE)
  /\ UNCHANGED <<values, count>>

Advanced(w) == [w EXCEPT ![Len(w)].i = @ + 1]

(* A turn of its loop: elements that are the same, or a call for arrays.   *)
array_element ==
  /\ pc = "equal"
  /\ count[Top.left] = count[Top.right] /\ Top.i < count[Top.left]
  /\ LET x == Cell(Top.left, Top.i)
         y == Cell(Top.right, Top.i)
     IN  IF {x, y} \subseteq Array
         THEN Len(work) < MaxDepth /\ work' = Append(work, Comparison(x, y))
         ELSE x = y /\ work' = Advanced(work)
  /\ UNCHANGED <<values, count, pc, self, i, args, result>>

(* Mutant: the turn of the loop that called it starts again.               *)
array_same_again ==
  /\ pc = "equal"
  /\ count[Top.left] = count[Top.right] /\ Top.i = count[Top.left]
  /\ IF Len(work) = 1
     THEN Done("equal", args, TRUE)
     ELSE /\ work' = SubSeq(work, 1, Len(work) - 1)
          /\ UNCHANGED <<pc, self, i, args, result>>
  /\ UNCHANGED <<values, count>>

(* It returns true, to the turn of the loop that called it.                *)
array_same ==
  /\ pc = "equal"
  /\ count[Top.left] = count[Top.right] /\ Top.i = count[Top.left]
  /\ IF Len(work) = 1
     THEN Done("equal", args, TRUE)
     ELSE /\ work' = Advanced(SubSeq(work, 1, Len(work) - 1))
          /\ UNCHANGED <<pc, self, i, args, result>>
  /\ UNCHANGED <<values, count>>
-----------------------------------------------------------------------------
Loop == \/ new_array_element \/ new_array_done \/ prepend_shift \/ prepend_done
        \/ drop_shift \/ drop_done \/ array_differs \/ array_element \/ array_same

Arguments == UNION {[1 .. n -> Value] : n \in 0 .. 2}

Call ==
  \/ \E s \in Arguments : op_new_array(s)
  \/ \E a \in Made :
       \/ \E m \in DOMAIN Arity, s \in Arguments : wrong_arity(m, a, s)
       \/ array_length(a) \/ array_empty(a) \/ array_pop(a) \/ array_drop(a)
       \/ \E v \in Value : array_push(a, v) \/ array_insert(a, v)
       \/ \E idx \in Indices : op_slice(a, idx)
       \/ \E b \in Made : values_equal(a, b)

Next == Loop \/ Call
Spec == Init /\ [][Next]_vars
FairSpec == Spec /\ WF_vars(Loop)
-----------------------------------------------------------------------------
(* The types; an array has room for its elements, and memory that was not  *)
(* written yet is not among them.                                          *)
TypeOK ==
  /\ values \in [Made -> Seq(Value \cup {JUNK})] /\ DOMAIN count = Made /\ Made \subseteq Array
  /\ \A a \in Made :
       /\ count[a] \in 0 .. Len(values[a])
       /\ \A n \in 1 .. count[a] : values[a][n] # JUNK
  /\ pc \in {"idle", "new", "insert", "drop", "equal"}
  /\ i \in Int /\ args \in Seq(Value) /\ self \in Made \cup {NIL}
  /\ pc = "idle" <=> self = NIL

(* What the program sees of an array: while a loop moves its elements,     *)
(* what it held before.                                                    *)
Contents(a) ==
  LET s == SubSeq(values[a], 1, count[a])
      all == values[a]
  IN  IF a # self THEN s
      ELSE IF pc = "insert"
      THEN SubSeq(all, 1, i + 1) \o SubSeq(all, i + 3, count[a] + 1)
      ELSE IF pc = "drop"
      THEN args \o SubSeq(all, 1, i) \o SubSeq(all, i + 2, count[a])
      ELSE s

(* The elements of an array are a sequence whatever memory they are in and *)
(* while loops move them; a comparison says that two arrays are the same   *)
(* exactly if they hold the same, nested in any way.                       *)
L == INSTANCE Lists WITH
       lists <- [a \in Made \ (IF pc = "new" THEN {self} ELSE {}) |-> Contents(a)]
ImplementsLists == L!Spec

(* An array that holds itself, at any depth.                               *)
Holds(a, b) == b \in {Cell(a, n) : n \in 0 .. count[a] - 1}
Acyclic ==
  \A S \in SUBSET Made \ {{}} : \E a \in S : \A b \in S : ~Holds(a, b)

(* Every call returns: the loops over an array end, and a comparison ends  *)
(* unless it goes round in arrays that hold themselves.                    *)
CallsReturn == (pc # "idle" /\ (pc = "equal" => Acyclic)) ~> (pc = "idle")
=============================================================================
