------------------------------- MODULE Lists -------------------------------
(***************************************************************************)
(* What the arrays of Valp promise: sequences that are changed at either   *)
(* end, read anywhere, and compared by what they hold.                     *)
(***************************************************************************)
EXTENDS Integers, Sequences, FiniteSets

CONSTANTS
  Array,    \* the identities of arrays
  Data,     \* what else an array may hold
  Indices,  \* the numbers arrays are indexed by
  NIL, ERROR

VARIABLES
  lists,  \* per array that was made, what it holds
  result  \* the call that returned last: [call, of, args, value]

Arity == [len |-> 0, push |-> 1, pop |-> 0, insert |-> 1, drop |-> 0, is_empty |-> 0]
Made == DOMAIN lists
Element == Data \cup {NIL} \cup Made
Arguments == UNION {[1 .. n -> Element] : n \in 0 .. 2}

Returns(call, a, args, value) ==
  result' = [call |-> call, of |-> a, args |-> args, value |-> value]
Reads(call, a, args, value) == Returns(call, a, args, value) /\ UNCHANGED lists
Sets(a, s) == lists' = [lists EXCEPT ![a] = s]

(* Lists are the same if they are as long and hold the same elements, the  *)
(* lists among them being compared in turn; same[n] looks n lists deep.    *)
Same ==
  LET depth == Cardinality(Made) * Cardinality(Made) + 1
      same[n \in 0 .. depth] ==
        IF n = 0 THEN {}
        ELSE {p \in Made \X Made :
                LET s == lists[p[1]]
                    t == lists[p[2]]
                IN  /\ Len(s) = Len(t)
                    /\ \A i \in DOMAIN s : IF s[i] \in Array /\ t[i] \in Array
                                           THEN <<s[i], t[i]>> \in same[n - 1]
                                           ELSE s[i] = t[i]}
  IN  same[depth]

NoCall == [call |-> "none", of |-> NIL, args |-> <<>>, value |-> NIL]

(* Literals and push may have left any lists.                              *)
Init == lists \in [Made -> Seq(Element)] /\ Made \subseteq Array /\ result = NoCall

(* A literal holds its elements in the order they are written in.          *)
New(a, s) ==
  /\ a \in Array \ Made
  /\ lists' = [x \in Made \cup {a} |-> IF x = a THEN s ELSE lists[x]]
  /\ Returns("new", a, s, a)

Push(a, v) == Sets(a, Append(lists[a], v)) /\ Returns("push", a, <<v>>, NIL)
Insert(a, v) == Sets(a, <<v>> \o lists[a]) /\ Returns("insert", a, <<v>>, NIL)

Pop(a) ==
  IF lists[a] = <<>> THEN Reads("pop", a, <<>>, NIL)
  ELSE /\ Sets(a, SubSeq(lists[a], 1, Len(lists[a]) - 1))
       /\ Returns("pop", a, <<>>, lists[a][Len(lists[a])])

Drop(a) ==
  IF lists[a] = <<>> THEN Reads("drop", a, <<>>, NIL)
  ELSE Sets(a, Tail(lists[a])) /\ Returns("drop", a, <<>>, Head(lists[a]))

(* The first element has index 0.                                          *)
Slice(a, i) ==
  Reads("slice", a, <<i>>, IF i + 1 \in DOMAIN lists[a] THEN lists[a][i + 1] ELSE ERROR)

Next ==
  \E a \in Array :
    \/ New(a, result'.args)
    \/ /\ a \in Made
       /\ \/ \E v \in Element : Push(a, v) \/ Insert(a, v)
          \/ Pop(a) \/ Drop(a)
          \/ Reads("len", a, <<>>, Len(lists[a]))
          \/ Reads("is_empty", a, <<>>, lists[a] = <<>>)
          \/ \E i \in Indices : Slice(a, i)
          \/ \E b \in Made : Reads("equal", a, <<b>>, <<a, b>> \in Same)
          \/ \E m \in DOMAIN Arity, args \in Arguments :
               Len(args) # Arity[m] /\ Reads(m, a, args, ERROR)

Spec == Init /\ [][Next]_<<lists, result>>
=============================================================================
