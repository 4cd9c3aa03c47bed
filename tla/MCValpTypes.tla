---------------------------- MODULE MCValpTypes ----------------------------
(* A TLC instance of the built-in types: a program that calls the methods  *)
(* of one array, one that compares nested arrays, or one that works on     *)
(* strings.                                                                *)
EXTENDS ValpTypes

CONSTANTS a1, a2, a3, a4, datum

VARIABLE scenario

strings == <<heap, constants, written, returned>>
mcvars == <<vars, scenario, strings>>

ASSUME StringAssumption

MCIndices == -1 .. MaxLength
MCChar == {"a", ","}

(* Bytes that look like a string.                                          *)
MCGarbage == {<<",", NUL, "a">>}

(* The methods of one array of data, to let it grow twice.                 *)
FlatCall ==
  \/ Made = {} /\ op_new_array(<<datum, NIL>>)
  \/ \E a \in Made :
       \/ array_pop(a) \/ array_drop(a) \/ array_length(a) \/ array_empty(a)
       \/ array_push(a, datum) \/ array_insert(a, NIL)
       \/ \E idx \in Indices : op_slice(a, idx)
       \/ \E m \in DOMAIN Arity : count[a] = 1 /\ wrong_arity(m, a, <<datum, datum>>)

(* Arrays of arrays, those that hold themselves included, as literals and  *)
(* push leave them.                                                        *)
NestedInit ==
  /\ \E s \in [Array -> UNION {[1 .. n -> Array \cup {datum}] : n \in {0, 1}}] :
       /\ values = [a \in Array |->
                      s[a] \o [n \in 1 .. (IF s[a] = <<>> THEN 0 ELSE 8 - Len(s[a])) |-> JUNK]]
       /\ count = [a \in Array |-> Len(s[a])]
  /\ pc = "idle" /\ self = NIL /\ i = 0 /\ args = <<>> /\ work = <<>>
  /\ result = NoCall

Compare == result = NoCall /\ \E a, b \in Array : values_equal(a, b)

ScenarioInit ==
  /\ \/ scenario \in {"flat", "strings"} /\ Init
     \/ scenario = "nested" /\ NestedInit
  /\ Str!Init

ScenarioNext ==
  /\ \/ scenario = "flat" /\ (FlatCall \/ Loop) /\ UNCHANGED strings
     \/ scenario = "nested" /\ (Compare \/ Loop) /\ UNCHANGED strings
     \/ scenario = "strings" /\ Str!Next /\ UNCHANGED vars
  /\ UNCHANGED scenario

ScenarioSpec == ScenarioInit /\ [][ScenarioNext]_mcvars /\ WF_vars(Loop)
=============================================================================
