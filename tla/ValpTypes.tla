----------------------------- MODULE ValpTypes -----------------------------
(***************************************************************************)
(* The built-in types: the arrays of ValpArrays beside the strings of      *)
(* ValpStrings, which share no state.                                      *)
(***************************************************************************)
EXTENDS ValpArrays

CONSTANTS Char, NUL, Garbage, MaxText, MaxStrings
VARIABLES heap, constants, written, returned

Str == INSTANCE ValpStrings WITH result <- returned

StringAssumption == Str!StringAssumption
StringSpec == Str!Spec

(* Literals and concatenations have the characters they should.            *)
CopiesAreRight == Str!CopiesAreRight

(* Strings nobody wrote into are one if they are equal.                    *)
EqualStringsAreOne == Str!EqualStringsAreOne

(* reverse, replace and split give what their names say.                   *)
MethodsGive == Str!MethodsGive
=============================================================================
