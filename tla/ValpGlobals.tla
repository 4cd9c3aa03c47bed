---------------------------- MODULE ValpGlobals ----------------------------
(***************************************************************************)
(* ValpConstants for modules that know other names as well: in ValpScopes  *)
(* those of locals, here those of globals.                                 *)
(***************************************************************************)
CONSTANTS Global, Address, Meets, Free, MaxLine
VARIABLES strings, globals, constants, line, ran, state, had_error, defined, failed

Con == INSTANCE ValpConstants WITH Name <- Global

ConstantsAssumption == Con!NamesAssumption /\ Con!FreeAssumption

GlobalsSpec == Con!Spec

(* The name of a const that has run stays where vm.constants has it, so    *)
(* that no later line assigns to it.                                       *)
ConstsAreRefused == Con!ConstsAreRefused

(* And nothing else is refused, as long as every line with a const has run *)
(* to its end.                                                             *)
OnlyConstsAreRefused == Con!OnlyConstsAreRefused
=============================================================================
