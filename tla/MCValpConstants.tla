-------------------------- MODULE MCValpConstants --------------------------
(* A TLC instance of ValpConstants: three names of which two share a slot  *)
(* of vm.constants, and as many addresses.                                 *)
EXTENDS ValpGlobals, TLC

CONSTANTS x, y, z, at1, at2, at3

MCMeets == [nm \in Global \X Global |-> nm[1] = nm[2] \/ ~(z \in {nm[1], nm[2]})]
Addresses == Permutations(Address)

ASSUME ConstantsAssumption
=============================================================================
