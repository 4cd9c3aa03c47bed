----------------------------- MODULE Variables -----------------------------
(***************************************************************************)
(* What a program may expect of its local variables: each one declared is  *)
(* a cell of its own, an access finds the cell with what was last assigned *)
(* to it, through whichever closure, and the cell is there for as long as  *)
(* some code can name it.  ValpClosures, the stack slots and upvalues of   *)
(* valp_vm.c, implements this module.                                      *)
(***************************************************************************)
CONSTANTS Var, Value

VARIABLES
  store,   \* the cells: variable -> value
  access   \* the variable the last step read or assigned, and the value

vars == <<store, access>>

NoAccess == <<>>

Init ==
  /\ \E S \in SUBSET Var : store \in [S -> Value]
  /\ access = NoAccess

(* New variables come to life, each with some first value.                 *)
Declare(S) ==
  /\ S \cap DOMAIN store = {}
  /\ store' \in [DOMAIN store \cup S -> Value]
  /\ \A v \in DOMAIN store : store'[v] = store[v]
  /\ access' = NoAccess

Read(v) ==
  /\ v \in DOMAIN store
  /\ access' = [of |-> v, val |-> store[v]]
  /\ UNCHANGED store

Assign(v, val) ==
  /\ v \in DOMAIN store
  /\ store' = [store EXCEPT ![v] = val]
  /\ access' = [of |-> v, val |-> val]

(* Variables that nothing can name any more: a later access would be no    *)
(* step of this module.                                                    *)
Forget(S) ==
  /\ store' = [v \in DOMAIN store \ S |-> store[v]]
  /\ access' = NoAccess

Next ==
  \/ \E S \in SUBSET Var : Declare(S) \/ Forget(S)
  \/ \E v \in Var : Read(v)
  \/ \E v \in Var, val \in Value : Assign(v, val)

Spec == Init /\ [][Next]_vars
=============================================================================
