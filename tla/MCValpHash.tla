----------------------------- MODULE MCValpHash -----------------------------
(* TLC instances of ValpHash. *)
EXTENDS ValpHash, TLC

CONSTANTS k1, k2, k3

(* k1 and k2 share the last slot as home in every array and wrap around;   *)
(* k3's probe runs into them.                                              *)
MCHash == k1 :> 7 @@ k2 :> 7 @@ k3 :> 6
=============================================================================
