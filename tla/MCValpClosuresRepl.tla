------------------------- MODULE MCValpClosuresRepl -------------------------
(* TLC instances of ValpClosuresRepl.  To save states, garbage goes at     *)
(* once.                                                                   *)
EXTENDS ValpClosuresRepl, TLC

CONSTANTS f, g, h, u1, u2, a, v1, v2, v3, v4

MCSymmetry == Permutations(Closure) \cup Permutations(Upvalue)

EagerNext == CollectLine \/ (~ENABLED CollectLine /\ ReplNext)
EagerSpec == ReplInit /\ [][EagerNext]_replVars
=============================================================================
