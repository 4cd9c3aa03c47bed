--------------------------- MODULE MCValpClosures ---------------------------
(* TLC instances of ValpClosures.  To save states, garbage goes at once.   *)
EXTENDS ValpClosures, TLC

CONSTANTS f, g, h, u1, u2, a, v1, v2, v3, v4, v5

MCSymmetry == Permutations(Closure) \cup Permutations(Upvalue)

EagerNext == Collect \/ (~ENABLED Collect /\ Next)
EagerSpec == Init /\ [][EagerNext]_vars
=============================================================================
