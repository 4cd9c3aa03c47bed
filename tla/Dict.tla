-------------------------------- MODULE Dict --------------------------------
(***************************************************************************)
(* What a valp_hash promises to its callers (valp_hash.h): a finite map    *)
(* from interned strings to values.  Each operation is one step on "map"   *)
(* and leaves its C return value in "out".  ValpHash, the open-addressing  *)
(* table of valp_hash.c, implements this module.                           *)
(***************************************************************************)
CONSTANTS Key, Value

VARIABLES
  map,   \* the map itself, a function whose domain is the set of live keys
  out    \* what the last call returned

vars == <<map, out>>

EmptyMap == [k \in {} |-> k]

(* No value is written through the out parameter of hash_get.              *)
NoValue == {}

Returned(ok, val) == [ok |-> ok, val |-> val]

Override(m, k, v) ==
  [x \in DOMAIN m \cup {k} |-> IF x = k THEN v ELSE m[x]]

Without(m, S) == [x \in DOMAIN m \ S |-> m[x]]

Init ==
  /\ map = EmptyMap
  /\ out = Returned(FALSE, NoValue)

(* hash_get: whether the key is there, and its value.                      *)
Get(k) ==
  /\ out' = IF k \in DOMAIN map THEN Returned(TRUE, map[k])
                                ELSE Returned(FALSE, NoValue)
  /\ UNCHANGED map

(* hash_find_string: only whether the key is there.                        *)
Find(k) ==
  /\ out' = Returned(k \in DOMAIN map, NoValue)
  /\ UNCHANGED map

(* hash_set: the value replaces the old one; TRUE iff the key is new.      *)
Put(k, v) ==
  /\ map' = Override(map, k, v)
  /\ out' = Returned(k \notin DOMAIN map, NoValue)

(* hash_delete: TRUE iff the key was there.                                *)
Delete(k) ==
  /\ map' = Without(map, {k})
  /\ out' = Returned(k \in DOMAIN map, NoValue)

(* hash_remove_white and free_hash: keys go, nothing is returned.          *)
Forget(S) ==
  /\ map' = Without(map, S)
  /\ UNCHANGED out

Next ==
  \/ \E k \in Key : Get(k) \/ Find(k) \/ Delete(k)
  \/ \E k \in Key, v \in Value : Put(k, v)
  \/ \E S \in SUBSET Key : Forget(S)

Spec == Init /\ [][Next]_vars
=============================================================================
