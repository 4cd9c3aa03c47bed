------------------------------ MODULE ValpHash ------------------------------
(***************************************************************************)
(* valp_hash.c: open addressing with linear probing and tombstones, the    *)
(* table behind globals, constants, the string intern set, method tables   *)
(* and instance fields.                                                    *)
(*                                                                         *)
(* A call that needs no growth is one step.  hash_set with growth is the   *)
(* allocation (where the collector may run and sweep white keys out of the *)
(* very table being grown), one step per iteration of the copying loop,    *)
(* the swap of the arrays, and the insertion.  As in C, "capacity" is the  *)
(* index mask: the number of slots minus one, -1 for a table without any.  *)
(* key->hash & capacity is hash % (capacity + 1), sizes being powers of 2. *)
(***************************************************************************)
EXTENDS Integers, FiniteSets

CONSTANTS
  Key,          \* interned strings, compared by pointer
  Value,        \* values, NIL_VAL and BOOL_VAL(true) among them
  NULL,         \* the null key
  NIL, TRUEVAL, \* NIL_VAL and BOOL_VAL(true)
  HashOf,       \* key->hash
  MinSize,      \* slots of the first allocation: 8 in GROW_CAPACITY
  MaxSize,      \* bound of the model: growth beyond it is not explored
  MaxSource     \* bound of the model: live keys hash_add_all copies

ASSUME HashAssumption ==
  /\ NULL \notin Key
  /\ NIL \in Value /\ TRUEVAL \in Value /\ NIL # TRUEVAL
  /\ HashOf \in [Key -> Nat]
  /\ MinSize \in Nat /\ MinSize >= 2
  /\ MaxSize \in Nat /\ MaxSource \in Nat

VARIABLES
  entries, capacity, count,  \* the fields of valp_hash
  dest, idx,                 \* adjust_capacity: the new array, the loop index
  arg,                       \* hash_set in progress: its key and value
  todo,                      \* hash_add_all in progress: what is still to copy
  pc,                        \* where the call in progress stands
  out                        \* the last return value

table == <<entries, capacity, count>>
vars == <<entries, capacity, count, dest, idx, arg, todo, pc, out>>
-----------------------------------------------------------------------------
Entry == [key : Key \cup {NULL}, value : Value]
EmptyEntry == [key |-> NULL, value |-> NIL]
Tombstone == [key |-> NULL, value |-> TRUEVAL]
NoEntries == [s \in {} |-> EmptyEntry]
NoArg == [key |-> NULL, value |-> NIL]
NoTodo == [k \in {} |-> NIL]
PartialMap == UNION {[S -> Value] : S \in SUBSET Key}

IsEmpty(e) == e.key = NULL /\ e.value = NIL
IsTombstone(e) == e.key = NULL /\ e.value # NIL
Used(es) == {s \in DOMAIN es : ~IsEmpty(es[s])}

(* The slot that d iterations of "index = (index + 1) & capacity" reach    *)
(* from slot h.                                                            *)
Advance(h, d, cap) == IF h + d <= cap THEN h + d ELSE h + d - (cap + 1)
Home(k, cap) == HashOf[k] % (cap + 1)
Probe(k, d, cap) == Advance(Home(k, cap), d, cap)

(* The probe for k ends at distance d: an empty slot, or the key.          *)
StopsAt(es, cap, k, d) ==
  LET e == es[Probe(k, d, cap)] IN IsEmpty(e) \/ e.key = k

IsFirstStop(es, cap, k, d) ==
  /\ StopsAt(es, cap, k, d)
  /\ \A j \in 0 .. d - 1 : ~StopsAt(es, cap, k, j)

(* find_entry: the key's slot, else the first tombstone passed, else the   *)
(* empty slot.  Without a stop the loop in C would not end.                *)
find_entry(es, cap, k) ==
  LET d == CHOOSE i \in 0 .. cap : IsFirstStop(es, cap, k, i)
      tombs == {j \in 0 .. d - 1 : IsTombstone(es[Probe(k, j, cap)])}
  IN  IF es[Probe(k, d, cap)].key = k \/ tombs = {}
      THEN Probe(k, d, cap)
      ELSE Probe(k, CHOOSE j \in tombs : \A i \in tombs : j <= i, cap)

LiveKeys(es) == {k \in Key : \E s \in DOMAIN es : es[s].key = k}
SlotOf(es, k) == CHOOSE s \in DOMAIN es : es[s].key = k

Returned(ok, val) == [ok |-> ok, val |-> val]
NoValue == {}
-----------------------------------------------------------------------------
Init ==
  /\ entries = NoEntries /\ capacity = -1 /\ count = 0
  /\ dest = NoEntries /\ idx = 0
  /\ arg = NoArg
  /\ todo = NoTodo
  /\ pc = "idle"
  /\ out = Returned(FALSE, NoValue)

GROW_CAPACITY(n) == IF n < MinSize THEN MinSize ELSE n * 2

(* Mutant: the table may fill up.                                          *)
NeedsGrowth_full == count + 1 > capacity + 1

(* count + 1 > (capacity + 1) * HASH_MAX_LOAD, with HASH_MAX_LOAD = 0.75   *)
NeedsGrowth == 4 * (count + 1) > 3 * (capacity + 1)

(* Mutant: "new" is asked of the slot, so a recycled tombstone is old.     *)
Insert_newIfEmpty(k, v) ==
  LET s == find_entry(entries, capacity, k)
  IN  /\ entries' = [entries EXCEPT ![s] = [key |-> k, value |-> v]]
      /\ count' = IF IsEmpty(entries[s]) THEN count + 1 ELSE count
      /\ out' = Returned(IsEmpty(entries[s]), NoValue)
      /\ UNCHANGED capacity

(* The tail of hash_set: a slot that was really empty adds to count, a     *)
(* recycled tombstone does not.                                            *)
Insert(k, v) ==
  LET s == find_entry(entries, capacity, k)
      is_new_key == entries[s].key = NULL
  IN  /\ entries' = [entries EXCEPT ![s] = [key |-> k, value |-> v]]
      /\ count' = IF IsEmpty(entries[s]) THEN count + 1 ELSE count
      /\ out' = Returned(is_new_key, NoValue)
      /\ UNCHANGED capacity

(* hash_delete on each key of W that is there: a tombstone in its slot.    *)
WithoutWhite(W) ==
  LET gone == {find_entry(entries, capacity, k) : k \in W \cap LiveKeys(entries)}
  IN  [s \in DOMAIN entries |-> IF s \in gone THEN Tombstone ELSE entries[s]]

(* Mutant: count keeps the old array's tombstones.                         *)
StartGrowth_keepCount(k, v, W) ==
  LET cap == GROW_CAPACITY(capacity + 1) - 1
  IN  /\ cap + 1 <= MaxSize
      /\ entries' = WithoutWhite(W)
      /\ dest' = [s \in 0 .. cap |-> EmptyEntry]
      /\ idx' = 0
      /\ arg' = [key |-> k, value |-> v]
      /\ pc' = "copy"
      /\ UNCHANGED <<capacity, count, out>>

(* adjust_capacity up to its loops: the allocation of the new array may    *)
(* collect, which for vm.strings removes white keys from the old array;    *)
(* then count restarts at 0 and the new array is cleared.                  *)
StartGrowth(k, v, W) ==
  LET cap == GROW_CAPACITY(capacity + 1) - 1
  IN  /\ cap + 1 <= MaxSize
      /\ entries' = WithoutWhite(W)
      /\ dest' = [s \in 0 .. cap |-> EmptyEntry]
      /\ idx' = 0
      /\ count' = 0
      /\ arg' = [key |-> k, value |-> v]
      /\ pc' = "copy"
      /\ UNCHANGED <<capacity, out>>

(* hash_set *)
hash_set(k, v, W) ==
  \/ /\ ~NeedsGrowth
     /\ Insert(k, v)
     /\ UNCHANGED <<dest, idx, arg, pc>>
  \/ /\ NeedsGrowth
     /\ StartGrowth(k, v, W)

Set(k, v) ==
  /\ pc = "idle" /\ todo = NoTodo
  /\ \E W \in SUBSET (Key \ {k}) : hash_set(k, v, W)
  /\ UNCHANGED todo

(* Mutant: the skip of an empty slot forgets to advance.                   *)
CopyEntry_stuck ==
  /\ pc = "copy" /\ idx <= capacity
  /\ LET e == entries[idx]
         newcap == GROW_CAPACITY(capacity + 1) - 1
     IN  IF e.key = NULL
         THEN UNCHANGED <<dest, count, idx>>
         ELSE /\ dest' = [dest EXCEPT ![find_entry(dest, newcap, e.key)] = e]
              /\ count' = count + 1
              /\ idx' = idx + 1
  /\ UNCHANGED <<entries, capacity, arg, todo, pc, out>>

(* One iteration of the loop of adjust_capacity over the old entries.      *)
CopyEntry ==
  /\ pc = "copy" /\ idx <= capacity
  /\ LET e == entries[idx]
         newcap == GROW_CAPACITY(capacity + 1) - 1
     IN  IF e.key = NULL
         THEN UNCHANGED <<dest, count>>
         ELSE /\ dest' = [dest EXCEPT ![find_entry(dest, newcap, e.key)] = e]
              /\ count' = count + 1
  /\ idx' = idx + 1
  /\ UNCHANGED <<entries, capacity, arg, todo, pc, out>>

(* The end of adjust_capacity: the new array takes the old one's place.    *)
SwapArrays ==
  /\ pc = "copy" /\ idx > capacity
  /\ entries' = dest
  /\ capacity' = GROW_CAPACITY(capacity + 1) - 1
  /\ dest' = NoEntries
  /\ idx' = 0
  /\ pc' = "insert"
  /\ UNCHANGED <<count, arg, todo, out>>

FinishSet ==
  /\ pc = "insert"
  /\ Insert(arg.key, arg.value)
  /\ arg' = NoArg
  /\ pc' = "idle"
  /\ UNCHANGED <<dest, idx, todo>>

(* hash_get: nothing is probed in a table that never held an entry.        *)
Get(k) ==
  /\ pc = "idle" /\ todo = NoTodo
  /\ LET e == entries[find_entry(entries, capacity, k)]
     IN  out' = IF count = 0 \/ e.key = NULL
                THEN Returned(FALSE, NoValue)
                ELSE Returned(TRUE, e.value)
  /\ UNCHANGED <<table, dest, idx, arg, todo, pc>>

(* hash_find_string: probes by hash and characters, never looks at what    *)
(* tombstones held; the interned strings differ in their characters.       *)
FindString(k) ==
  /\ pc = "idle" /\ todo = NoTodo
  /\ LET e == entries[find_entry(entries, capacity, k)]
     IN  out' = Returned(count # 0 /\ e.key # NULL, NoValue)
  /\ UNCHANGED <<table, dest, idx, arg, todo, pc>>

(* Mutant: the slot is emptied, which cuts the probe sequences through it. *)
Delete_emptied(k) ==
  /\ pc = "idle" /\ todo = NoTodo
  /\ LET s == find_entry(entries, capacity, k)
     IN  IF count = 0 \/ entries[s].key = NULL
         THEN /\ out' = Returned(FALSE, NoValue)
              /\ UNCHANGED <<entries, count>>
         ELSE /\ entries' = [entries EXCEPT ![s] = EmptyEntry]
              /\ count' = count - 1
              /\ out' = Returned(TRUE, NoValue)
  /\ UNCHANGED <<capacity, dest, idx, arg, todo, pc>>

(* hash_delete: a tombstone stays behind, and stays in count.              *)
Delete(k) ==
  /\ pc = "idle" /\ todo = NoTodo
  /\ LET s == find_entry(entries, capacity, k)
     IN  IF count = 0 \/ entries[s].key = NULL
         THEN /\ out' = Returned(FALSE, NoValue)
              /\ UNCHANGED entries
         ELSE /\ entries' = [entries EXCEPT ![s] = Tombstone]
              /\ out' = Returned(TRUE, NoValue)
  /\ UNCHANGED <<capacity, count, dest, idx, arg, todo, pc>>

(* hash_remove_white, called by the collector between two operations.      *)
RemoveWhite(W) ==
  /\ pc = "idle" /\ todo = NoTodo
  /\ entries' = WithoutWhite(W)
  /\ UNCHANGED <<capacity, count, dest, idx, arg, todo, pc, out>>

(* hash_add_all: m is the content of "from", copied by hash_set one live   *)
(* key at a time (in slot order; any order here).                          *)
AddAll(m) ==
  /\ pc = "idle" /\ todo = NoTodo
  /\ todo' = m
  /\ UNCHANGED <<table, dest, idx, arg, pc, out>>

AddNext ==
  /\ pc = "idle"
  /\ \E k \in DOMAIN todo :
       /\ hash_set(k, todo[k], {})
       /\ todo' = [x \in DOMAIN todo \ {k} |-> todo[x]]

(* free_hash, when the owning class or instance is swept.                  *)
Free ==
  /\ pc = "idle" /\ todo = NoTodo
  /\ entries' = NoEntries /\ capacity' = -1 /\ count' = 0
  /\ UNCHANGED <<dest, idx, arg, todo, pc, out>>

(* The contents of a table that hash_add_all reads from.                   *)
Sources == {m \in PartialMap : Cardinality(DOMAIN m) <= MaxSource}

Continue == CopyEntry \/ SwapArrays \/ FinishSet \/ AddNext

Next ==
  \/ \E k \in Key, v \in Value : Set(k, v)
  \/ \E k \in Key : Get(k) \/ FindString(k) \/ Delete(k)
  \/ \E W \in SUBSET Key : RemoveWhite(W)
  \/ \E m \in Sources : AddAll(m)
  \/ Free
  \/ Continue

Spec == Init /\ [][Next]_vars

(* A C call runs to its end: once started, nothing but its own steps can   *)
(* happen, and the interpreter does not stop between two of them.          *)
FairSpec == Spec /\ WF_vars(Continue)
-----------------------------------------------------------------------------
TypeOK ==
  /\ capacity \in Nat \cup {-1}
  /\ entries \in [0 .. capacity -> Entry]
  /\ count \in Nat
  /\ idx \in Nat
  /\ arg \in Entry
  /\ todo \in PartialMap
  /\ pc \in {"idle", "copy", "insert"}
  /\ dest \in IF pc = "copy"
              THEN [0 .. GROW_CAPACITY(capacity + 1) - 1 -> Entry]
              ELSE {NoEntries}

(* No probe sequence meets a key twice: no two slots hold the same key,    *)
(* and from its home slot a key is reached over used slots only.           *)
KeysReachableIn(es, cap) ==
  /\ \A s, t \in DOMAIN es : es[s].key = es[t].key /\ es[s].key # NULL => s = t
  /\ \A k \in LiveKeys(es) : \E d \in 0 .. cap :
        /\ es[Probe(k, d, cap)].key = k
        /\ \A j \in 0 .. d - 1 : ~IsEmpty(es[Probe(k, j, cap)])

(* A key that was set and not deleted is found by every later probe,       *)
(* whatever tombstones, recycled slots and rehashing lie between           *)
(* (find_entry's comment "We found a tombstone").                          *)
KeysReachable ==
  /\ KeysReachableIn(entries, capacity)
  /\ pc = "copy" => KeysReachableIn(dest, GROW_CAPACITY(capacity + 1) - 1)

(* find_entry loops until it meets an empty slot: there always is one in   *)
(* an allocated array, tombstones included in the load factor.             *)
ProbesTerminate ==
  /\ capacity >= 0 => Used(entries) # DOMAIN entries
  /\ pc = "copy" => Used(dest) # DOMAIN dest

(* count is the number of slots that are not empty, live or tombstone, and *)
(* after the copy the number of live keys: hash_set's load test and the    *)
(* "count == 0" shortcuts of hash_get and hash_delete rest on it.          *)
CountIsUsed ==
  count = Cardinality(Used(IF pc = "copy" THEN dest ELSE entries))

(* A hash_set or hash_add_all that started returns.                        *)
CallsReturn == [](pc = "copy" \/ todo # NoTodo
                  => <>(pc = "idle" /\ todo = NoTodo))

(* The table is the map that valp_hash.h promises, return values included: *)
(* during growth the old array still is the map.                           *)
Contents == [k \in LiveKeys(entries) |-> entries[SlotOf(entries, k)].value]
D == INSTANCE Dict WITH map <- Contents
ImplementsDict == D!Spec
=============================================================================
