--------------------------- MODULE ValpHashProofs ---------------------------
(***************************************************************************)
(* Proofs about ValpHash, for every set of keys, every hash function and   *)
(* tables of every size.                                                   *)
(***************************************************************************)
EXTENDS ValpHash, FiniteSetTheorems, WellFoundedInduction, TLAPS

(* The d-th probe of a key is a slot of the table.                         *)
LEMMA HomeType ==
  ASSUME NEW cap \in Nat, NEW k \in Key
  PROVE  Home(k, cap) \in 0 .. cap
BY HashAssumption DEF Home, HashAssumption

LEMMA ProbeType ==
  ASSUME NEW cap \in Nat, NEW k \in Key, NEW d \in 0 .. cap
  PROVE  Probe(k, d, cap) \in 0 .. cap
BY HomeType DEF Probe, Advance

(* The probe sequence of a key visits no slot twice ...                    *)
LEMMA ProbeInjective ==
  ASSUME NEW cap \in Nat, NEW k \in Key, NEW d \in 0 .. cap, NEW e \in 0 .. cap,
         Probe(k, d, cap) = Probe(k, e, cap)
  PROVE  d = e
BY HomeType DEF Probe, Advance

(* ... and every slot once.                                                *)
LEMMA ProbeSurjective ==
  ASSUME NEW cap \in Nat, NEW k \in Key, NEW s \in 0 .. cap
  PROVE  \E d \in 0 .. cap : Probe(k, d, cap) = s
<1>1. CASE s >= Home(k, cap)
  <2>1. s - Home(k, cap) \in 0 .. cap /\ Probe(k, s - Home(k, cap), cap) = s
    BY <1>1, HomeType DEF Probe, Advance
  <2> QED BY <2>1
<1>2. CASE s < Home(k, cap)
  <2>1. /\ s - Home(k, cap) + cap + 1 \in 0 .. cap
        /\ Probe(k, s - Home(k, cap) + cap + 1, cap) = s
    BY <1>2, HomeType DEF Probe, Advance
  <2> QED BY <2>1
<1> QED BY <1>1, <1>2, HomeType

(* A set of naturals that is not empty has a least element.                *)
LEMMA LeastElement ==
  ASSUME NEW S \in SUBSET Nat, S # {}
  PROVE  \E d \in S : \A e \in S : d <= e
<1> DEFINE R == {ss \in Nat \X Nat : ss[1] < ss[2]}
<1>1. IsWellFoundedOn(R, Nat)
  BY NatLessThanWellFounded DEF OpToRel
<1> HIDE DEF R
<1>2. PICK d \in S : \A e \in S : ~(<<e, d>> \in R)
  BY <1>1, WFMin
<1>3. ASSUME NEW e \in S PROVE d <= e
  <2>1. d \in Nat /\ e \in Nat
    OBVIOUS
  <2>2. e < d => <<e, d>> \in R
    BY <2>1 DEF R
  <2> QED BY <1>2, <2>1, <2>2
<1> QED BY <1>3

(* In a table with an empty slot the loop of find_entry ends: some probe   *)
(* is the first to stop.                                                   *)
LEMMA FirstStopExists ==
  ASSUME NEW cap \in Nat, NEW es \in [0 .. cap -> Entry], NEW k \in Key,
         Used(es) # DOMAIN es
  PROVE  \E d \in 0 .. cap : IsFirstStop(es, cap, k, d)
<1> DEFINE T == {d \in 0 .. cap : StopsAt(es, cap, k, d)}
<1>1. T # {}
  <2>1. PICK s \in 0 .. cap : IsEmpty(es[s])
    BY DEF Used
  <2>2. PICK d \in 0 .. cap : Probe(k, d, cap) = s
    BY ProbeSurjective
  <2> QED BY <2>1, <2>2 DEF StopsAt
<1>2. PICK d \in T : \A e \in T : d <= e
  <2>1. T \in SUBSET Nat
    OBVIOUS
  <2> HIDE DEF T
  <2> QED BY <1>1, <2>1, LeastElement
<1>3. \A j \in 0 .. d - 1 : ~StopsAt(es, cap, k, j)
  BY <1>2
<1> QED BY <1>2, <1>3 DEF IsFirstStop
-----------------------------------------------------------------------------
(* s is where k belongs: the slot that holds it, or if there is none a     *)
(* slot without a key; and the probes reach it over used slots.            *)
SlotFor(k, s, es, cap) ==
  /\ s \in 0 .. cap
  /\ es[s].key = IF k \in LiveKeys(es) THEN k ELSE NULL
  /\ \E d \in 0 .. cap : /\ Probe(k, d, cap) = s
                         /\ \A j \in 0 .. d - 1 : ~IsEmpty(es[Probe(k, j, cap)])

(* ns is es with an entry written to slot s ...                            *)
Stored(ns, es, cap, s, k, v) ==
  /\ ns \in [0 .. cap -> Entry]
  /\ \A t \in 0 .. cap : ns[t] = IF t = s THEN [key |-> k, value |-> v] ELSE es[t]

(* ... and with tombstones written over the keys in the slots of G.        *)
Buried(ns, es, cap, G) ==
  /\ G \subseteq 0 .. cap /\ \A g \in G : es[g].key # NULL
  /\ ns \in [0 .. cap -> Entry]
  /\ \A t \in 0 .. cap : ns[t] = IF t \in G THEN Tombstone ELSE es[t]

KeysAt(es, G) == {es[g].key : g \in G}

(* find_entry returns where the key belongs, if some slot is empty.        *)
LEMMA FindEntry ==
  ASSUME NEW cap \in Nat, NEW es \in [0 .. cap -> Entry], NEW k \in Key,
         KeysReachableIn(es, cap), Used(es) # DOMAIN es
  PROVE  SlotFor(k, find_entry(es, cap, k), es, cap)
<1> USE DEF SlotFor
<1> DEFINE d == CHOOSE i \in 0 .. cap : IsFirstStop(es, cap, k, i)
           tombs == {j \in 0 .. d - 1 : IsTombstone(es[Probe(k, j, cap)])}
           first == CHOOSE j \in tombs : \A i \in tombs : j <= i
<1>1. d \in 0 .. cap /\ IsFirstStop(es, cap, k, d)
  BY FirstStopExists
<1>2. find_entry(es, cap, k) = IF es[Probe(k, d, cap)].key = k \/ tombs = {}
                               THEN Probe(k, d, cap) ELSE Probe(k, first, cap)
  BY DEF find_entry
<1> HIDE DEF d
<1>3. \A j \in 0 .. d - 1 : /\ j \in 0 .. cap
                             /\ ~IsEmpty(es[Probe(k, j, cap)])
                             /\ es[Probe(k, j, cap)].key # k
  BY <1>1 DEF IsFirstStop, StopsAt
<1>4. Probe(k, d, cap) \in 0 .. cap
  BY <1>1, ProbeType
<1>5. CASE es[Probe(k, d, cap)].key = k
  <2>1. k \in LiveKeys(es)
    BY <1>4, <1>5 DEF LiveKeys
  <2>2. find_entry(es, cap, k) = Probe(k, d, cap)
    BY <1>2, <1>5
  <2> QED BY <1>1, <1>3, <1>4, <1>5, <2>1, <2>2
<1>6. CASE es[Probe(k, d, cap)].key # k
  <2>1. IsEmpty(es[Probe(k, d, cap)])
    BY <1>1, <1>6 DEF IsFirstStop, StopsAt
  <2>2. k \notin LiveKeys(es)
    <3>1. SUFFICES ASSUME k \in LiveKeys(es) PROVE FALSE
      OBVIOUS
    <3>2. PICK e \in 0 .. cap : /\ es[Probe(k, e, cap)].key = k
                                /\ \A j \in 0 .. e - 1 : ~IsEmpty(es[Probe(k, j, cap)])
      BY <3>1 DEF KeysReachableIn
    <3>3. e >= d
      BY <1>1, <1>3, <3>2
    <3>4. e = d
      BY <1>1, <2>1, <3>2, <3>3
    <3> QED BY <1>6, <3>2, <3>4
  <2>3. CASE tombs = {}
    <3>1. find_entry(es, cap, k) = Probe(k, d, cap)
      BY <1>2, <2>3
    <3> QED BY <1>1, <1>3, <1>4, <2>1, <2>2, <3>1 DEF IsEmpty
  <2>4. CASE tombs # {}
    <3>1. first \in tombs
      <4>1. tombs \in SUBSET Nat
        BY <1>1
      <4>2. \E j \in tombs : \A i \in tombs : j <= i
        <5> HIDE DEF tombs
        <5> QED BY <2>4, <4>1, LeastElement
      <4> QED BY <4>2
    <3>2. find_entry(es, cap, k) = Probe(k, first, cap)
      BY <1>2, <1>6, <2>4
    <3> HIDE DEF first
    <3>3. /\ first \in 0 .. cap /\ first < d
          /\ es[Probe(k, first, cap)].key = NULL
      BY <1>1, <1>3, <3>1 DEF IsTombstone
    <3>4. \A j \in 0 .. first - 1 : ~IsEmpty(es[Probe(k, j, cap)])
      BY <1>1, <1>3, <3>3
    <3> QED BY <2>2, <3>2, <3>3, <3>4, ProbeType
  <2> QED BY <2>3, <2>4
<1> QED BY <1>5, <1>6

(* Slots that stay in use keep probe sequences uninterrupted.              *)
LEMMA PathKept ==
  ASSUME NEW cap \in Nat, NEW k \in Key, NEW d \in 0 .. cap, NEW es, NEW ns,
         \A t \in 0 .. cap : ~IsEmpty(es[t]) => ~IsEmpty(ns[t]),
         \A j \in 0 .. d - 1 : ~IsEmpty(es[Probe(k, j, cap)])
  PROVE  \A j \in 0 .. d - 1 : ~IsEmpty(ns[Probe(k, j, cap)])
<1> SUFFICES ASSUME NEW j \in 0 .. d - 1 PROVE ~IsEmpty(ns[Probe(k, j, cap)])
  OBVIOUS
<1>1. j \in 0 .. cap
  OBVIOUS
<1>2. Probe(k, j, cap) \in 0 .. cap
  BY <1>1, ProbeType
<1> QED BY <1>2

(* Writing a key to the slot that find_entry gave keeps every key          *)
(* reachable and adds that slot and that key only.                         *)
LEMMA StoreEntry ==
  ASSUME NEW cap \in Nat, NEW es \in [0 .. cap -> Entry], NEW k \in Key, NEW v \in Value,
         KeysReachableIn(es, cap),
         NEW s, SlotFor(k, s, es, cap), NEW ns, Stored(ns, es, cap, s, k, v)
  PROVE  /\ KeysReachableIn(ns, cap)
         /\ Used(ns) = Used(es) \cup {s}
         /\ LiveKeys(ns) = LiveKeys(es) \cup {k}
<1> USE DEF SlotFor, Stored
<1>0. k # NULL /\ NULL \notin Key
  BY HashAssumption DEF HashAssumption
<1>2. \A t \in 0 .. cap : ns[t] = IF t = s THEN [key |-> k, value |-> v] ELSE es[t]
  OBVIOUS
<1>3. DOMAIN ns = 0 .. cap /\ DOMAIN es = 0 .. cap
  OBVIOUS
<1>4. Used(ns) = Used(es) \cup {s}
  BY <1>0, <1>2, <1>3 DEF Used, IsEmpty
<1>5. LiveKeys(ns) = LiveKeys(es) \cup {k}
  <2>1. ASSUME NEW l \in Key, l \in LiveKeys(ns), l # k PROVE l \in LiveKeys(es)
    BY <2>1, <1>2, <1>3 DEF LiveKeys
  <2>2. ASSUME NEW l \in Key, l \in LiveKeys(es), l # k PROVE l \in LiveKeys(ns)
    BY <2>2, <1>0, <1>2, <1>3 DEF LiveKeys
  <2>3. k \in LiveKeys(ns)
    BY <1>2, <1>3 DEF LiveKeys
  <2> QED BY <2>1, <2>2, <2>3 DEF LiveKeys
<1>6. ASSUME NEW t \in 0 .. cap, NEW u \in 0 .. cap,
             ns[t].key = ns[u].key, ns[t].key # NULL
      PROVE  t = u
  <2>1. \A w \in 0 .. cap : es[w].key = k => w = s
    BY <1>0, <1>3 DEF KeysReachableIn, LiveKeys
  <2>2. \A w, x \in 0 .. cap : es[w].key = es[x].key /\ es[w].key # NULL => w = x
    BY <1>3 DEF KeysReachableIn
  <2> QED BY <1>2, <1>6, <2>1, <2>2
<1>7. ASSUME NEW l \in LiveKeys(ns)
      PROVE  \E d \in 0 .. cap : /\ ns[Probe(l, d, cap)].key = l
                                 /\ \A j \in 0 .. d - 1 : ~IsEmpty(ns[Probe(l, j, cap)])
  <2>0. l \in Key
    BY DEF LiveKeys
  <2>1. \A t \in 0 .. cap : ~IsEmpty(es[t]) => ~IsEmpty(ns[t])
    BY <1>0, <1>2 DEF IsEmpty
  <2>2. CASE l = k
    <3>1. PICK d \in 0 .. cap : /\ Probe(k, d, cap) = s
                                /\ \A j \in 0 .. d - 1 : ~IsEmpty(es[Probe(k, j, cap)])
      OBVIOUS
    <3>2. \A j \in 0 .. d - 1 : ~IsEmpty(ns[Probe(k, j, cap)])
      BY <2>1, <3>1, PathKept
    <3>3. ns[Probe(k, d, cap)].key = k
      BY <1>2, <3>1
    <3> QED BY <2>2, <3>2, <3>3
  <2>3. CASE l # k
    <3>1. PICK d \in 0 .. cap : /\ es[Probe(l, d, cap)].key = l
                                /\ \A j \in 0 .. d - 1 : ~IsEmpty(es[Probe(l, j, cap)])
      BY <1>5, <2>3 DEF KeysReachableIn
    <3>2. \A j \in 0 .. d - 1 : ~IsEmpty(ns[Probe(l, j, cap)])
      BY <2>0, <2>1, <3>1, PathKept
    <3>3. Probe(l, d, cap) # s
      BY <1>0, <2>0, <2>3, <3>1
    <3>4. ns[Probe(l, d, cap)].key = l
      BY <1>2, <2>0, <3>1, <3>3, ProbeType
    <3> QED BY <3>2, <3>4
  <2> QED BY <2>2, <2>3
<1>8. KeysReachableIn(ns, cap)
  BY <1>3, <1>6, <1>7 DEF KeysReachableIn
<1> QED BY <1>4, <1>5, <1>8

(* Tombstones in the place of keys keep the other keys reachable, and the  *)
(* same slots in use.                                                      *)
LEMMA BuryEntries ==
  ASSUME NEW cap \in Int, NEW es \in [0 .. cap -> Entry], KeysReachableIn(es, cap),
         NEW G, NEW ns, Buried(ns, es, cap, G)
  PROVE  /\ KeysReachableIn(ns, cap)
         /\ Used(ns) = Used(es)
         /\ LiveKeys(ns) = LiveKeys(es) \ KeysAt(es, G)
<1> USE DEF Buried, KeysAt
<1>0. NULL \notin Key /\ NIL # TRUEVAL /\ TRUEVAL \in Value
  BY HashAssumption DEF HashAssumption
<1>2. DOMAIN ns = 0 .. cap /\ DOMAIN es = 0 .. cap
  OBVIOUS
<1>3. \A t \in 0 .. cap : ns[t] = IF t \in G THEN Tombstone ELSE es[t]
  OBVIOUS
<1>4. Used(ns) = Used(es)
  BY <1>0, <1>2, <1>3 DEF Used, IsEmpty, Tombstone
<1>5. \A t \in 0 .. cap : ns[t].key # NULL => t \notin G /\ ns[t] = es[t]
  BY <1>3 DEF Tombstone
<1>6. \A t, u \in 0 .. cap : es[t].key = es[u].key /\ es[t].key # NULL => t = u
  BY <1>2 DEF KeysReachableIn
<1>7. LiveKeys(ns) = LiveKeys(es) \ KeysAt(es, G)
  <2>1. ASSUME NEW l \in LiveKeys(ns)
        PROVE  l \in LiveKeys(es) /\ l \notin KeysAt(es, G)
    <3>1. PICK t \in 0 .. cap : l \in Key /\ ns[t].key = l
      BY <1>2 DEF LiveKeys
    <3> QED BY <1>0, <1>2, <1>5, <1>6, <3>1 DEF LiveKeys
  <2>2. ASSUME NEW l \in LiveKeys(es), l \notin KeysAt(es, G)
        PROVE  l \in LiveKeys(ns)
    BY <2>2, <1>2, <1>3 DEF LiveKeys
  <2> QED BY <2>1, <2>2
<1>8. \A t, u \in 0 .. cap : ns[t].key = ns[u].key /\ ns[t].key # NULL => t = u
  BY <1>5, <1>6
<1>9. ASSUME NEW l \in LiveKeys(ns)
      PROVE  \E d \in 0 .. cap : /\ ns[Probe(l, d, cap)].key = l
                                 /\ \A j \in 0 .. d - 1 : ~IsEmpty(ns[Probe(l, j, cap)])
  <2>1. l \in Key /\ l \in LiveKeys(es) /\ l \notin KeysAt(es, G)
    BY <1>7 DEF LiveKeys
  <2>2. cap \in Nat
    BY <1>2, <2>1 DEF LiveKeys
  <2>3. PICK d \in 0 .. cap : /\ es[Probe(l, d, cap)].key = l
                              /\ \A j \in 0 .. d - 1 : ~IsEmpty(es[Probe(l, j, cap)])
    BY <2>1 DEF KeysReachableIn
  <2>4. ns[Probe(l, d, cap)].key = l
    BY <1>3, <2>1, <2>2, <2>3, ProbeType
  <2>5. \A t \in 0 .. cap : ~IsEmpty(es[t]) => ~IsEmpty(ns[t])
    BY <1>0, <1>3 DEF IsEmpty, Tombstone
  <2>6. \A j \in 0 .. d - 1 : ~IsEmpty(ns[Probe(l, j, cap)])
    BY <2>1, <2>2, <2>3, <2>5, PathKept
  <2> QED BY <2>4, <2>6
<1>10. KeysReachableIn(ns, cap)
  BY <1>2, <1>8, <1>9 DEF KeysReachableIn
<1> QED BY <1>4, <1>7, <1>10
-----------------------------------------------------------------------------
(* What holds in addition while adjust_capacity copies: dest holds exactly *)
(* the entries with a key below idx, no tombstone, and count counts them.  *)
Copied(n) == {s \in 0 .. n - 1 : entries[s].key # NULL}

Copying ==
  pc = "copy" =>
    /\ idx <= capacity + 1
    /\ \A t \in DOMAIN dest : ~IsTombstone(dest[t])
    /\ \A s \in Copied(idx) : \E t \in DOMAIN dest : dest[t] = entries[s]
    /\ \A t \in DOMAIN dest :
         dest[t].key # NULL => \E s \in Copied(idx) : dest[t] = entries[s]
    /\ count = Cardinality(Copied(idx))

(* A hash_set in progress has its key, and after the growth has room for   *)
(* it next to one more empty slot.                                         *)
InProgress ==
  /\ pc # "idle" => arg.key \in Key
  /\ pc = "insert" => count + 1 <= capacity

IInv ==
  /\ TypeOK
  /\ KeysReachable
  /\ ProbesTerminate
  /\ CountIsUsed
  /\ Copying
  /\ InProgress

(* An array has an empty slot iff fewer slots than it has are in use.      *)
LEMMA UsedSlots ==
  ASSUME NEW cap \in Nat \cup {-1}, NEW es \in [0 .. cap -> Entry]
  PROVE  /\ IsFiniteSet(Used(es)) /\ Cardinality(Used(es)) \in Nat
         /\ cap >= 0 => (Used(es) # DOMAIN es <=> Cardinality(Used(es)) <= cap)
         /\ Cardinality(Used(es)) <= cap + 1
<1>1. IsFiniteSet(0 .. cap) /\ Cardinality(0 .. cap) = cap + 1
  BY FS_Interval
<1>2. Used(es) \in SUBSET (0 .. cap) /\ DOMAIN es = 0 .. cap
  BY DEF Used
<1>3. /\ IsFiniteSet(Used(es))
      /\ Cardinality(Used(es)) <= cap + 1
      /\ cap + 1 = Cardinality(Used(es)) => 0 .. cap = Used(es)
  BY <1>1, <1>2, FS_Subset
<1>4. Cardinality(Used(es)) \in Nat
  BY <1>3, FS_CardinalityType
<1>5. Used(es) = 0 .. cap => Cardinality(Used(es)) = cap + 1
  BY <1>1
<1> QED BY <1>2, <1>3, <1>4, <1>5

(* A larger array.                                                         *)
LEMMA Growth ==
  ASSUME NEW cap \in Nat \cup {-1}
  PROVE  LET new == GROW_CAPACITY(cap + 1) - 1 IN
         new \in Nat /\ new > cap /\ new >= 1
BY HashAssumption DEF GROW_CAPACITY, HashAssumption

(* The insertion that ends hash_set, in a table with two empty slots.      *)
LEMMA InsertStep ==
  ASSUME IInv, pc # "copy", capacity \in Nat, count + 1 <= capacity,
         NEW k \in Key, NEW v \in Value, Insert(k, v)
  PROVE  /\ entries' \in [0 .. capacity -> Entry]
         /\ count' \in Nat /\ capacity' = capacity
         /\ KeysReachableIn(entries', capacity)
         /\ count' = Cardinality(Used(entries'))
         /\ Used(entries') # DOMAIN entries'
<1> DEFINE s == find_entry(entries, capacity, k)
<1>1. /\ entries \in [0 .. capacity -> Entry] /\ count \in Nat
      /\ KeysReachableIn(entries, capacity)
      /\ count = Cardinality(Used(entries))
  BY DEF IInv, TypeOK, KeysReachable, CountIsUsed
<1>2. Used(entries) # DOMAIN entries /\ IsFiniteSet(Used(entries))
  BY <1>1, UsedSlots
<1>3. SlotFor(k, s, entries, capacity) /\ s \in 0 .. capacity
  BY <1>1, <1>2, FindEntry DEF SlotFor
<1>4. /\ entries' = [entries EXCEPT ![s] = [key |-> k, value |-> v]]
      /\ count' = IF IsEmpty(entries[s]) THEN count + 1 ELSE count
      /\ capacity' = capacity
  BY DEF Insert
<1> HIDE DEF s
<1>5. /\ entries' \in [0 .. capacity -> Entry]
      /\ KeysReachableIn(entries', capacity)
      /\ Used(entries') = Used(entries) \cup {s}
  <2>1. Stored(entries', entries, capacity, s, k, v)
    BY <1>1, <1>3, <1>4 DEF Stored, Entry
  <2>2. entries' \in [0 .. capacity -> Entry]
    BY <2>1 DEF Stored
  <2> QED BY <1>1, <1>3, <2>1, <2>2, StoreEntry
<1>6. s \in Used(entries) <=> ~IsEmpty(entries[s])
  BY <1>1, <1>3 DEF Used
<1>7. count' = Cardinality(Used(entries')) /\ count' \in Nat /\ count' <= capacity
  <2>1. Cardinality(Used(entries) \cup {s}) = IF s \in Used(entries) THEN count ELSE count + 1
    BY <1>1, <1>2, FS_AddElement
  <2>2. Cardinality(Used(entries')) = Cardinality(Used(entries) \cup {s})
    BY <1>5
  <2> QED BY <1>1, <1>4, <1>6, <2>1, <2>2
<1>8. Used(entries') # DOMAIN entries'
  <2> DEFINE es == entries'
  <2>1. es \in [0 .. capacity -> Entry] /\ Cardinality(Used(es)) <= capacity
    BY <1>5, <1>7
  <2> HIDE DEF es
  <2>2. Used(es) # DOMAIN es
    BY <2>1, UsedSlots
  <2> QED BY <2>2 DEF es
<1> QED BY <1>4, <1>5, <1>7, <1>8

(* hash_remove_white on the table, at an allocation or between two calls.  *)
LEMMA SweepStep ==
  ASSUME IInv, pc = "idle", NEW W \in SUBSET Key
  PROVE  /\ WithoutWhite(W) \in [0 .. capacity -> Entry]
         /\ KeysReachableIn(WithoutWhite(W), capacity)
         /\ Used(WithoutWhite(W)) = Used(entries)
         /\ LiveKeys(WithoutWhite(W)) = LiveKeys(entries) \ W
         /\ \A s \in 0 .. capacity :
              WithoutWhite(W)[s].key # NULL => WithoutWhite(W)[s] = entries[s]
<1> DEFINE gone == {find_entry(entries, capacity, k) : k \in W \cap LiveKeys(entries)}
<1>1. /\ entries \in [0 .. capacity -> Entry] /\ capacity \in Nat \cup {-1}
      /\ KeysReachableIn(entries, capacity)
      /\ capacity >= 0 => Used(entries) # DOMAIN entries
  BY DEF IInv, TypeOK, KeysReachable, ProbesTerminate
<1>2. ASSUME NEW k \in LiveKeys(entries)
      PROVE  /\ find_entry(entries, capacity, k) \in 0 .. capacity
             /\ entries[find_entry(entries, capacity, k)].key = k
             /\ k \in Key /\ k # NULL
  <2>1. k \in Key /\ capacity \in Nat /\ k # NULL
    BY <1>1, HashAssumption DEF LiveKeys, HashAssumption
  <2> QED BY <1>1, <2>1, FindEntry DEF SlotFor
<1>3. gone \in SUBSET (0 .. capacity) /\ \A g \in gone : entries[g].key # NULL
  BY <1>2
<1>4. KeysAt(entries, gone) = W \cap LiveKeys(entries)
  BY <1>2 DEF KeysAt
<1>5. WithoutWhite(W) = [s \in DOMAIN entries |-> IF s \in gone THEN Tombstone ELSE entries[s]]
  BY DEF WithoutWhite
<1> HIDE DEF gone
<1>6. \A s \in 0 .. capacity :
        WithoutWhite(W)[s].key # NULL => WithoutWhite(W)[s] = entries[s]
  BY <1>1, <1>5 DEF Tombstone
<1>7. /\ WithoutWhite(W) \in [0 .. capacity -> Entry]
      /\ KeysReachableIn(WithoutWhite(W), capacity)
      /\ Used(WithoutWhite(W)) = Used(entries)
      /\ LiveKeys(WithoutWhite(W)) = LiveKeys(entries) \ KeysAt(entries, gone)
  <2>1. Buried(WithoutWhite(W), entries, capacity, gone)
    BY <1>1, <1>3, <1>5, HashAssumption DEF Buried, Entry, Tombstone, HashAssumption
  <2>2. WithoutWhite(W) \in [0 .. capacity -> Entry] /\ capacity \in Int
    BY <1>1, <2>1 DEF Buried
  <2> QED BY <1>1, <2>1, <2>2, BuryEntries
<1> QED BY <1>4, <1>6, <1>7

(* The array that adjust_capacity clears.                                  *)
LEMMA ClearedArray ==
  ASSUME NEW cap \in Nat, NEW es, es = [s \in 0 .. cap |-> EmptyEntry]
  PROVE  /\ es \in [0 .. cap -> Entry]
         /\ Used(es) = {} /\ Used(es) # DOMAIN es /\ Cardinality(Used(es)) = 0
         /\ LiveKeys(es) = {}
         /\ KeysReachableIn(es, cap)
<1>1. es \in [0 .. cap -> Entry]
  BY HashAssumption DEF Entry, EmptyEntry, HashAssumption
<1>2. \A s \in 0 .. cap : es[s].key = NULL /\ IsEmpty(es[s])
  BY DEF EmptyEntry, IsEmpty
<1>3. Used(es) = {} /\ DOMAIN es = 0 .. cap /\ 0 \in 0 .. cap
  BY <1>2 DEF Used
<1>4. LiveKeys(es) = {}
  BY <1>2, <1>3, HashAssumption DEF LiveKeys, HashAssumption
<1>5. KeysReachableIn(es, cap)
  BY <1>2, <1>3, <1>4 DEF KeysReachableIn
<1> QED BY <1>1, <1>3, <1>4, <1>5, FS_EmptySet

(* The entries copied so far are among those in use.                       *)
LEMMA CopiedSlots ==
  ASSUME IInv, pc = "copy", NEW n \in Nat, n <= capacity + 1
  PROVE  /\ IsFiniteSet(Copied(n)) /\ Cardinality(Copied(n)) \in Nat
         /\ capacity >= 0 => Cardinality(Copied(n)) <= capacity
         /\ capacity = -1 => Cardinality(Copied(n)) = 0
<1>1. /\ entries \in [0 .. capacity -> Entry] /\ capacity \in Nat \cup {-1}
      /\ capacity >= 0 => Used(entries) # DOMAIN entries
  BY DEF IInv, TypeOK, ProbesTerminate
<1>2. Copied(n) \in SUBSET Used(entries)
  BY <1>1 DEF Copied, Used, IsEmpty
<1>3. IsFiniteSet(Used(entries)) /\ Cardinality(Used(entries)) \in Nat
  BY <1>1, UsedSlots
<1>4. /\ IsFiniteSet(Copied(n))
      /\ Cardinality(Copied(n)) <= Cardinality(Used(entries))
  BY <1>2, <1>3, FS_Subset
<1>5. Cardinality(Copied(n)) \in Nat
  BY <1>4, FS_CardinalityType
<1>6. capacity >= 0 => Cardinality(Used(entries)) <= capacity
  BY <1>1, UsedSlots
<1>7. Cardinality(Used(entries)) <= capacity + 1
  BY <1>1, UsedSlots
<1> QED BY <1>1, <1>3, <1>4, <1>5, <1>6, <1>7
-----------------------------------------------------------------------------
(* Each step preserves IInv.                                               *)

LEMMA hash_setStep ==
  ASSUME IInv, pc = "idle", NEW k \in Key, NEW v \in Value, NEW W \in SUBSET Key,
         hash_set(k, v, W), todo' \in PartialMap
  PROVE  IInv'
<1>1. CASE ~NeedsGrowth /\ Insert(k, v) /\ UNCHANGED <<dest, idx, arg, pc>>
  <2>1. capacity \in Nat /\ count + 1 <= capacity
    BY <1>1 DEF IInv, TypeOK, NeedsGrowth
  <2>2. /\ entries' \in [0 .. capacity -> Entry]
        /\ count' \in Nat /\ capacity' = capacity
        /\ KeysReachableIn(entries', capacity)
        /\ count' = Cardinality(Used(entries'))
        /\ Used(entries') # DOMAIN entries'
    BY <1>1, <2>1, InsertStep
  <2>3. TypeOK'
    BY <1>1, <2>1, <2>2 DEF IInv, TypeOK
  <2> QED
    BY <1>1, <2>2, <2>3
    DEF IInv, KeysReachable, ProbesTerminate, CountIsUsed, Copying, InProgress
<1>2. CASE StartGrowth(k, v, W)
  <2> DEFINE new == GROW_CAPACITY(capacity + 1) - 1
  <2>1. /\ entries' = WithoutWhite(W) /\ capacity' = capacity /\ count' = 0 /\ idx' = 0
        /\ dest' = [s \in 0 .. new |-> EmptyEntry]
        /\ arg' = [key |-> k, value |-> v] /\ pc' = "copy"
    BY <1>2 DEF StartGrowth
  <2>2. capacity \in Nat \cup {-1} /\ new \in Nat
    BY Growth DEF IInv, TypeOK
  <2>3. /\ entries' \in [0 .. capacity -> Entry]
        /\ KeysReachableIn(entries', capacity)
        /\ Used(entries') = Used(entries)
    BY <2>1, SweepStep
  <2>4. /\ dest' \in [0 .. new -> Entry]
        /\ Used(dest') # DOMAIN dest' /\ Cardinality(Used(dest')) = 0
        /\ KeysReachableIn(dest', new)
    BY <2>1, <2>2, ClearedArray
  <2>5. TypeOK'
    BY <2>1, <2>2, <2>3, <2>4 DEF IInv, TypeOK, Entry
  <2>6. KeysReachable'
    BY <2>1, <2>3, <2>4 DEF KeysReachable
  <2>7. ProbesTerminate'
    <3>1. DOMAIN entries' = 0 .. capacity /\ DOMAIN entries = 0 .. capacity
      BY <2>3 DEF IInv, TypeOK
    <3> QED BY <2>1, <2>3, <2>4, <3>1 DEF IInv, ProbesTerminate
  <2>8. CountIsUsed'
    BY <2>1, <2>4 DEF CountIsUsed
  <2>9. Copying'
    <3>1. Copied(idx)' = {}
      BY <2>1 DEF Copied
    <3>2. \A t \in DOMAIN dest' : dest'[t].key = NULL /\ ~IsTombstone(dest'[t])
      BY <2>1 DEF EmptyEntry, IsTombstone
    <3>3. count' = Cardinality(Copied(idx)')
      BY <2>1, <3>1, FS_EmptySet
    <3> QED BY <2>1, <2>2, <3>1, <3>2, <3>3 DEF Copying
  <2>10. InProgress'
    BY <2>1 DEF InProgress
  <2> QED BY <2>5, <2>6, <2>7, <2>8, <2>9, <2>10 DEF IInv
<1> QED BY <1>1, <1>2 DEF hash_set

LEMMA CopyEntryStep ==
  ASSUME IInv, CopyEntry
  PROVE  IInv'
<1> DEFINE new == GROW_CAPACITY(capacity + 1) - 1
           e == entries[idx]
           s == find_entry(dest, new, e.key)
<1>1. /\ pc = "copy" /\ idx <= capacity /\ idx' = idx + 1
      /\ entries' = entries /\ capacity' = capacity /\ arg' = arg /\ todo' = todo /\ pc' = pc
      /\ IF e.key = NULL THEN dest' = dest /\ count' = count
         ELSE dest' = [dest EXCEPT ![s] = e] /\ count' = count + 1
  BY DEF CopyEntry
<1>2. /\ entries \in [0 .. capacity -> Entry] /\ KeysReachableIn(entries, capacity)
      /\ dest \in [0 .. new -> Entry] /\ KeysReachableIn(dest, new)
      /\ capacity \in Nat /\ idx \in Nat /\ count \in Nat /\ idx + 1 \in Nat
      /\ count = Cardinality(Used(dest)) /\ Used(dest) # DOMAIN dest
      /\ count = Cardinality(Copied(idx))
  BY <1>1 DEF IInv, TypeOK, KeysReachable, CountIsUsed, ProbesTerminate, Copying
<1>3. new \in Nat /\ new > capacity
  BY <1>2, Growth
<1>4. e \in Entry /\ idx \in 0 .. capacity
  BY <1>1, <1>2
<1>5. /\ \A t \in 0 .. new : ~IsTombstone(dest[t])
      /\ \A i \in Copied(idx) : \E t \in 0 .. new : dest[t] = entries[i]
      /\ \A t \in 0 .. new : dest[t].key # NULL => \E i \in Copied(idx) : dest[t] = entries[i]
  BY <1>1, <1>2 DEF IInv, Copying
<1>6. /\ IsFiniteSet(Copied(idx)) /\ Cardinality(Copied(idx + 1)) <= capacity
  BY <1>1, <1>2, CopiedSlots
<1> HIDE DEF new
<1>7. CASE e.key = NULL
  <2>1. Copied(idx + 1) = Copied(idx)
    BY <1>2, <1>7 DEF Copied
  <2>2. Copied(idx)' = Copied(idx + 1)
    BY <1>1 DEF Copied
  <2>3. TypeOK'
    BY <1>1, <1>2, <1>7 DEF IInv, TypeOK
  <2>4. Copying'
    BY <1>1, <1>2, <1>5, <1>7, <2>1, <2>2 DEF Copying
  <2> QED
    BY <1>1, <1>7, <2>3, <2>4
    DEF IInv, KeysReachable, ProbesTerminate, CountIsUsed, InProgress
<1>8. CASE e.key # NULL
  <2>1. /\ e.key \in Key /\ e.value \in Value
        /\ e = [key |-> e.key, value |-> e.value]
    BY <1>4, <1>8 DEF Entry
  <2>2. e.key \notin LiveKeys(dest)
    <3>1. SUFFICES ASSUME NEW t \in 0 .. new, dest[t].key = e.key PROVE FALSE
      BY <1>2 DEF LiveKeys
    <3>2. PICK i \in Copied(idx) : dest[t] = entries[i]
      BY <1>5, <1>8, <3>1
    <3>3. i \in 0 .. capacity /\ i < idx /\ entries[i].key = entries[idx].key
      BY <1>1, <1>2, <3>1, <3>2 DEF Copied
    <3> QED BY <1>2, <1>4, <1>8, <3>3 DEF KeysReachableIn
  <2>3. SlotFor(e.key, s, dest, new)
    BY <1>2, <1>3, <2>1, FindEntry
  <2> HIDE DEF s
  <2>4. s \in 0 .. new /\ dest[s].key = NULL
    BY <2>2, <2>3 DEF SlotFor
  <2>5. dest' = [dest EXCEPT ![s] = e] /\ count' = count + 1
    BY <1>1, <1>8
  <2>6. Stored(dest', dest, new, s, e.key, e.value)
    BY <1>2, <1>4, <2>1, <2>4, <2>5 DEF Stored
  <2>7. dest' \in [0 .. new -> Entry]
    BY <2>6 DEF Stored
  <2>8. KeysReachableIn(dest', new) /\ Used(dest') = Used(dest) \cup {s}
    BY <1>2, <1>3, <2>1, <2>3, <2>6, <2>7, StoreEntry
  <2>9. s \notin Used(dest)
    BY <1>5, <2>4 DEF Used, IsEmpty, IsTombstone
  <2>10. count' = Cardinality(Used(dest'))
    <3>1. IsFiniteSet(Used(dest))
      BY <1>2, <1>3, UsedSlots
    <3>2. Cardinality(Used(dest) \cup {s}) = count + 1
      BY <1>2, <2>9, <3>1, FS_AddElement
    <3> QED BY <2>5, <2>8, <3>2
  <2>11. Copied(idx + 1) = Copied(idx) \cup {idx} /\ idx \notin Copied(idx)
    BY <1>2, <1>8 DEF Copied
  <2>12. count' = Cardinality(Copied(idx + 1))
    BY <1>2, <1>6, <2>5, <2>11, FS_AddElement
  <2>13. Copied(idx)' = Copied(idx + 1)
    BY <1>1 DEF Copied
  <2>14. Used(dest') # DOMAIN dest'
    <3> DEFINE es == dest'
    <3>1. es \in [0 .. new -> Entry] /\ Cardinality(Used(es)) <= new
      BY <1>2, <1>3, <1>6, <2>7, <2>10, <2>12
    <3> HIDE DEF es
    <3>2. Used(es) # DOMAIN es
      BY <1>3, <3>1, UsedSlots
    <3> QED BY <3>2 DEF es
  <2>15. TypeOK'
    BY <1>1, <1>2, <2>5, <2>7 DEF IInv, TypeOK, new
  <2>16. Copying'
    <3>1. \A t \in 0 .. new : dest'[t] = IF t = s THEN e ELSE dest[t]
      BY <1>2, <2>4, <2>5
    <3>2. \A t \in DOMAIN dest' : ~IsTombstone(dest'[t])
      BY <1>5, <1>8, <2>7, <3>1 DEF IsTombstone
    <3>3. ASSUME NEW i \in Copied(idx + 1) PROVE \E t \in DOMAIN dest' : dest'[t] = entries[i]
      <4>1. CASE i = idx
        BY <2>4, <2>7, <3>1, <4>1
      <4>2. CASE i # idx
        <5>1. PICK t \in 0 .. new : dest[t] = entries[i] /\ entries[i].key # NULL
          BY <1>5, <2>11, <4>2 DEF Copied
        <5> QED BY <2>4, <2>7, <3>1, <5>1
      <4> QED BY <4>1, <4>2
    <3>4. ASSUME NEW t \in DOMAIN dest', dest'[t].key # NULL
          PROVE  \E i \in Copied(idx + 1) : dest'[t] = entries[i]
      <4>1. CASE t = s
        BY <2>4, <2>11, <3>1, <4>1
      <4>2. CASE t # s
        BY <1>5, <2>7, <2>11, <3>1, <3>4, <4>2
      <4> QED BY <4>1, <4>2
    <3> QED BY <1>1, <1>2, <2>12, <2>13, <3>2, <3>3, <3>4 DEF Copying
  <2> QED
    BY <1>1, <2>8, <2>10, <2>14, <2>15, <2>16
    DEF IInv, KeysReachable, ProbesTerminate, CountIsUsed, InProgress, new
<1> QED BY <1>7, <1>8

LEMMA SwapArraysStep ==
  ASSUME IInv, SwapArrays
  PROVE  IInv'
<1> DEFINE new == GROW_CAPACITY(capacity + 1) - 1
<1>1. /\ pc = "copy" /\ idx > capacity
      /\ entries' = dest /\ capacity' = new /\ dest' = NoEntries /\ idx' = 0 /\ pc' = "insert"
      /\ count' = count /\ arg' = arg /\ todo' = todo
  BY DEF SwapArrays
<1>2. /\ capacity \in Nat \cup {-1} /\ idx \in Nat /\ idx <= capacity + 1 /\ count \in Nat
      /\ dest \in [0 .. new -> Entry] /\ KeysReachableIn(dest, new)
      /\ count = Cardinality(Used(dest)) /\ Used(dest) # DOMAIN dest
      /\ count = Cardinality(Copied(idx))
  BY <1>1 DEF IInv, TypeOK, KeysReachable, CountIsUsed, ProbesTerminate, Copying
<1>3. new \in Nat /\ new > capacity /\ new >= 1
  BY <1>2, Growth
<1>4. count + 1 <= new
  BY <1>1, <1>2, <1>3, CopiedSlots
<1> HIDE DEF new
<1>5. TypeOK'
  BY <1>1, <1>2, <1>3 DEF IInv, TypeOK
<1> QED
  BY <1>1, <1>2, <1>4, <1>5
  DEF IInv, KeysReachable, ProbesTerminate, CountIsUsed, InProgress, Copying

LEMMA FinishSetStep ==
  ASSUME IInv, FinishSet
  PROVE  IInv'
<1>1. /\ pc = "insert" /\ pc' = "idle" /\ arg' = NoArg
      /\ dest' = dest /\ idx' = idx /\ todo' = todo
      /\ Insert(arg.key, arg.value)
  BY DEF FinishSet
<1>2. /\ capacity \in Nat /\ count + 1 <= capacity
      /\ arg.key \in Key /\ arg.value \in Value
  BY <1>1 DEF IInv, TypeOK, InProgress, Entry
<1>3. /\ entries' \in [0 .. capacity -> Entry]
      /\ count' \in Nat /\ capacity' = capacity
      /\ KeysReachableIn(entries', capacity)
      /\ count' = Cardinality(Used(entries'))
      /\ Used(entries') # DOMAIN entries'
  BY <1>1, <1>2, InsertStep
<1>4. TypeOK'
  BY <1>1, <1>2, <1>3, HashAssumption DEF IInv, TypeOK, NoArg, Entry, HashAssumption
<1> QED
  BY <1>1, <1>3, <1>4
  DEF IInv, KeysReachable, ProbesTerminate, CountIsUsed, InProgress, Copying

(* A table that did not change its slots in use, between two calls.        *)
LEMMA RewriteStep ==
  ASSUME IInv, pc = "idle", entries' \in [0 .. capacity -> Entry],
         KeysReachableIn(entries', capacity), Used(entries') = Used(entries),
         UNCHANGED <<capacity, count, dest, idx, arg, todo, pc>>
  PROVE  IInv'
<1>1. TypeOK'
  BY DEF IInv, TypeOK
<1>2. DOMAIN entries' = 0 .. capacity /\ DOMAIN entries = 0 .. capacity
  BY DEF IInv, TypeOK
<1> QED
  BY <1>1, <1>2
  DEF IInv, KeysReachable, ProbesTerminate, CountIsUsed, InProgress, Copying

LEMMA DeleteStep ==
  ASSUME IInv, NEW k \in Key, Delete(k)
  PROVE  IInv'
<1> DEFINE s == find_entry(entries, capacity, k)
<1>1. pc = "idle" /\ UNCHANGED <<capacity, count, dest, idx, arg, todo, pc>>
  BY DEF Delete
<1>2. CASE entries' = entries
  BY <1>1, <1>2, RewriteStep DEF IInv, TypeOK, KeysReachable
<1>3. CASE entries' = [entries EXCEPT ![s] = Tombstone] /\ count # 0 /\ entries[s].key # NULL
  <2>1. /\ entries \in [0 .. capacity -> Entry] /\ KeysReachableIn(entries, capacity)
        /\ capacity \in Nat \cup {-1} /\ count = Cardinality(Used(entries))
        /\ capacity >= 0 => Used(entries) # DOMAIN entries
    BY <1>1 DEF IInv, TypeOK, KeysReachable, CountIsUsed, ProbesTerminate
  <2>2. capacity \in Nat
    BY <1>3, <2>1, UsedSlots
  <2>3. s \in 0 .. capacity
    BY <2>1, <2>2, FindEntry DEF SlotFor
  <2> HIDE DEF s
  <2>4. Buried(entries', entries, capacity, {s})
    BY <1>3, <2>1, <2>3, HashAssumption DEF Buried, Entry, Tombstone, HashAssumption
  <2>5. entries' \in [0 .. capacity -> Entry]
    BY <2>4 DEF Buried
  <2>6. KeysReachableIn(entries', capacity) /\ Used(entries') = Used(entries)
    BY <2>1, <2>2, <2>4, BuryEntries
  <2> QED BY <1>1, <2>5, <2>6, RewriteStep
<1> QED BY <1>2, <1>3 DEF Delete

LEMMA RemoveWhiteStep ==
  ASSUME IInv, NEW W \in SUBSET Key, RemoveWhite(W)
  PROVE  IInv'
<1>1. /\ pc = "idle" /\ entries' = WithoutWhite(W)
      /\ UNCHANGED <<capacity, count, dest, idx, arg, todo, pc>>
  BY DEF RemoveWhite
<1> QED BY <1>1, SweepStep, RewriteStep

LEMMA AddAllStep ==
  ASSUME IInv, NEW m \in Sources, AddAll(m)
  PROVE  IInv'
BY DEF AddAll, Sources, IInv, TypeOK, table, KeysReachable, ProbesTerminate, CountIsUsed,
       InProgress, Copying

LEMMA AddNextStep ==
  ASSUME IInv, AddNext
  PROVE  IInv'
<1>1. PICK k \in DOMAIN todo :
        /\ hash_set(k, todo[k], {})
        /\ todo' = [x \in DOMAIN todo \ {k} |-> todo[x]]
  BY DEF AddNext
<1>2. PICK S \in SUBSET Key : todo \in [S -> Value]
  BY DEF IInv, TypeOK, PartialMap
<1>3. k \in Key /\ todo[k] \in Value
  BY <1>2
<1>4. todo' \in [S \ {k} -> Value]
  BY <1>1, <1>2
<1>5. todo' \in PartialMap
  BY <1>4 DEF PartialMap
<1> QED BY <1>1, <1>3, <1>5, hash_setStep DEF AddNext

LEMMA FreeStep ==
  ASSUME IInv, Free
  PROVE  IInv'
<1>1. /\ entries' = NoEntries /\ capacity' = -1 /\ count' = 0 /\ pc = "idle"
      /\ UNCHANGED <<dest, idx, arg, todo, pc>>
  BY DEF Free
<1>2. Used(NoEntries) = {} /\ LiveKeys(NoEntries) = {} /\ NoEntries \in [0 .. -1 -> Entry]
  BY DEF Used, LiveKeys, NoEntries
<1>3. KeysReachableIn(NoEntries, -1)
  BY <1>2 DEF KeysReachableIn, NoEntries
<1>4. TypeOK'
  BY <1>1, <1>2 DEF IInv, TypeOK
<1> QED
  BY <1>1, <1>2, <1>3, <1>4, FS_EmptySet
  DEF IInv, KeysReachable, ProbesTerminate, CountIsUsed, InProgress, Copying

LEMMA InitInv == Init => IInv
<1> SUFFICES ASSUME Init PROVE IInv
  OBVIOUS
<1>1. Used(NoEntries) = {} /\ LiveKeys(NoEntries) = {} /\ NoEntries \in [0 .. -1 -> Entry]
  BY DEF Used, LiveKeys, NoEntries
<1>2. KeysReachableIn(NoEntries, -1)
  BY <1>1 DEF KeysReachableIn, NoEntries
<1>3. NoTodo \in [{} -> Value]
  BY DEF NoTodo
<1>4. NoTodo \in PartialMap
  BY <1>3 DEF PartialMap
<1>5. NoArg \in Entry
  BY HashAssumption DEF NoArg, Entry, HashAssumption
<1>6. TypeOK
  BY <1>1, <1>4, <1>5 DEF Init, TypeOK
<1> QED
  BY <1>1, <1>2, <1>6, FS_EmptySet
  DEF Init, IInv, KeysReachable, ProbesTerminate, CountIsUsed, InProgress, Copying

LEMMA NextInv == IInv /\ [Next]_vars => IInv'
<1> SUFFICES ASSUME IInv, [Next]_vars PROVE IInv'
  OBVIOUS
<1>1. ASSUME NEW k \in Key, NEW v \in Value, Set(k, v) PROVE IInv'
  <2>1. PICK W \in SUBSET (Key \ {k}) : hash_set(k, v, W)
    BY <1>1 DEF Set
  <2>2. todo' \in PartialMap /\ pc = "idle" /\ W \in SUBSET Key
    BY <1>1 DEF Set, IInv, TypeOK
  <2> QED BY <2>1, <2>2, hash_setStep
<1>2. ASSUME NEW k \in Key, Get(k) \/ FindString(k) PROVE IInv'
  <2>1. UNCHANGED <<table, dest, idx, arg, todo, pc>>
    BY <1>2 DEF Get, FindString
  <2> QED
    BY <2>1 DEF table, IInv, TypeOK, KeysReachable, ProbesTerminate, CountIsUsed,
                InProgress, Copying, Copied
<1>3. ASSUME NEW k \in Key, Delete(k) PROVE IInv'
  BY <1>3, DeleteStep
<1>4. ASSUME NEW W \in SUBSET Key, RemoveWhite(W) PROVE IInv'
  BY <1>4, RemoveWhiteStep
<1>5. ASSUME NEW m \in Sources, AddAll(m) PROVE IInv'
  BY <1>5, AddAllStep
<1>6. CASE Free
  BY <1>6, FreeStep
<1>7. CASE CopyEntry
  BY <1>7, CopyEntryStep
<1>8. CASE SwapArrays
  BY <1>8, SwapArraysStep
<1>9. CASE FinishSet
  BY <1>9, FinishSetStep
<1>10. CASE AddNext
  BY <1>10, AddNextStep
<1>11. CASE UNCHANGED vars
  BY <1>11 DEF vars, IInv, TypeOK, KeysReachable, ProbesTerminate, CountIsUsed,
               InProgress, Copying, Copied
<1> QED
  BY <1>1, <1>2, <1>3, <1>4, <1>5, <1>6, <1>7, <1>8, <1>9, <1>10, <1>11
  DEF Next, Continue

(* The inductive invariant of the hash table.                              *)
THEOREM Invariance == Spec => []IInv
BY InitInv, NextInv, PTL DEF Spec

(* The fields of valp_hash keep their types: the arrays always have the    *)
(* slots that the mask allows indices for.                                 *)
THEOREM TypeCorrect == Spec => []TypeOK
<1>1. IInv => TypeOK
  BY DEF IInv
<1> QED BY <1>1, Invariance, PTL

(* A key that was set and not deleted is found by every later probe, in    *)
(* tables of every size, for every hash function.                          *)
THEOREM EveryKeyReachable == Spec => []KeysReachable
<1>1. IInv => KeysReachable
  BY DEF IInv
<1> QED BY <1>1, Invariance, PTL

(* The loop of find_entry always meets an empty slot.                      *)
THEOREM EveryProbeTerminates == Spec => []ProbesTerminate
<1>1. IInv => ProbesTerminate
  BY DEF IInv
<1> QED BY <1>1, Invariance, PTL

(* count is the number of slots in use, tombstones included.               *)
THEOREM CountExact == Spec => []CountIsUsed
<1>1. IInv => CountIsUsed
  BY DEF IInv
<1> QED BY <1>1, Invariance, PTL
-----------------------------------------------------------------------------
(* The table implements the map of module Dict.                            *)

ContentsOf(es) == [k \in LiveKeys(es) |-> es[SlotOf(es, k)].value]

(* Keys being unique, the slot of a key is where the key is.               *)
LEMMA SlotOfKey ==
  ASSUME NEW cap \in Int, NEW es \in [0 .. cap -> Entry], KeysReachableIn(es, cap),
         NEW s \in 0 .. cap, es[s].key # NULL
  PROVE  /\ es[s].key \in LiveKeys(es)
         /\ ContentsOf(es)[es[s].key] = es[s].value
<1>1. es[s].key \in Key /\ DOMAIN es = 0 .. cap
  BY DEF Entry
<1>2. es[s].key \in LiveKeys(es)
  BY <1>1 DEF LiveKeys
<1>3. \A t \in 0 .. cap : es[t].key = es[s].key => t = s
  BY <1>1 DEF KeysReachableIn
<1>4. SlotOf(es, es[s].key) = s
  BY <1>1, <1>3 DEF SlotOf
<1> QED BY <1>2, <1>4 DEF ContentsOf

LEMMA ContentsDomain ==
  ASSUME NEW es
  PROVE  /\ DOMAIN ContentsOf(es) = LiveKeys(es)
         /\ ContentsOf(es) = [k \in LiveKeys(es) |-> ContentsOf(es)[k]]
BY DEF ContentsOf

(* A stored entry overrides the map at its key.                            *)
LEMMA ContentsStored ==
  ASSUME NEW cap \in Nat, NEW es \in [0 .. cap -> Entry], NEW k \in Key, NEW v \in Value,
         KeysReachableIn(es, cap),
         NEW s, SlotFor(k, s, es, cap), NEW ns, Stored(ns, es, cap, s, k, v)
  PROVE  ContentsOf(ns) = D!Override(ContentsOf(es), k, v)
<1>1. /\ ns \in [0 .. cap -> Entry] /\ s \in 0 .. cap
      /\ \A t \in 0 .. cap : ns[t] = IF t = s THEN [key |-> k, value |-> v] ELSE es[t]
      /\ es[s].key \in {k, NULL}
  BY DEF Stored, SlotFor
<1>2. KeysReachableIn(ns, cap) /\ LiveKeys(ns) = LiveKeys(es) \cup {k}
  BY <1>1, StoreEntry
<1>3. k # NULL
  BY HashAssumption DEF HashAssumption
<1>4. ContentsOf(ns)[k] = v
  BY <1>1, <1>2, <1>3, SlotOfKey
<1>5. ASSUME NEW l \in LiveKeys(es), l # k
      PROVE  ContentsOf(ns)[l] = ContentsOf(es)[l]
  <2>1. PICK t \in 0 .. cap : es[t].key = l
    BY DEF LiveKeys
  <2>2. l # NULL
    BY HashAssumption DEF LiveKeys, HashAssumption
  <2>3. ns[t] = es[t]
    BY <1>1, <1>5, <2>1, <2>2
  <2>4. ContentsOf(ns)[l] = ns[t].value
    BY <1>1, <1>2, <2>1, <2>2, <2>3, SlotOfKey
  <2>5. ContentsOf(es)[l] = es[t].value
    BY <2>1, <2>2, SlotOfKey
  <2> QED BY <2>3, <2>4, <2>5
<1>6. D!Override(ContentsOf(es), k, v)
        = [x \in LiveKeys(es) \cup {k} |-> IF x = k THEN v ELSE ContentsOf(es)[x]]
  BY ContentsDomain DEF D!Override
<1>7. ContentsOf(ns) = [x \in LiveKeys(es) \cup {k} |-> ContentsOf(ns)[x]]
  BY <1>2, ContentsDomain
<1> QED BY <1>4, <1>5, <1>6, <1>7

(* A table that keeps some of the entries of another and has none of its   *)
(* own holds the map without the other keys.                               *)
LEMMA ContentsKept ==
  ASSUME NEW cap \in Int, NEW es \in [0 .. cap -> Entry], KeysReachableIn(es, cap),
         NEW cap2 \in Int, NEW ns \in [0 .. cap2 -> Entry], KeysReachableIn(ns, cap2),
         NEW W, LiveKeys(ns) = LiveKeys(es) \ W,
         \A t \in 0 .. cap2 : ns[t].key # NULL => \E s \in 0 .. cap : ns[t] = es[s]
  PROVE  ContentsOf(ns) = D!Without(ContentsOf(es), W)
<1>1. ASSUME NEW l \in LiveKeys(ns) PROVE ContentsOf(ns)[l] = ContentsOf(es)[l]
  <2>1. PICK t \in 0 .. cap2 : ns[t].key = l
    BY DEF LiveKeys
  <2>2. l # NULL
    BY HashAssumption DEF LiveKeys, HashAssumption
  <2>3. PICK s \in 0 .. cap : ns[t] = es[s]
    BY <2>1, <2>2
  <2>4. ContentsOf(ns)[l] = ns[t].value
    BY <2>1, <2>2, SlotOfKey
  <2>5. ContentsOf(es)[l] = es[s].value
    BY <2>1, <2>2, <2>3, SlotOfKey
  <2> QED BY <2>3, <2>4, <2>5
<1>2. D!Without(ContentsOf(es), W) = [x \in LiveKeys(es) \ W |-> ContentsOf(es)[x]]
  BY ContentsDomain DEF D!Without
<1>3. ContentsOf(ns) = [x \in LiveKeys(es) \ W |-> ContentsOf(ns)[x]]
  BY ContentsDomain
<1> QED BY <1>1, <1>2, <1>3

LEMMA ContentsAre == Contents = ContentsOf(entries) /\ Contents' = ContentsOf(entries')
BY DEF Contents, ContentsOf

(* The tail of hash_set puts the pair into the map and returns whether the *)
(* key is new.                                                             *)
LEMMA InsertPuts ==
  ASSUME IInv, pc # "copy", capacity \in Nat, count + 1 <= capacity,
         NEW k \in Key, NEW v \in Value, Insert(k, v)
  PROVE  D!Put(k, v)
<1> DEFINE s == find_entry(entries, capacity, k)
<1>1. /\ entries \in [0 .. capacity -> Entry] /\ KeysReachableIn(entries, capacity)
      /\ count = Cardinality(Used(entries))
  BY DEF IInv, TypeOK, KeysReachable, CountIsUsed
<1>2. Used(entries) # DOMAIN entries
  BY <1>1, UsedSlots
<1>3. SlotFor(k, s, entries, capacity)
  BY <1>1, <1>2, FindEntry
<1>4. /\ entries' = [entries EXCEPT ![s] = [key |-> k, value |-> v]]
      /\ out' = Returned(entries[s].key = NULL, NoValue)
  BY DEF Insert
<1> HIDE DEF s
<1>5. Stored(entries', entries, capacity, s, k, v)
  BY <1>1, <1>3, <1>4 DEF Stored, SlotFor, Entry
<1>6. ContentsOf(entries') = D!Override(ContentsOf(entries), k, v)
  BY <1>1, <1>3, <1>5, ContentsStored
<1>7. (entries[s].key = NULL) <=> (k \notin LiveKeys(entries))
  BY <1>3, HashAssumption DEF SlotFor, HashAssumption
<1>8. out' = D!Returned(k \notin DOMAIN Contents, D!NoValue)
  BY <1>4, <1>7, ContentsAre, ContentsDomain
  DEF Returned, NoValue, D!Returned, D!NoValue
<1> QED BY <1>6, <1>8, ContentsAre DEF D!Put

(* hash_remove_white forgets the white keys.                               *)
LEMMA SweepForgets ==
  ASSUME IInv, pc = "idle", NEW W \in SUBSET Key, entries' = WithoutWhite(W), out' = out
  PROVE  D!Forget(W)
<1>1. /\ entries \in [0 .. capacity -> Entry] /\ KeysReachableIn(entries, capacity)
      /\ capacity \in Int
  BY DEF IInv, TypeOK, KeysReachable
<1>2. /\ entries' \in [0 .. capacity -> Entry] /\ KeysReachableIn(entries', capacity)
      /\ LiveKeys(entries') = LiveKeys(entries) \ W
      /\ \A t \in 0 .. capacity :
           entries'[t].key # NULL => \E s \in 0 .. capacity : entries'[t] = entries[s]
  BY SweepStep
<1>3. ContentsOf(entries') = D!Without(ContentsOf(entries), W)
  BY <1>1, <1>2, ContentsKept
<1> QED BY <1>3, ContentsAre DEF D!Forget

(* hash_set puts, or first forgets what the collector sweeps.              *)
LEMMA hash_setImplements ==
  ASSUME IInv, pc = "idle", NEW k \in Key, NEW v \in Value, NEW W \in SUBSET Key,
         hash_set(k, v, W)
  PROVE  D!Next
<1>1. CASE ~NeedsGrowth /\ Insert(k, v)
  <2>1. capacity \in Nat /\ count + 1 <= capacity
    BY <1>1 DEF IInv, TypeOK, NeedsGrowth
  <2>2. D!Put(k, v)
    BY <1>1, <2>1, InsertPuts
  <2> QED BY <2>2 DEF D!Next
<1>2. CASE StartGrowth(k, v, W)
  <2>1. D!Forget(W)
    BY <1>2, SweepForgets DEF StartGrowth
  <2> QED BY <2>1 DEF D!Next
<1> QED BY <1>1, <1>2 DEF hash_set

(* The arrays are swapped when they hold the same entries.                 *)
LEMMA SwapKeeps ==
  ASSUME IInv, SwapArrays
  PROVE  UNCHANGED D!vars
<1> DEFINE new == GROW_CAPACITY(capacity + 1) - 1
<1>1. /\ pc = "copy" /\ idx > capacity /\ entries' = dest /\ out' = out
  BY DEF SwapArrays
<1>2. /\ capacity \in Nat \cup {-1} /\ idx \in Nat /\ idx <= capacity + 1
      /\ entries \in [0 .. capacity -> Entry] /\ KeysReachableIn(entries, capacity)
      /\ dest \in [0 .. new -> Entry] /\ KeysReachableIn(dest, new)
      /\ \A s \in Copied(idx) : \E t \in 0 .. new : dest[t] = entries[s]
      /\ \A t \in 0 .. new : dest[t].key # NULL => \E s \in Copied(idx) : dest[t] = entries[s]
  BY <1>1 DEF IInv, TypeOK, KeysReachable, Copying
<1>3. new \in Int
  BY <1>2, Growth
<1> HIDE DEF new
<1>4. /\ Copied(idx) \subseteq 0 .. capacity
      /\ \A s \in 0 .. capacity : entries[s].key # NULL => s \in Copied(idx)
  BY <1>1, <1>2 DEF Copied
<1>5. DOMAIN dest = 0 .. new /\ DOMAIN entries = 0 .. capacity /\ NULL \notin Key
  BY <1>2, HashAssumption DEF HashAssumption
<1>6. LiveKeys(dest) = LiveKeys(entries) \ {}
  <2>1. ASSUME NEW k \in LiveKeys(dest) PROVE k \in LiveKeys(entries)
    <3>1. PICK t \in 0 .. new : k \in Key /\ dest[t].key = k
      BY <1>5 DEF LiveKeys
    <3>2. PICK s \in Copied(idx) : dest[t] = entries[s]
      BY <1>2, <1>5, <3>1
    <3> QED BY <1>4, <1>5, <3>1, <3>2 DEF LiveKeys
  <2>2. ASSUME NEW k \in LiveKeys(entries) PROVE k \in LiveKeys(dest)
    <3>1. PICK s \in 0 .. capacity : k \in Key /\ entries[s].key = k
      BY <1>5 DEF LiveKeys
    <3>2. PICK t \in 0 .. new : dest[t] = entries[s]
      BY <1>2, <1>4, <1>5, <3>1
    <3> QED BY <1>5, <3>1, <3>2 DEF LiveKeys
  <2> QED BY <2>1, <2>2
<1>7. ContentsOf(dest) = D!Without(ContentsOf(entries), {})
  BY <1>2, <1>3, <1>4, <1>6, ContentsKept
<1>8. ContentsOf(dest) = ContentsOf(entries)
  BY <1>7, ContentsDomain DEF D!Without
<1> QED BY <1>1, <1>8, ContentsAre DEF D!vars

LEMMA FoundImplements ==
  ASSUME IInv, pc = "idle", NEW k \in Key,
         NEW e, e = entries[find_entry(entries, capacity, k)]
  PROVE  /\ (count = 0 \/ e.key = NULL) <=> k \notin LiveKeys(entries)
         /\ k \in LiveKeys(entries) => e.value = ContentsOf(entries)[k]
<1>1. /\ entries \in [0 .. capacity -> Entry] /\ KeysReachableIn(entries, capacity)
      /\ capacity \in Nat \cup {-1} /\ count = Cardinality(Used(entries))
      /\ capacity >= 0 => Used(entries) # DOMAIN entries
      /\ NULL \notin Key
  BY HashAssumption
  DEF IInv, TypeOK, KeysReachable, CountIsUsed, ProbesTerminate, HashAssumption
<1>2. CASE count = 0
  <2>1. Used(entries) = {}
    BY <1>1, <1>2, UsedSlots, FS_EmptySet
  <2>2. k \notin LiveKeys(entries)
    BY <1>1, <2>1 DEF LiveKeys, Used, IsEmpty
  <2> QED BY <1>2, <2>2
<1>3. CASE count # 0
  <2>1. capacity \in Nat
    BY <1>1, <1>3, UsedSlots
  <2>2. SlotFor(k, find_entry(entries, capacity, k), entries, capacity)
    BY <1>1, <2>1, FindEntry
  <2> QED BY <1>1, <1>3, <2>2, SlotOfKey DEF SlotFor
<1> QED BY <1>2, <1>3

LEMMA DeleteImplements ==
  ASSUME IInv, NEW k \in Key, Delete(k)
  PROVE  D!Delete(k)
<1> DEFINE s == find_entry(entries, capacity, k)
<1>1. /\ pc = "idle"
      /\ IF count = 0 \/ entries[s].key = NULL
         THEN out' = Returned(FALSE, NoValue) /\ entries' = entries
         ELSE out' = Returned(TRUE, NoValue) /\ entries' = [entries EXCEPT ![s] = Tombstone]
  BY DEF Delete
<1>2. (count = 0 \/ entries[s].key = NULL) <=> k \notin LiveKeys(entries)
  BY <1>1, FoundImplements
<1>3. out' = D!Returned(k \in DOMAIN Contents, D!NoValue)
  <2>1. (k \in DOMAIN Contents) = (k \in LiveKeys(entries))
    BY ContentsAre, ContentsDomain
  <2>2. CASE k \in LiveKeys(entries)
    <3>1. out' = Returned(TRUE, NoValue) /\ (k \in DOMAIN Contents) = TRUE
      BY <1>1, <1>2, <2>1, <2>2
    <3> QED BY <3>1 DEF Returned, NoValue, D!Returned, D!NoValue
  <2>3. CASE k \notin LiveKeys(entries)
    <3>1. out' = Returned(FALSE, NoValue)
      BY <1>1, <1>2, <2>3
    <3>2. (k \in DOMAIN Contents) = FALSE
      BY <2>1, <2>3
    <3> QED BY <3>1, <3>2 DEF Returned, NoValue, D!Returned, D!NoValue
  <2> QED BY <2>2, <2>3
<1>4. CASE k \notin LiveKeys(entries)
  <2>1. entries' = entries
    BY <1>1, <1>2, <1>4
  <2>2. D!Without(ContentsOf(entries), {k}) = ContentsOf(entries)
    BY <1>4, ContentsDomain DEF D!Without
  <2> QED BY <1>3, <2>1, <2>2, ContentsAre DEF D!Delete
<1>5. CASE k \in LiveKeys(entries)
  <2>1. /\ entries \in [0 .. capacity -> Entry] /\ KeysReachableIn(entries, capacity)
        /\ capacity \in Nat \cup {-1}
        /\ capacity >= 0 => Used(entries) # DOMAIN entries
        /\ NULL \notin Key
    BY <1>1, HashAssumption
    DEF IInv, TypeOK, KeysReachable, ProbesTerminate, HashAssumption
  <2>2. capacity \in Nat
    BY <1>5, <2>1 DEF LiveKeys
  <2>3. s \in 0 .. capacity /\ entries[s].key = k
    BY <1>5, <2>1, <2>2, FindEntry DEF SlotFor
  <2>4. entries' = [entries EXCEPT ![s] = Tombstone]
    BY <1>1, <1>2, <1>5
  <2> HIDE DEF s
  <2>5. Buried(entries', entries, capacity, {s})
    BY <2>1, <2>3, <2>4, HashAssumption DEF Buried, Entry, Tombstone, HashAssumption
  <2>6. entries' \in [0 .. capacity -> Entry] /\ KeysAt(entries, {s}) = {k}
    BY <2>3, <2>5 DEF Buried, KeysAt
  <2>7. /\ KeysReachableIn(entries', capacity)
        /\ LiveKeys(entries') = LiveKeys(entries) \ KeysAt(entries, {s})
    BY <2>1, <2>2, <2>5, BuryEntries
  <2>8. \A t \in 0 .. capacity :
          entries'[t].key # NULL => \E u \in 0 .. capacity : entries'[t] = entries[u]
    BY <2>1, <2>3, <2>4 DEF Tombstone
  <2>9. ContentsOf(entries') = D!Without(ContentsOf(entries), {k})
    <3>1. LiveKeys(entries') = LiveKeys(entries) \ {k}
      BY <2>6, <2>7
    <3> QED BY <2>1, <2>2, <2>6, <2>7, <2>8, <3>1, ContentsKept
  <2> QED BY <1>3, <2>9, ContentsAre DEF D!Delete
<1> QED BY <1>4, <1>5

LEMMA GetImplements ==
  ASSUME IInv, NEW k \in Key, Get(k)
  PROVE  D!Get(k)
<1> DEFINE e == entries[find_entry(entries, capacity, k)]
<1>1. /\ pc = "idle" /\ entries' = entries
      /\ out' = IF count = 0 \/ e.key = NULL THEN Returned(FALSE, NoValue)
                                             ELSE Returned(TRUE, e.value)
  BY DEF Get, table
<1>2. /\ (count = 0 \/ e.key = NULL) <=> k \notin LiveKeys(entries)
      /\ k \in LiveKeys(entries) => e.value = ContentsOf(entries)[k]
  BY <1>1, FoundImplements
<1> HIDE DEF e
<1>3. out' = IF k \in LiveKeys(entries) THEN Returned(TRUE, ContentsOf(entries)[k])
                                        ELSE Returned(FALSE, NoValue)
  BY <1>1, <1>2
<1> QED
  BY <1>1, <1>3, ContentsAre, ContentsDomain
  DEF D!Get, Returned, NoValue, D!Returned, D!NoValue

LEMMA FindStringImplements ==
  ASSUME IInv, NEW k \in Key, FindString(k)
  PROVE  D!Find(k)
<1> DEFINE e == entries[find_entry(entries, capacity, k)]
<1>1. /\ pc = "idle" /\ entries' = entries
      /\ out' = Returned(count # 0 /\ e.key # NULL, NoValue)
  BY DEF FindString, table
<1>2. (count = 0 \/ e.key = NULL) <=> k \notin LiveKeys(entries)
  BY <1>1, FoundImplements
<1>3. (count # 0 /\ e.key # NULL) <=> k \in DOMAIN Contents
  BY <1>2, ContentsAre, ContentsDomain
<1> HIDE DEF e
<1>4. out' = D!Returned(k \in DOMAIN Contents, D!NoValue)
  BY <1>1, <1>3 DEF Returned, NoValue, D!Returned, D!NoValue
<1> QED BY <1>1, <1>4, ContentsAre DEF D!Find

LEMMA InitImplements == Init => D!Init
<1>1. ASSUME Init PROVE Contents = D!EmptyMap
  BY <1>1 DEF Init, Contents, LiveKeys, NoEntries, D!EmptyMap
<1> QED BY <1>1 DEF Init, D!Init, Returned, NoValue, D!Returned, D!NoValue

LEMMA NextImplements == IInv /\ [Next]_vars => [D!Next]_(D!vars)
<1> SUFFICES ASSUME IInv, [Next]_vars PROVE [D!Next]_(D!vars)
  OBVIOUS
<1>1. ASSUME NEW k \in Key, NEW v \in Value, Set(k, v) PROVE D!Next
  <2>1. PICK W \in SUBSET (Key \ {k}) : hash_set(k, v, W)
    BY <1>1 DEF Set
  <2>2. pc = "idle" /\ W \in SUBSET Key
    BY <1>1 DEF Set
  <2> QED BY <2>1, <2>2, hash_setImplements
<1>2. ASSUME NEW k \in Key, Get(k) \/ FindString(k) \/ Delete(k) PROVE D!Next
  BY <1>2, GetImplements, FindStringImplements, DeleteImplements DEF D!Next
<1>3. ASSUME NEW W \in SUBSET Key, RemoveWhite(W) PROVE D!Next
  <2>1. D!Forget(W)
    BY <1>3, SweepForgets DEF RemoveWhite
  <2> QED BY <2>1 DEF D!Next
<1>4. CASE Free
  <2>1. entries' = NoEntries /\ out' = out
    BY <1>4 DEF Free
  <2>2. LiveKeys(NoEntries) = {} /\ LiveKeys(entries) \ Key = {}
    BY DEF LiveKeys, NoEntries
  <2>3. ContentsOf(NoEntries) = D!Without(ContentsOf(entries), Key)
    BY <2>2, ContentsDomain DEF D!Without, ContentsOf
  <2>4. D!Forget(Key)
    BY <2>1, <2>3, ContentsAre DEF D!Forget
  <2> QED BY <2>4 DEF D!Next
<1>5. CASE FinishSet
  <2>1. /\ pc = "insert" /\ Insert(arg.key, arg.value)
        /\ capacity \in Nat /\ count + 1 <= capacity
        /\ arg.key \in Key /\ arg.value \in Value
    BY <1>5 DEF FinishSet, IInv, TypeOK, InProgress, Entry
  <2>2. D!Put(arg.key, arg.value)
    BY <2>1, InsertPuts
  <2> QED BY <2>1, <2>2 DEF D!Next
<1>6. CASE AddNext
  <2>1. PICK k \in DOMAIN todo : hash_set(k, todo[k], {})
    BY <1>6 DEF AddNext
  <2>2. PICK S \in SUBSET Key : todo \in [S -> Value]
    BY DEF IInv, TypeOK, PartialMap
  <2>3. k \in Key /\ todo[k] \in Value /\ pc = "idle"
    BY <1>6, <2>2 DEF AddNext
  <2> QED BY <2>1, <2>3, hash_setImplements
<1>7. CASE SwapArrays
  BY <1>7, SwapKeeps
<1>8. ASSUME \/ CopyEntry \/ UNCHANGED vars
             \/ \E m \in Sources : AddAll(m)
      PROVE  UNCHANGED D!vars
  <2>1. entries' = entries /\ out' = out
    BY <1>8 DEF CopyEntry, AddAll, vars, table
  <2> QED BY <2>1, ContentsAre DEF D!vars
<1> QED
  BY <1>1, <1>2, <1>3, <1>4, <1>5, <1>6, <1>7, <1>8 DEF Next, Continue

(* The table is the map that its callers are promised: tombstones, recycled *)
(* slots, growth and sweeps inside growth never show, return values        *)
(* included.                                                               *)
THEOREM TableIsMap == Spec => ImplementsDict
<1>1. Spec => D!Spec
  BY InitImplements, NextImplements, Invariance, PTL DEF Spec, D!Spec
<1> QED BY <1>1 DEF ImplementsDict
=============================================================================
