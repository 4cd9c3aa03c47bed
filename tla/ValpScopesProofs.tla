--------------------------- MODULE ValpScopesProofs ---------------------------
(***************************************************************************)
(* Proofs about ValpScopes, for any names and any bounds: a name is        *)
(* resolved to the declaration the source means, captured locals are       *)
(* closed when they leave the stack, and loops are left with the locals    *)
(* they began with.  At the end, ValpConstants: which globals are consts.  *)
(***************************************************************************)
EXTENDS ValpScopes, ValpGlobals, SequenceTheorems, WellFoundedInduction, TLAPS

Names == Name \cup {self, anon}
LocalSet == [name : Names, depth : {UNINITIALIZED} \cup Nat, is_captured : BOOLEAN, decl : Decl]
UpvalueSet == [index : Nat \ {0}, is_local : BOOLEAN, decl : Decl]
LoopSet == [scope_depth : Nat, since : Nat]
CompSet == [type : {"script", "function", "method"}, scope_depth : Nat, loops : Seq(LoopSet),
            upvalues : Seq(UpvalueSet), locals : Seq(LocalSet)]
ScopeSet == UNION {[D -> Decl] : D \in SUBSET Names}

(* LocalsSorted, of the locals of one function.                            *)
Sorted(locals) ==
  \A i, j \in DOMAIN locals : i < j =>
    /\ locals[i].depth # UNINITIALIZED
    /\ locals[j].depth # UNINITIALIZED =>
         /\ locals[i].depth <= locals[j].depth
         /\ locals[i].name = locals[j].name => locals[i].depth < locals[j].depth

(* A loop knows the locals that were there before it.                      *)
LoopOK(loop, locals) ==
  /\ loop.since <= Len(locals)
  /\ \A i \in DOMAIN locals :
       IF i <= loop.since THEN locals[i].depth \in 0 .. loop.scope_depth
       ELSE locals[i].depth = UNINITIALIZED \/ locals[i].depth > loop.scope_depth

LoopsOK(comp) ==
  /\ \A k \in DOMAIN comp.loops :
       comp.loops[k].scope_depth <= comp.scope_depth /\ LoopOK(comp.loops[k], comp.locals)
  /\ \A j, k \in DOMAIN comp.loops :
       j < k => comp.loops[j].scope_depth <= comp.loops[k].scope_depth

(* The local that is being declared may be initialised in this scope.      *)
DeclaringOK(comp) ==
  Last(comp.locals).depth = UNINITIALIZED =>
    /\ \A i \in 1 .. Len(comp.locals) - 1 :
         comp.locals[i].name = Last(comp.locals).name => comp.locals[i].depth < comp.scope_depth
    /\ comp.loops # <<>> => Last(comp.loops).scope_depth < comp.scope_depth

CompOK(comp) ==
  /\ comp \in CompSet
  /\ comp.locals # <<>> /\ comp.locals[1].depth = 0
  /\ Sorted(comp.locals)
  /\ \A i \in DOMAIN comp.locals : comp.locals[i].depth <= comp.scope_depth
  /\ LoopsOK(comp) /\ DeclaringOK(comp)

(* No declaration has two slots.                                           *)
Distinct(cs) ==
  \A m, n \in DOMAIN cs : \A i \in DOMAIN cs[m].locals, j \in DOMAIN cs[n].locals :
    cs[m].locals[i].decl = cs[n].locals[j].decl => m = n /\ i = j

OfLocal(u) == u.is_local = TRUE

(* The upvalue u of level n is the variable at its index in level n - 1,   *)
(* which is a local of a function further out.                             *)
Resolved(cs, n, u) ==
  /\ n > 1
  /\ IF OfLocal(u)
     THEN u.index \in DOMAIN cs[n - 1].locals /\ cs[n - 1].locals[u.index].decl = u.decl
     ELSE u.index \in DOMAIN cs[n - 1].upvalues /\ cs[n - 1].upvalues[u.index].decl = u.decl
  /\ \E p \in 1 .. n - 1 : u.decl \in DeclsOf(cs[p].locals)

UpvaluesOK(cs) ==
  \A n \in DOMAIN cs :
    /\ \A k \in DOMAIN cs[n].upvalues : Resolved(cs, n, cs[n].upvalues[k])
    /\ \A k, l \in DOMAIN cs[n].upvalues :
         cs[n].upvalues[k].decl = cs[n].upvalues[l].decl => k = l

(* The function inside level n captures its local i.                       *)
Captures(cs, n, i) ==
  n < Len(cs) /\ \E k \in DOMAIN cs[n + 1].upvalues :
    OfLocal(cs[n + 1].upvalues[k]) /\ cs[n + 1].upvalues[k].index = i

(* A local is marked as captured if an OP_CLOSURE captures it, or the one  *)
(* of the function being compiled will.                                    *)
CapturedOK(cs, tk) ==
  \A n \in DOMAIN cs : \A i \in DOMAIN cs[n].locals :
    (cs[n].locals[i].is_captured = TRUE)
      <=> (cs[n].locals[i].decl \in tk \/ Captures(cs, n, i))

Used(cs) == UNION {DeclsOf(cs[n].locals) : n \in DOMAIN cs}

(* A scope has the initialised locals of its depth.                        *)
Holds(scope, locals, d) ==
  /\ \A x \in DOMAIN scope : \E i \in DOMAIN locals : locals[i].name = x /\ locals[i].depth = d
  /\ \A i \in DOMAIN locals :
       locals[i].depth = d =>
         locals[i].name \in DOMAIN scope /\ scope[locals[i].name] = locals[i].decl

(* Scope k is the one of depth dep[k] in the function of level lev[k].     *)
Before(lev, dep, j, k) == lev[j] < lev[k] \/ (lev[j] = lev[k] /\ dep[j] < dep[k])

Placed(cs, sc, lev, dep) ==
  /\ lev \in [DOMAIN sc -> DOMAIN cs] /\ dep \in [DOMAIN sc -> Nat]
  /\ \A k \in DOMAIN sc :
       dep[k] <= cs[lev[k]].scope_depth /\ Holds(sc[k], cs[lev[k]].locals, dep[k])
  /\ \A j, k \in DOMAIN sc : j < k => Before(lev, dep, j, k)

Covers(sc, lev, dep, n, d) == \E k \in DOMAIN sc : lev[k] = n /\ dep[k] = d

LayoutBy(cs, sc, lev, dep) ==
  /\ Placed(cs, sc, lev, dep)
  /\ \A n \in DOMAIN cs : \A d \in 0 .. cs[n].scope_depth : Covers(sc, lev, dep, n, d)

LayoutOK(cs, sc) ==
  sc \in Seq(ScopeSet) /\ \E lev, dep : LayoutBy(cs, sc, lev, dep)

Chained(cs, tk) ==
  /\ cs \in Seq(CompSet) /\ cs # <<>> /\ \A n \in DOMAIN cs : CompOK(cs[n])
  /\ Distinct(cs) /\ UpvaluesOK(cs) /\ CapturedOK(cs, tk) /\ tk \subseteq Used(cs)

State(cs, sc, tk) == Chained(cs, tk) /\ LayoutOK(cs, sc)

EmittedOK == ResolvesLexically /\ CapturedLocalsAreClosed /\ LoopsAreLeftClean

IInv == State(compilers, scopes, taken) /\ EmittedOK
-----------------------------------------------------------------------------
(* Sequences.                                                              *)

LEMMA SeqIs ==
  ASSUME NEW S, NEW s \in Seq(S)
  PROVE  /\ Len(s) \in Nat /\ DOMAIN s = 1 .. Len(s) /\ \A i \in 1 .. Len(s) : s[i] \in S
         /\ s # <<>> => Len(s) > 0
<1>1. Len(s) \in Nat /\ DOMAIN s = 1 .. Len(s) /\ \A i \in 1 .. Len(s) : s[i] \in S
  BY LenProperties, ElementOfSeq
<1>2. s # <<>> => Len(s) > 0
  BY EmptySeq
<1> QED BY <1>1, <1>2

LEMMA ListIs ==
  ASSUME NEW S, NEW n \in Nat, NEW s \in [1 .. n -> S]
  PROVE  s \in Seq(S) /\ Len(s) = n /\ DOMAIN s = 1 .. n
<1>1. s \in Seq(S)
  BY SeqDef
<1> QED BY <1>1, LenProperties

LEMMA Appended ==
  ASSUME NEW S, NEW s \in Seq(S), NEW v \in S
  PROVE  /\ Append(s, v) \in Seq(S) /\ Len(Append(s, v)) = Len(s) + 1
         /\ DOMAIN Append(s, v) = 1 .. Len(s) + 1
         /\ Append(s, v)[Len(s) + 1] = v /\ Last(Append(s, v)) = v
         /\ \A i \in 1 .. Len(s) : Append(s, v)[i] = s[i]
<1>1. /\ Append(s, v) \in Seq(S) /\ Len(Append(s, v)) = Len(s) + 1
      /\ \A i \in 1 .. Len(s) : Append(s, v)[i] = s[i]
      /\ Append(s, v)[Len(s) + 1] = v
  BY AppendProperties
<1>2. DOMAIN Append(s, v) = 1 .. Len(s) + 1
  BY <1>1, LenProperties
<1> QED BY <1>1, <1>2 DEF Last

LEMMA CutTo ==
  ASSUME NEW S, NEW s \in Seq(S), NEW n \in Nat, n <= Len(s)
  PROVE  /\ SubSeq(s, 1, n) \in Seq(S) /\ Len(SubSeq(s, 1, n)) = n
         /\ DOMAIN SubSeq(s, 1, n) = 1 .. n
         /\ \A i \in 1 .. n : SubSeq(s, 1, n)[i] = s[i]
<1>1. \A i \in 1 .. n : s[i] \in S
  BY SeqIs
<1>2. /\ SubSeq(s, 1, n) \in Seq(S)
      /\ Len(SubSeq(s, 1, n)) = IF 1 <= n THEN n - 1 + 1 ELSE 0
      /\ \A i \in 1 .. n - 1 + 1 : SubSeq(s, 1, n)[i] = s[1 + i - 1]
  BY <1>1, SubSeqProperties
<1>3. \A i \in 1 .. n : i \in 1 .. n - 1 + 1 /\ 1 + i - 1 = i
  OBVIOUS
<1>4. Len(SubSeq(s, 1, n)) = n
  BY <1>2
<1>5. DOMAIN SubSeq(s, 1, n) = 1 .. n
  BY <1>2, <1>4, LenProperties
<1> QED BY <1>2, <1>3, <1>4, <1>5

Sub(s, i, v) == [s EXCEPT ![i] = v]

LEMMA Replaced ==
  ASSUME NEW S, NEW s \in Seq(S), NEW v \in S, NEW i \in 1 .. Len(s)
  PROVE  /\ Sub(s, i, v) \in Seq(S) /\ Len(Sub(s, i, v)) = Len(s)
         /\ DOMAIN Sub(s, i, v) = 1 .. Len(s) /\ Sub(s, i, v)[i] = v
         /\ \A j \in 1 .. Len(s) : j # i => Sub(s, i, v)[j] = s[j]
<1>1. /\ Sub(s, i, v) \in Seq(S) /\ Len(Sub(s, i, v)) = Len(s)
      /\ \A j \in 1 .. Len(s) : Sub(s, i, v)[j] = IF j = i THEN v ELSE s[j]
  BY ExceptSeq DEF Sub
<1>2. DOMAIN Sub(s, i, v) = 1 .. Len(s)
  BY <1>1, LenProperties
<1> QED BY <1>1, <1>2

(* A set of naturals that is not empty has a least and, if it is bounded,  *)
(* a greatest element.                                                     *)
LEMMA LeastElement ==
  ASSUME NEW S \in SUBSET Nat, S # {}
  PROVE  \E d \in S : \A e \in S : d <= e
<1> DEFINE R == {ss \in Nat \X Nat : ss[1] < ss[2]}
<1>1. IsWellFoundedOn(R, Nat)
  BY NatLessThanWellFounded DEF OpToRel
<1> HIDE DEF R
<1>2. PICK d \in S : \A e \in S : ~(<<e, d>> \in R)
  BY <1>1, WFMin
<1>3. ASSUME NEW e \in S PROVE d <= e
  <2>1. d \in Nat /\ e \in Nat
    OBVIOUS
  <2>2. e < d => <<e, d>> \in R
    BY <2>1 DEF R
  <2> QED BY <1>2, <2>1, <2>2
<1> QED BY <1>3

LEMMA GreatestElement ==
  ASSUME NEW n \in Nat, NEW S \in SUBSET (0 .. n), S # {}
  PROVE  \E d \in S : \A e \in S : e <= d
<1> DEFINE T == {k \in 0 .. n : n - k \in S}
<1>1. PICK s : s \in S
  OBVIOUS
<1>2. n - s \in 0 .. n /\ n - (n - s) = s
  BY <1>1
<1>3. T # {} /\ T \in SUBSET Nat
  BY <1>1, <1>2
<1> HIDE DEF T
<1>4. PICK k \in T : \A e \in T : k <= e
  BY <1>3, LeastElement
<1>5. k \in 0 .. n /\ n - k \in S
  BY DEF T
<1>6. ASSUME NEW e \in S PROVE e <= n - k
  <2>1. n - e \in T
    <3>1. e \in 0 .. n /\ n - e \in 0 .. n /\ n - (n - e) = e
      OBVIOUS
    <3> QED BY <3>1 DEF T
  <2>2. k <= n - e /\ e \in 0 .. n
    BY <1>4, <2>1
  <2> QED BY <2>2, <1>5
<1> QED BY <1>5, <1>6
-----------------------------------------------------------------------------
(* One compiler.                                                           *)

LEMMA CompIs ==
  ASSUME NEW comp, CompOK(comp)
  PROVE  /\ comp.type \in {"script", "function", "method"} /\ comp.scope_depth \in Nat
         /\ comp.locals \in Seq(LocalSet) /\ Len(comp.locals) \in Nat /\ Len(comp.locals) > 0
         /\ DOMAIN comp.locals = 1 .. Len(comp.locals)
         /\ \A i \in 1 .. Len(comp.locals) :
              /\ comp.locals[i] \in LocalSet /\ comp.locals[i].name \in Names
              /\ comp.locals[i].depth \in Nat \/ comp.locals[i].depth = UNINITIALIZED
              /\ comp.locals[i].decl \in Decl /\ comp.locals[i].depth <= comp.scope_depth
         /\ Last(comp.locals) = comp.locals[Len(comp.locals)]
         /\ comp.upvalues \in Seq(UpvalueSet) /\ Len(comp.upvalues) \in Nat
         /\ DOMAIN comp.upvalues = 1 .. Len(comp.upvalues)
         /\ \A k \in 1 .. Len(comp.upvalues) :
              comp.upvalues[k] \in UpvalueSet /\ comp.upvalues[k].index \in Nat \ {0}
         /\ comp.loops \in Seq(LoopSet) /\ Len(comp.loops) \in Nat
         /\ DOMAIN comp.loops = 1 .. Len(comp.loops)
         /\ \A k \in 1 .. Len(comp.loops) :
              comp.loops[k].scope_depth \in Nat /\ comp.loops[k].since \in Nat
<1>1. /\ comp.type \in {"script", "function", "method"} /\ comp.scope_depth \in Nat
      /\ comp.locals \in Seq(LocalSet) /\ comp.upvalues \in Seq(UpvalueSet)
      /\ comp.loops \in Seq(LoopSet) /\ comp.locals # <<>>
  BY DEF CompOK, CompSet
<1>2. /\ Len(comp.locals) \in Nat /\ Len(comp.locals) > 0
      /\ DOMAIN comp.locals = 1 .. Len(comp.locals)
      /\ \A i \in 1 .. Len(comp.locals) : comp.locals[i] \in LocalSet
  BY <1>1, SeqIs
<1>3. /\ Len(comp.upvalues) \in Nat /\ DOMAIN comp.upvalues = 1 .. Len(comp.upvalues)
      /\ \A i \in 1 .. Len(comp.upvalues) : comp.upvalues[i] \in UpvalueSet
  BY <1>1, SeqIs
<1>4. /\ Len(comp.loops) \in Nat /\ DOMAIN comp.loops = 1 .. Len(comp.loops)
      /\ \A i \in 1 .. Len(comp.loops) : comp.loops[i] \in LoopSet
  BY <1>1, SeqIs
<1>5. \A i \in 1 .. Len(comp.locals) :
        /\ comp.locals[i] \in LocalSet /\ comp.locals[i].name \in Names
        /\ comp.locals[i].depth \in Nat \/ comp.locals[i].depth = UNINITIALIZED
        /\ comp.locals[i].decl \in Decl /\ comp.locals[i].depth <= comp.scope_depth
  BY <1>2 DEF LocalSet, CompOK
<1>6. \A k \in 1 .. Len(comp.upvalues) :
        comp.upvalues[k] \in UpvalueSet /\ comp.upvalues[k].index \in Nat \ {0}
  BY <1>3 DEF UpvalueSet
<1>7. \A k \in 1 .. Len(comp.loops) :
        comp.loops[k].scope_depth \in Nat /\ comp.loops[k].since \in Nat
  BY <1>4 DEF LoopSet
<1> QED BY <1>1, <1>2, <1>3, <1>4, <1>5, <1>6, <1>7 DEF Last

(* Once the topmost local is initialised, all are, and their depths rise.  *)
LEMMA AllInitialized ==
  ASSUME NEW comp, CompOK(comp), Last(comp.locals).depth # UNINITIALIZED
  PROVE  /\ \A i \in 1 .. Len(comp.locals) : comp.locals[i].depth \in Nat
         /\ \A i, j \in 1 .. Len(comp.locals) :
              i <= j => comp.locals[i].depth <= comp.locals[j].depth
<1> DEFINE K == comp.locals
           n == Len(comp.locals)
<1>1. /\ n \in Nat /\ n > 0 /\ DOMAIN K = 1 .. n /\ Last(K) = K[n] /\ Sorted(K)
      /\ \A i \in 1 .. n : K[i].depth \in Nat \/ K[i].depth = UNINITIALIZED
  BY CompIs DEF CompOK
<1> HIDE DEF K, n
<1>2. ASSUME NEW i \in 1 .. n PROVE K[i].depth \in Nat
  <2>1. CASE i = n
    BY <2>1, <1>1 DEF K
  <2>2. CASE i < n
    <3>1. n \in DOMAIN K /\ i \in DOMAIN K
      BY <1>1
    <3> QED BY <2>2, <3>1, <1>1 DEF Sorted
  <2> QED BY <2>1, <2>2, <1>1
<1>3. ASSUME NEW i \in 1 .. n, NEW j \in 1 .. n, i <= j
      PROVE  K[i].depth <= K[j].depth
  <2>1. CASE i = j
    BY <2>1, <1>2
  <2>2. CASE i < j
    <3>1. K[j].depth # UNINITIALIZED
      BY <1>2 DEF UNINITIALIZED
    <3> QED BY <2>2, <3>1, <1>1 DEF Sorted
  <2> QED BY <2>1, <2>2, <1>1, <1>3
<1> QED BY <1>2, <1>3 DEF K, n

(* The loop of end_scope and discard_locals stops where it should.         *)
LEMMA BelowIs ==
  ASSUME NEW comp, CompOK(comp), Last(comp.locals).depth # UNINITIALIZED, NEW d \in Nat
  PROVE  LET b == Below(comp.locals, d)
         IN  /\ b \in 1 .. Len(comp.locals)
             /\ \A j \in 1 .. b : comp.locals[j].depth <= d
             /\ \A j \in b + 1 .. Len(comp.locals) : comp.locals[j].depth > d
<1> DEFINE K == comp.locals
           n == Len(comp.locals)
           b == Below(K, d)
           S == {k \in 0 .. n : k > 0 /\ K[k].depth <= d}
<1>1. /\ n \in Nat /\ n > 0
      /\ \A i \in 1 .. n : K[i].depth \in Nat
      /\ \A i, j \in 1 .. n : i <= j => K[i].depth <= K[j].depth
      /\ K[1].depth = 0
  BY CompIs, AllInitialized DEF CompOK
<1>2. PICK m \in S : \A e \in S : e <= m
  <2>1. S \in SUBSET (0 .. n) /\ 1 \in S
    BY <1>1
  <2> HIDE DEF S, n
  <2> QED BY <2>1, <1>1, GreatestElement
<1>3. b \in 0 .. n /\ (b > 0 => K[b].depth <= d) /\ \A j \in b + 1 .. n : K[j].depth > d
  <2>1. /\ m \in 0 .. n /\ (m > 0 => K[m].depth <= d)
        /\ \A j \in m + 1 .. n : K[j].depth > d
    <3>1. \A j \in m + 1 .. n : j \in 0 .. n /\ j \in 1 .. n /\ j > m /\ j > 0
      BY <1>1, <1>2
    <3>2. ASSUME NEW j \in m + 1 .. n PROVE K[j].depth > d
      <4>1. j \notin S
        BY <1>2, <3>1
      <4>2. K[j].depth \in Nat /\ ~(K[j].depth <= d)
        BY <4>1, <3>1, <1>1
      <4> QED BY <4>2
    <3> QED BY <3>2, <1>2
  <2> QED BY <2>1 DEF Below
<1> HIDE DEF K, n, b
<1>4. b > 0
  <2>1. SUFFICES ASSUME b = 0 PROVE FALSE
    BY <1>3, <1>1
  <2>2. K[1].depth > d
    BY <2>1, <1>1, <1>3
  <2> QED BY <2>2, <1>1
<1>5. ASSUME NEW j \in 1 .. b PROVE K[j].depth <= d
  <2>1. b \in 1 .. n /\ j \in 1 .. n /\ j <= b
    BY <1>3, <1>4, <1>1
  <2>2. K[j].depth <= K[b].depth /\ K[b].depth <= d /\ K[j].depth \in Nat /\ K[b].depth \in Nat
    BY <2>1, <1>1, <1>3, <1>4
  <2> QED BY <2>2
<1>6. b \in 1 .. n
  BY <1>3, <1>4, <1>1
<1> QED BY <1>3, <1>5, <1>6 DEF K, n, b

(* In a loop, that is where the loop began.                                *)
LEMMA BelowIsSince ==
  ASSUME NEW comp, CompOK(comp), Last(comp.locals).depth # UNINITIALIZED, comp.loops # <<>>
  PROVE  Below(comp.locals, Last(comp.loops).scope_depth) = Last(comp.loops).since
<1> DEFINE K == comp.locals
           n == Len(comp.locals)
           loop == Last(comp.loops)
           b == Below(K, loop.scope_depth)
<1>1. /\ Len(comp.loops) \in DOMAIN comp.loops
      /\ loop.scope_depth \in Nat /\ loop.since \in Nat
  <2>1. Len(comp.loops) > 0
    BY CompIs, SeqIs
  <2> QED BY <2>1, CompIs DEF Last
<1>2. LoopOK(loop, K)
  BY <1>1 DEF CompOK, LoopsOK, Last
<1>3. /\ n \in Nat /\ DOMAIN K = 1 .. n /\ \A i \in 1 .. n : K[i].depth \in Nat
  BY CompIs, AllInitialized
<1>4. /\ b \in 1 .. n /\ \A j \in 1 .. b : K[j].depth <= loop.scope_depth
      /\ \A j \in b + 1 .. n : K[j].depth > loop.scope_depth
  BY <1>1, BelowIs
<1> HIDE DEF K, n, loop, b
<1>5. loop.since <= n
  BY <1>2, <1>3 DEF LoopOK, n, K
<1>6. ASSUME NEW i \in 1 .. n, i <= loop.since PROVE K[i].depth <= loop.scope_depth
  BY <1>6, <1>2, <1>3, <1>1 DEF LoopOK
<1>7. ASSUME NEW i \in 1 .. n, ~(i <= loop.since) PROVE K[i].depth > loop.scope_depth
  <2>1. K[i].depth # UNINITIALIZED
    BY <1>3 DEF UNINITIALIZED
  <2> QED BY <2>1, <1>7, <1>2, <1>3 DEF LoopOK
<1>8. ~(b < loop.since)
  <2>1. SUFFICES ASSUME b < loop.since PROVE FALSE
    OBVIOUS
  <2>2. loop.since \in 1 .. n /\ loop.since \in b + 1 .. n
    BY <2>1, <1>1, <1>4, <1>5, <1>3
  <2>3. K[loop.since].depth <= loop.scope_depth /\ K[loop.since].depth > loop.scope_depth
    BY <2>2, <1>4, <1>6, <1>1
  <2> QED BY <2>2, <2>3, <1>1, <1>3
<1>9. ~(b > loop.since)
  <2>1. SUFFICES ASSUME b > loop.since PROVE FALSE
    OBVIOUS
  <2>2. b \in 1 .. b /\ ~(b <= loop.since)
    BY <2>1, <1>1, <1>4
  <2>3. K[b].depth <= loop.scope_depth /\ K[b].depth > loop.scope_depth
    BY <2>2, <1>4, <1>7
  <2> QED BY <2>3, <1>4, <1>1, <1>3
<1>10. b = loop.since
  BY <1>8, <1>9, <1>4, <1>1, <1>3
<1> QED BY <1>10 DEF K, n, loop, b
-----------------------------------------------------------------------------
(* What the operations make of a compiler is again one.                    *)

(* The innermost loop is the deepest.                                      *)
LEMMA LoopsAre ==
  ASSUME NEW comp, CompOK(comp), comp.loops # <<>>
  PROVE  /\ Len(comp.loops) \in DOMAIN comp.loops /\ Len(comp.loops) > 0
         /\ Last(comp.loops).scope_depth \in Nat
         /\ \A k \in DOMAIN comp.loops :
              comp.loops[k].scope_depth <= Last(comp.loops).scope_depth
<1> DEFINE m == Len(comp.loops)
<1>1. m > 0 /\ m \in Nat /\ DOMAIN comp.loops = 1 .. m
      /\ \A k \in 1 .. m : comp.loops[k].scope_depth \in Nat
  BY CompIs, SeqIs
<1>2. \A j, k \in DOMAIN comp.loops :
        j < k => comp.loops[j].scope_depth <= comp.loops[k].scope_depth
  BY DEF CompOK, LoopsOK
<1>3. \A k \in 1 .. m : k < m \/ k = m
  BY <1>1
<1>4. m \in DOMAIN comp.loops
  BY <1>1
<1> QED BY <1>1, <1>2, <1>3, <1>4 DEF Last

LEMMA BeginComp ==
  ASSUME NEW comp, CompOK(comp), Last(comp.locals).depth # UNINITIALIZED,
         NEW g, g = [comp EXCEPT !.scope_depth = @ + 1]
  PROVE  CompOK(g) /\ g.locals = comp.locals /\ g.upvalues = comp.upvalues
         /\ g.scope_depth = comp.scope_depth + 1
<1>0. comp \in CompSet /\ comp.scope_depth \in Nat /\ comp.scope_depth + 1 \in Nat
  BY CompIs DEF CompOK
<1>1. /\ g \in CompSet /\ g.locals = comp.locals /\ g.upvalues = comp.upvalues
      /\ g.loops = comp.loops /\ g.scope_depth = comp.scope_depth + 1
  BY <1>0 DEF CompSet
<1>2. \A i \in DOMAIN g.locals : g.locals[i].depth <= g.scope_depth
  <2>1. \A i \in DOMAIN comp.locals :
          /\ comp.locals[i].depth <= comp.scope_depth
          /\ comp.locals[i].depth \in Nat \/ comp.locals[i].depth = UNINITIALIZED
    BY CompIs
  <2> QED BY <2>1, <1>0, <1>1 DEF UNINITIALIZED
<1>3. LoopsOK(g)
  <2>1. \A k \in DOMAIN comp.loops : comp.loops[k].scope_depth <= comp.scope_depth + 1
    <3>1. \A k \in DOMAIN comp.loops :
            comp.loops[k].scope_depth <= comp.scope_depth /\ comp.loops[k].scope_depth \in Nat
      BY CompIs DEF CompOK, LoopsOK
    <3> QED BY <3>1, <1>0
  <2> QED BY <2>1, <1>1 DEF CompOK, LoopsOK
<1>4. DeclaringOK(g)
  BY <1>1 DEF DeclaringOK
<1> QED BY <1>1, <1>2, <1>3, <1>4 DEF CompOK

Ended(comp, i) == [comp EXCEPT !.scope_depth = @ - 1, !.locals = SubSeq(@, 1, i)]

LEMMA EndComp ==
  ASSUME NEW comp, CompOK(comp), Last(comp.locals).depth # UNINITIALIZED,
         comp.scope_depth > 0, comp.loops # <<>> => comp.scope_depth > Last(comp.loops).scope_depth,
         NEW i, i = Below(comp.locals, comp.scope_depth - 1),
         NEW g, g = Ended(comp, i)
  PROVE  /\ CompOK(g) /\ g.upvalues = comp.upvalues /\ g.scope_depth = comp.scope_depth - 1
         /\ i \in 1 .. Len(comp.locals) /\ DOMAIN g.locals = 1 .. i
         /\ \A j \in 1 .. i : g.locals[j] = comp.locals[j]
         /\ \A j \in i + 1 .. Len(comp.locals) : comp.locals[j].depth = comp.scope_depth
<1> USE DEF Ended
<1> DEFINE K == comp.locals
           n == Len(comp.locals)
           d == comp.scope_depth
<1>1. /\ n \in Nat /\ n > 0 /\ DOMAIN K = 1 .. n /\ d \in Nat /\ d - 1 \in Nat
      /\ \A j \in 1 .. n : K[j].depth \in Nat /\ K[j].depth <= d
      /\ K \in Seq(LocalSet)
  BY CompIs, AllInitialized
<1>2. /\ i \in 1 .. n /\ \A j \in 1 .. i : K[j].depth <= d - 1
      /\ \A j \in i + 1 .. n : K[j].depth > d - 1
  BY <1>1, BelowIs
<1>3. /\ SubSeq(K, 1, i) \in Seq(LocalSet) /\ Len(SubSeq(K, 1, i)) = i
      /\ DOMAIN SubSeq(K, 1, i) = 1 .. i
      /\ \A j \in 1 .. i : SubSeq(K, 1, i)[j] = K[j]
  BY <1>1, <1>2, CutTo
<1>4. /\ g \in CompSet /\ g.locals = SubSeq(K, 1, i) /\ g.upvalues = comp.upvalues
      /\ g.loops = comp.loops /\ g.scope_depth = d - 1
  BY <1>1, <1>3 DEF CompOK, CompSet
<1> DEFINE L == g.locals
<1>5. /\ L # <<>> /\ Len(L) = i /\ DOMAIN L = 1 .. i /\ \A j \in 1 .. i : L[j] = K[j] /\ j \in DOMAIN K
      /\ Last(L) = K[i] /\ 1 \in 1 .. i
  BY <1>1, <1>2, <1>3, <1>4 DEF Last
<1>6. \A j \in i + 1 .. n : K[j].depth = d
  <2> SUFFICES ASSUME NEW j \in i + 1 .. n PROVE K[j].depth = d
    OBVIOUS
  <2>1. j \in 1 .. n /\ K[j].depth > d - 1
    BY <1>1, <1>2
  <2> QED BY <2>1, <1>1
<1>7. \A k \in DOMAIN comp.loops : comp.loops[k].scope_depth <= d - 1 /\ comp.loops[k].scope_depth \in Nat
                                   /\ comp.loops[k].since \in Nat
  <2> SUFFICES ASSUME NEW k \in DOMAIN comp.loops
               PROVE  comp.loops[k].scope_depth <= d - 1 /\ comp.loops[k].scope_depth \in Nat
                      /\ comp.loops[k].since \in Nat
    OBVIOUS
  <2>1. comp.loops # <<>>
    BY CompIs
  <2>2. comp.loops[k].scope_depth \in Nat /\ comp.loops[k].since \in Nat
    BY CompIs
  <2> QED BY <2>1, <2>2, <1>1, LoopsAre
<1>8. Sorted(L)
  <2>1. Sorted(K)
    BY DEF CompOK
  <2> HIDE DEF L, K
  <2> QED BY <2>1, <1>5 DEF Sorted
<1>9. LoopsOK(g)
  <2>1. ASSUME NEW k \in DOMAIN comp.loops PROVE LoopOK(comp.loops[k], L)
    <3> DEFINE loop == comp.loops[k]
    <3>1. LoopOK(loop, K) /\ loop.scope_depth <= d - 1 /\ loop.scope_depth \in Nat /\ loop.since \in Nat
      BY <1>7 DEF CompOK, LoopsOK
    <3> HIDE DEF loop
    <3>2. loop.since <= i
      <4>1. SUFFICES ASSUME ~(loop.since <= i) PROVE FALSE
        OBVIOUS
      <4>2. loop.since <= n
        BY <3>1 DEF LoopOK
      <4>3. loop.since \in 1 .. n /\ loop.since \in i + 1 .. n
        BY <4>1, <4>2, <3>1, <1>1, <1>2
      <4>4. K[loop.since].depth \in 0 .. loop.scope_depth
        BY <4>3, <3>1, <1>1 DEF LoopOK
      <4> QED BY <4>3, <4>4, <3>1, <1>6, <1>1
    <3> HIDE DEF L, K
    <3>3. LoopOK(loop, L)
      BY <3>1, <3>2, <1>5 DEF LoopOK
    <3> QED BY <3>3 DEF loop
  <2> QED BY <2>1, <1>4, <1>7 DEF LoopsOK, CompOK
<1>10. DeclaringOK(g)
  <2>1. Last(L).depth # UNINITIALIZED
    BY <1>5, <1>2, <1>1 DEF UNINITIALIZED
  <2> QED BY <2>1 DEF DeclaringOK
<1>11. /\ L[1].depth = 0 /\ \A j \in DOMAIN L : L[j].depth <= g.scope_depth
  BY <1>2, <1>4, <1>5 DEF CompOK
<1>12. CompOK(g)
  BY <1>4, <1>5, <1>8, <1>9, <1>10, <1>11 DEF CompOK
<1> QED BY <1>2, <1>4, <1>5, <1>6, <1>12

Declared(comp, x, dep, d) == [comp EXCEPT !.locals = Append(@, Local(x, dep, d))]

(* A local is added on top: of the scope that is open, or not initialised. *)
LEMMA DeclareComp ==
  ASSUME NEW comp, CompOK(comp), Last(comp.locals).depth # UNINITIALIZED,
         comp.scope_depth > 0, comp.loops # <<>> => comp.scope_depth > Last(comp.loops).scope_depth,
         NEW x \in Names, NEW d \in Decl, NEW dep \in {UNINITIALIZED, comp.scope_depth},
         \A i \in DOMAIN comp.locals : comp.locals[i].name = x => comp.locals[i].depth < comp.scope_depth,
         NEW g, g = Declared(comp, x, dep, d)
  PROVE  /\ CompOK(g) /\ g.upvalues = comp.upvalues /\ g.scope_depth = comp.scope_depth
         /\ DOMAIN g.locals = 1 .. Len(comp.locals) + 1
         /\ g.locals[Len(comp.locals) + 1] = Local(x, dep, d)
         /\ \A j \in 1 .. Len(comp.locals) : g.locals[j] = comp.locals[j]
<1> USE DEF Declared
<1> DEFINE K == comp.locals
           n == Len(comp.locals)
           new == Local(x, dep, d)
<1>1. /\ n \in Nat /\ n > 0 /\ DOMAIN K = 1 .. n /\ comp.scope_depth \in Nat
      /\ \A j \in 1 .. n : K[j].depth \in Nat /\ K[j].depth <= comp.scope_depth
      /\ K \in Seq(LocalSet)
  BY CompIs, AllInitialized
<1>2. new \in LocalSet /\ new.name = x /\ new.depth = dep /\ new.decl = d
  BY <1>1 DEF Local, LocalSet
<1>3. /\ Append(K, new) \in Seq(LocalSet) /\ Len(Append(K, new)) = n + 1
      /\ DOMAIN Append(K, new) = 1 .. n + 1
      /\ Append(K, new)[n + 1] = new /\ Last(Append(K, new)) = new
      /\ \A i \in 1 .. n : Append(K, new)[i] = K[i]
  <2> HIDE DEF new
  <2> QED BY <1>1, <1>2, Appended
<1>4. /\ g \in CompSet /\ g.locals = Append(K, new) /\ g.upvalues = comp.upvalues
      /\ g.loops = comp.loops /\ g.scope_depth = comp.scope_depth
  BY <1>1, <1>3 DEF CompOK, CompSet
<1> DEFINE L == g.locals
<1>5. /\ Len(L) = n + 1 /\ DOMAIN L = 1 .. n + 1 /\ L[n + 1] = new /\ Last(L) = new
      /\ \A i \in 1 .. n : L[i] = K[i]
      /\ L # <<>>
  BY <1>1, <1>3, <1>4
<1> HIDE DEF new, L
<1>6. Sorted(L)
  <2> SUFFICES ASSUME NEW i \in 1 .. n + 1, NEW j \in 1 .. n + 1, i < j
               PROVE  /\ L[i].depth # UNINITIALIZED
                      /\ L[j].depth # UNINITIALIZED =>
                           /\ L[i].depth <= L[j].depth
                           /\ L[i].name = L[j].name => L[i].depth < L[j].depth
    BY <1>5 DEF Sorted
  <2>1. i \in 1 .. n /\ L[i] = K[i] /\ K[i].depth # UNINITIALIZED
    BY <1>1, <1>5 DEF UNINITIALIZED
  <2>2. CASE j = n + 1
    BY <2>1, <2>2, <1>1, <1>2, <1>5
  <2>3. CASE j \in 1 .. n
    <3>1. Sorted(K)
      BY DEF CompOK
    <3> QED BY <2>1, <2>3, <3>1, <1>1, <1>5 DEF Sorted
  <2> QED BY <2>2, <2>3, <1>1
<1>7. \A i \in DOMAIN L : L[i].depth <= g.scope_depth
  <2> SUFFICES ASSUME NEW i \in 1 .. n + 1 PROVE L[i].depth <= g.scope_depth
    BY <1>5
  <2>1. CASE i = n + 1
    BY <2>1, <1>1, <1>2, <1>4, <1>5 DEF UNINITIALIZED
  <2>2. CASE i \in 1 .. n
    BY <2>2, <1>1, <1>4, <1>5
  <2> QED BY <2>1, <2>2, <1>1
<1>8. LoopsOK(g)
  <2>1. ASSUME NEW k \in DOMAIN comp.loops PROVE LoopOK(comp.loops[k], L)
    <3> DEFINE loop == comp.loops[k]
    <3>1. /\ LoopOK(loop, K) /\ loop.scope_depth < comp.scope_depth /\ loop.scope_depth \in Nat
          /\ loop.since \in Nat
      <4>1. comp.loops # <<>> /\ loop.scope_depth \in Nat /\ loop.since \in Nat
        BY CompIs
      <4>2. loop.scope_depth <= Last(comp.loops).scope_depth /\ Last(comp.loops).scope_depth \in Nat
        BY <4>1, LoopsAre
      <4>3. LoopOK(loop, K)
        BY DEF CompOK, LoopsOK
      <4> QED BY <4>1, <4>2, <4>3, <1>1
    <3> HIDE DEF loop
    <3>2. loop.since <= n
      BY <3>1 DEF LoopOK
    <3>3. ASSUME NEW i \in 1 .. n + 1
          PROVE  IF i <= loop.since THEN L[i].depth \in 0 .. loop.scope_depth
                 ELSE L[i].depth = UNINITIALIZED \/ L[i].depth > loop.scope_depth
      <4>1. CASE i = n + 1
        BY <4>1, <3>1, <3>2, <1>1, <1>2, <1>5
      <4>2. CASE i \in 1 .. n
        <5>1. L[i] = K[i] /\ i \in DOMAIN K
          BY <4>2, <1>1, <1>5
        <5> QED BY <5>1, <3>1 DEF LoopOK
      <4> QED BY <4>1, <4>2, <1>1
    <3>4. LoopOK(loop, L)
      BY <3>2, <3>3, <1>1, <1>5, <3>1 DEF LoopOK
    <3> QED BY <3>4 DEF loop
  <2> QED BY <2>1, <1>4 DEF LoopsOK, CompOK, L
<1>9. DeclaringOK(g)
  <2> SUFFICES ASSUME Last(L).depth = UNINITIALIZED
               PROVE  /\ \A i \in 1 .. Len(L) - 1 : L[i].name = Last(L).name => L[i].depth < g.scope_depth
                      /\ g.loops # <<>> => Last(g.loops).scope_depth < g.scope_depth
    BY DEF DeclaringOK, L
  <2>1. \A i \in 1 .. Len(L) - 1 : i \in 1 .. n
    BY <1>1, <1>5
  <2>2. \A i \in 1 .. Len(L) - 1 : L[i].name = Last(L).name => L[i].depth < g.scope_depth
    BY <2>1, <1>1, <1>2, <1>4, <1>5
  <2>3. g.loops # <<>> => Last(g.loops).scope_depth < g.scope_depth
    BY <1>1, <1>4, LoopsAre
  <2> QED BY <2>2, <2>3
<1>10. L[1].depth = 0
  BY <1>1, <1>5 DEF CompOK
<1>11. CompOK(g)
  BY <1>4, <1>5, <1>6, <1>7, <1>8, <1>9, <1>10 DEF CompOK, L
<1> QED BY <1>4, <1>5, <1>11 DEF L, new

(* What is not redeclared has no local of its name in the open scope.      *)
LEMMA NotRedeclared ==
  ASSUME CompOK(current), ~Initializing, NEW x, ~Redeclared(x)
  PROVE  \A i \in DOMAIN current.locals :
           current.locals[i].name = x => current.locals[i].depth < current.scope_depth
<1> DEFINE K == current.locals
           n == Len(current.locals)
<1>1. /\ n \in Nat /\ DOMAIN K = 1 .. n /\ current.scope_depth \in Nat
      /\ \A j \in 1 .. n : K[j].depth \in Nat /\ K[j].depth <= current.scope_depth
      /\ \A i, j \in 1 .. n : i <= j => K[i].depth <= K[j].depth
  BY CompIs, AllInitialized DEF Initializing
<1> SUFFICES ASSUME NEW i \in 1 .. n, K[i].name = x PROVE K[i].depth < current.scope_depth
  BY <1>1
<1>2. PICK j \in i .. n : K[j].depth \notin {UNINITIALIZED, current.scope_depth}
  BY <1>1 DEF Redeclared
<1>3. j \in 1 .. n /\ i <= j
  BY <1>1
<1>4. K[j].depth \in Nat /\ K[j].depth <= current.scope_depth /\ K[j].depth # current.scope_depth
      /\ K[i].depth <= K[j].depth /\ K[i].depth \in Nat
  BY <1>1, <1>2, <1>3
<1> QED BY <1>4, <1>1

Initialized(comp) == [comp EXCEPT !.locals[Len(comp.locals)].depth = comp.scope_depth]

LEMMA InitializeComp ==
  ASSUME NEW comp, CompOK(comp), Last(comp.locals).depth = UNINITIALIZED,
         NEW g, g = Initialized(comp)
  PROVE  /\ CompOK(g) /\ g.upvalues = comp.upvalues /\ g.scope_depth = comp.scope_depth
         /\ DOMAIN g.locals = 1 .. Len(comp.locals)
         /\ \A j \in 1 .. Len(comp.locals) - 1 : g.locals[j] = comp.locals[j]
         /\ g.locals[Len(comp.locals)]
              = [comp.locals[Len(comp.locals)] EXCEPT !.depth = comp.scope_depth]
         /\ \A j \in 1 .. Len(comp.locals) - 1 : comp.locals[j].depth \in Nat
<1> USE DEF Initialized
<1> DEFINE K == comp.locals
           n == Len(comp.locals)
           new == [K[n] EXCEPT !.depth = comp.scope_depth]
<1>1. /\ n \in Nat /\ n > 0 /\ DOMAIN K = 1 .. n /\ comp.scope_depth \in Nat
      /\ \A j \in 1 .. n : K[j] \in LocalSet /\ K[j].depth <= comp.scope_depth
                           /\ (K[j].depth \in Nat \/ K[j].depth = UNINITIALIZED)
      /\ K \in Seq(LocalSet) /\ K[n].depth = UNINITIALIZED /\ Sorted(K)
  BY CompIs DEF CompOK
<1>2. /\ new \in LocalSet /\ new.depth = comp.scope_depth /\ new.name = K[n].name
  BY <1>1 DEF LocalSet
<1>3. /\ Sub(K, n, new) \in Seq(LocalSet) /\ Len(Sub(K, n, new)) = n
      /\ DOMAIN Sub(K, n, new) = 1 .. n /\ Sub(K, n, new)[n] = new
      /\ \A j \in 1 .. n : j # n => Sub(K, n, new)[j] = K[j]
  <2>1. n \in 1 .. Len(K)
    BY <1>1
  <2>2. K \in Seq(LocalSet) /\ new \in LocalSet
    BY <1>1, <1>2
  <2> HIDE DEF new
  <2>3. /\ Sub(K, n, new) \in Seq(LocalSet) /\ Len(Sub(K, n, new)) = n
        /\ DOMAIN Sub(K, n, new) = 1 .. n
    BY <2>1, <2>2, Replaced
  <2>4. Sub(K, n, new)[n] = new
    <3>1. n \in DOMAIN K
      BY <1>1
    <3> QED BY <3>1 DEF Sub
  <2>5. \A j \in 1 .. n : j # n => Sub(K, n, new)[j] = K[j]
    <3>1. \A j \in 1 .. n : j \in DOMAIN K
      BY <1>1
    <3> QED BY <3>1 DEF Sub
  <2> QED BY <2>3, <2>4, <2>5
<1>4. /\ g \in CompSet /\ g.locals = Sub(K, n, new) /\ g.upvalues = comp.upvalues
      /\ g.loops = comp.loops /\ g.scope_depth = comp.scope_depth
  BY <1>1, <1>3 DEF CompOK, CompSet, Sub
<1> DEFINE L == g.locals
<1>5. /\ L # <<>> /\ Len(L) = n /\ DOMAIN L = 1 .. n /\ L[n] = new /\ Last(L) = new
      /\ \A i \in 1 .. n : i # n => L[i] = K[i]
  BY <1>1, <1>3, <1>4 DEF Last
<1> HIDE DEF new, L
<1>6. /\ \A i \in 1 .. n : i # n => K[i].depth \in Nat
      /\ \A i \in 1 .. n : i # n /\ K[i].name = K[n].name => K[i].depth < comp.scope_depth
      /\ comp.loops # <<>> => Last(comp.loops).scope_depth < comp.scope_depth
  <2>1. n \in DOMAIN K /\ \A i \in 1 .. n : i # n => i < n /\ i \in 1 .. n - 1
    BY <1>1
  <2>2. ASSUME NEW i \in 1 .. n, i # n PROVE K[i].depth \in Nat
    <3>1. K[i].depth # UNINITIALIZED
      BY <2>1, <2>2, <1>1 DEF Sorted
    <3> QED BY <3>1, <1>1
  <2>3. DeclaringOK(comp)
    BY DEF CompOK
  <2>4. \A i \in 1 .. n : i # n /\ K[i].name = K[n].name => K[i].depth < comp.scope_depth
    BY <2>1, <2>3, <1>1 DEF DeclaringOK, Last
  <2>5. comp.loops # <<>> => Last(comp.loops).scope_depth < comp.scope_depth
    BY <2>3, <1>1 DEF DeclaringOK
  <2> QED BY <2>2, <2>4, <2>5
<1>7. n > 1
  BY <1>1 DEF CompOK, UNINITIALIZED
<1>8. Sorted(L)
  <2> SUFFICES ASSUME NEW i \in 1 .. n, NEW j \in 1 .. n, i < j
               PROVE  /\ L[i].depth # UNINITIALIZED
                      /\ L[j].depth # UNINITIALIZED =>
                           /\ L[i].depth <= L[j].depth
                           /\ L[i].name = L[j].name => L[i].depth < L[j].depth
    BY <1>5 DEF Sorted
  <2>1. i # n /\ L[i] = K[i] /\ K[i].depth \in Nat /\ K[i].depth # UNINITIALIZED
    BY <1>1, <1>5, <1>6 DEF UNINITIALIZED
  <2>2. CASE j = n
    BY <2>1, <2>2, <1>1, <1>2, <1>5, <1>6
  <2>3. CASE j # n
    BY <2>1, <2>3, <1>1, <1>5 DEF Sorted
  <2> QED BY <2>2, <2>3
<1>9. \A i \in DOMAIN L : L[i].depth <= g.scope_depth
  <2> SUFFICES ASSUME NEW i \in 1 .. n PROVE L[i].depth <= g.scope_depth
    BY <1>5
  <2>1. CASE i = n
    BY <2>1, <1>1, <1>2, <1>4, <1>5
  <2>2. CASE i # n
    BY <2>2, <1>1, <1>4, <1>5
  <2> QED BY <2>1, <2>2
<1>10. LoopsOK(g)
  <2>1. ASSUME NEW k \in DOMAIN comp.loops PROVE LoopOK(comp.loops[k], L)
    <3> DEFINE loop == comp.loops[k]
    <3>1. /\ LoopOK(loop, K) /\ loop.scope_depth < comp.scope_depth /\ loop.scope_depth \in Nat
          /\ loop.since \in Nat
      <4>1. comp.loops # <<>> /\ loop.scope_depth \in Nat /\ loop.since \in Nat
        BY CompIs
      <4>2. loop.scope_depth <= Last(comp.loops).scope_depth /\ Last(comp.loops).scope_depth \in Nat
        BY <4>1, LoopsAre
      <4>3. LoopOK(loop, K)
        BY DEF CompOK, LoopsOK
      <4> QED BY <4>1, <4>2, <4>3, <1>1, <1>6
    <3> HIDE DEF loop
    <3>2. loop.since <= n /\ ~(n <= loop.since)
      <4>1. n \in DOMAIN K /\ K[n].depth \notin 0 .. loop.scope_depth
        BY <1>1, <3>1 DEF UNINITIALIZED
      <4> QED BY <4>1, <3>1 DEF LoopOK
    <3>3. ASSUME NEW i \in 1 .. n
          PROVE  IF i <= loop.since THEN L[i].depth \in 0 .. loop.scope_depth
                 ELSE L[i].depth = UNINITIALIZED \/ L[i].depth > loop.scope_depth
      <4>1. CASE i = n
        BY <4>1, <3>1, <3>2, <1>1, <1>2, <1>5
      <4>2. CASE i # n
        <5>1. L[i] = K[i] /\ i \in DOMAIN K
          BY <4>2, <1>1, <1>5
        <5>2. IF i <= loop.since THEN K[i].depth \in 0 .. loop.scope_depth
              ELSE K[i].depth = UNINITIALIZED \/ K[i].depth > loop.scope_depth
          BY <5>1, <3>1 DEF LoopOK
        <5> QED BY <5>1, <5>2
      <4> QED BY <4>1, <4>2
    <3>4. LoopOK(loop, L)
      BY <3>2, <3>3, <1>1, <1>5, <3>1 DEF LoopOK
    <3> QED BY <3>4 DEF loop
  <2> QED BY <2>1, <1>4 DEF LoopsOK, CompOK, L
<1>11. DeclaringOK(g)
  <2>1. Last(L).depth # UNINITIALIZED
    BY <1>5, <1>2, <1>1 DEF UNINITIALIZED
  <2> QED BY <2>1 DEF DeclaringOK, L
<1>12. L[1].depth = 0
  BY <1>1, <1>5, <1>7 DEF CompOK
<1>13. CompOK(g)
  BY <1>4, <1>5, <1>8, <1>9, <1>10, <1>11, <1>12 DEF CompOK, L
<1>14. \A j \in 1 .. n - 1 : j \in 1 .. n /\ j # n
  BY <1>1
<1>15. /\ \A j \in 1 .. n - 1 : L[j] = K[j]
       /\ \A j \in 1 .. n - 1 : K[j].depth \in Nat
  BY <1>14, <1>5, <1>6
<1> QED BY <1>4, <1>5, <1>13, <1>15 DEF L, new

LEMMA StartLoopComp ==
  ASSUME NEW comp, CompOK(comp), Last(comp.locals).depth # UNINITIALIZED,
         NEW g, g = [comp EXCEPT !.loops = Append(@,
                       [scope_depth |-> comp.scope_depth, since |-> Len(comp.locals)])]
  PROVE  /\ CompOK(g) /\ g.upvalues = comp.upvalues /\ g.scope_depth = comp.scope_depth
         /\ g.locals = comp.locals
<1> DEFINE K == comp.locals
           n == Len(comp.locals)
           m == Len(comp.loops)
           new == [scope_depth |-> comp.scope_depth, since |-> n]
<1>1. /\ n \in Nat /\ DOMAIN K = 1 .. n /\ comp.scope_depth \in Nat
      /\ \A j \in 1 .. n : K[j].depth \in Nat /\ K[j].depth <= comp.scope_depth
      /\ comp.loops \in Seq(LoopSet) /\ m \in Nat /\ DOMAIN comp.loops = 1 .. m
  BY CompIs, AllInitialized
<1>2. new \in LoopSet /\ new.scope_depth = comp.scope_depth /\ new.since = n
  BY <1>1 DEF LoopSet
<1>3. /\ Append(comp.loops, new) \in Seq(LoopSet)
      /\ DOMAIN Append(comp.loops, new) = 1 .. m + 1
      /\ Append(comp.loops, new)[m + 1] = new
      /\ \A k \in 1 .. m : Append(comp.loops, new)[k] = comp.loops[k]
  <2> HIDE DEF new
  <2> QED BY <1>1, <1>2, Appended
<1>4. /\ g \in CompSet /\ g.locals = K /\ g.upvalues = comp.upvalues
      /\ g.loops = Append(comp.loops, new) /\ g.scope_depth = comp.scope_depth
  BY <1>1, <1>3 DEF CompOK, CompSet
<1> HIDE DEF new, K
<1>5. LoopOK(new, K)
  BY <1>1, <1>2 DEF LoopOK, K
<1>6. LoopsOK(comp) /\ \A k \in 1 .. m : comp.loops[k].scope_depth \in Nat
  BY CompIs DEF CompOK
<1>7. LoopsOK(g)
  <2> DEFINE loops == g.loops
  <2>1. /\ DOMAIN loops = 1 .. m + 1 /\ loops[m + 1] = new
        /\ \A k \in 1 .. m : loops[k] = comp.loops[k]
    BY <1>3, <1>4
  <2> HIDE DEF loops
  <2>2. \A k \in 1 .. m + 1 : k = m + 1 \/ k \in 1 .. m
    BY <1>1
  <2>3. \A k \in 1 .. m + 1 : loops[k].scope_depth <= comp.scope_depth /\ LoopOK(loops[k], K)
    BY <2>1, <2>2, <1>1, <1>2, <1>5, <1>6 DEF LoopsOK, K
  <2>4. \A j, k \in 1 .. m + 1 : j < k => loops[j].scope_depth <= loops[k].scope_depth
    <3> SUFFICES ASSUME NEW j \in 1 .. m + 1, NEW k \in 1 .. m + 1, j < k
                 PROVE  loops[j].scope_depth <= loops[k].scope_depth
      OBVIOUS
    <3>1. j \in 1 .. m
      BY <1>1
    <3>2. CASE k = m + 1
      BY <3>1, <3>2, <2>1, <2>3, <1>2
    <3>3. CASE k \in 1 .. m
      BY <3>1, <3>3, <2>1, <1>1, <1>6 DEF LoopsOK
    <3> QED BY <3>2, <3>3, <2>2
  <2> QED BY <2>1, <2>3, <2>4, <1>4 DEF LoopsOK, loops
<1>8. DeclaringOK(g)
  BY <1>4 DEF DeclaringOK, K
<1>9. CompOK(g)
  BY <1>4, <1>7, <1>8 DEF CompOK, K
<1> QED BY <1>4, <1>9 DEF K

LEMMA EndLoopComp ==
  ASSUME NEW comp, CompOK(comp), Last(comp.locals).depth # UNINITIALIZED, comp.loops # <<>>,
         NEW g, g = [comp EXCEPT !.loops = Cut(@, 1)]
  PROVE  /\ CompOK(g) /\ g.upvalues = comp.upvalues /\ g.scope_depth = comp.scope_depth
         /\ g.locals = comp.locals
<1> DEFINE m == Len(comp.loops)
           loops == Cut(comp.loops, 1)
<1>1. m \in Nat /\ m > 0 /\ DOMAIN comp.loops = 1 .. m /\ comp.loops \in Seq(LoopSet)
  BY CompIs, LoopsAre
<1>2. /\ loops \in Seq(LoopSet) /\ DOMAIN loops = 1 .. m - 1
      /\ \A k \in 1 .. m - 1 : loops[k] = comp.loops[k]
  <2>1. m - 1 \in Nat /\ m - 1 <= m
    BY <1>1
  <2> QED BY <2>1, <1>1, CutTo DEF Cut
<1> HIDE DEF loops
<1>3. /\ g \in CompSet /\ g.locals = comp.locals /\ g.upvalues = comp.upvalues
      /\ g.loops = loops /\ g.scope_depth = comp.scope_depth
  BY <1>1, <1>2 DEF CompOK, CompSet, loops
<1>4. LoopsOK(g)
  <2>1. \A k \in 1 .. m - 1 : k \in DOMAIN comp.loops
    BY <1>1
  <2> QED BY <2>1, <1>2, <1>3 DEF LoopsOK, CompOK
<1>5. DeclaringOK(g)
  BY <1>3 DEF DeclaringOK
<1>6. CompOK(g)
  BY <1>3, <1>4, <1>5 DEF CompOK
<1> QED BY <1>3, <1>6

(* What else is known of the locals does not matter.                       *)
LEMMA SameShape ==
  ASSUME NEW comp, CompOK(comp), NEW g \in CompSet,
         g.scope_depth = comp.scope_depth, g.loops = comp.loops,
         DOMAIN g.locals = DOMAIN comp.locals,
         \A i \in DOMAIN comp.locals :
           g.locals[i].name = comp.locals[i].name /\ g.locals[i].depth = comp.locals[i].depth
  PROVE  CompOK(g)
<1> DEFINE K == comp.locals
           L == g.locals
           n == Len(K)
<1>1. n \in Nat /\ n > 0 /\ DOMAIN K = 1 .. n
  BY CompIs
<1>2. L \in Seq(LocalSet) /\ DOMAIN L = 1 .. Len(L) /\ Len(L) \in Nat
  BY SeqIs DEF CompSet
<1>3. Len(L) = n
  BY <1>1, <1>2
<1>4. L # <<>> /\ Last(L).name = Last(K).name /\ Last(L).depth = Last(K).depth
  BY <1>1, <1>2, <1>3 DEF Last
<1> HIDE DEF K, L
<1>5. Sorted(L)
  BY DEF CompOK, Sorted, K, L
<1>6. \A loop : LoopOK(loop, K) => LoopOK(loop, L)
  BY <1>1, <1>3 DEF LoopOK, K, L
<1>7. LoopsOK(g)
  BY <1>6 DEF CompOK, LoopsOK, K, L
<1>8. DeclaringOK(g)
  <2>1. \A i \in 1 .. n - 1 : i \in DOMAIN K
    BY <1>1
  <2> QED BY <2>1, <1>3, <1>4 DEF CompOK, DeclaringOK, K, L
<1>9. L[1].depth = 0 /\ \A i \in DOMAIN L : L[i].depth <= g.scope_depth
  BY <1>1 DEF CompOK, K, L
<1> QED BY <1>4, <1>5, <1>7, <1>8, <1>9 DEF CompOK, L

(* The locals L are the locals K, some more of them captured: local i.     *)
SameLocals(K, L) ==
  /\ DOMAIN L = DOMAIN K
  /\ \A j \in DOMAIN K : L[j].name = K[j].name /\ L[j].depth = K[j].depth /\ L[j].decl = K[j].decl

NowCaptured(K, L, i) ==
  \A j \in DOMAIN K : (L[j].is_captured = TRUE) <=> (j = i \/ K[j].is_captured = TRUE)


LEMMA CaptureComp ==
  ASSUME NEW comp, CompOK(comp), NEW i \in DOMAIN comp.locals,
         NEW g, g = MarkCaptured(comp, i)
  PROVE  /\ CompOK(g) /\ g.upvalues = comp.upvalues /\ g.scope_depth = comp.scope_depth
         /\ SameLocals(comp.locals, g.locals) /\ NowCaptured(comp.locals, g.locals, i)
<1> DEFINE K == comp.locals
           n == Len(K)
           new == [K[i] EXCEPT !.is_captured = TRUE]
<1>1. n \in Nat /\ DOMAIN K = 1 .. n /\ K \in Seq(LocalSet) /\ K[i] \in LocalSet /\ i \in 1 .. n
  BY CompIs
<1>2. /\ new \in LocalSet /\ new.name = K[i].name /\ new.depth = K[i].depth
      /\ new.decl = K[i].decl /\ new.is_captured = TRUE
  BY <1>1 DEF LocalSet
<1>3. Sub(K, i, new) \in Seq(LocalSet) /\ DOMAIN Sub(K, i, new) = 1 .. n
  <2> HIDE DEF new, K
  <2> QED BY <1>1, <1>2, Replaced
<1>4. /\ Sub(K, i, new)[i] = new
      /\ \A j \in DOMAIN K : j # i => Sub(K, i, new)[j] = K[j]
  BY DEF Sub
<1>5. /\ g \in CompSet /\ g.locals = Sub(K, i, new) /\ g.upvalues = comp.upvalues
      /\ g.loops = comp.loops /\ g.scope_depth = comp.scope_depth
  BY <1>1, <1>3 DEF CompOK, CompSet, Sub, MarkCaptured
<1> DEFINE L == g.locals
<1> HIDE DEF new, K, L
<1>6. /\ DOMAIN L = DOMAIN K
      /\ \A j \in DOMAIN K :
           /\ L[j].name = K[j].name /\ L[j].depth = K[j].depth /\ L[j].decl = K[j].decl
           /\ (L[j].is_captured = TRUE) <=> (j = i \/ K[j].is_captured = TRUE)
  BY <1>1, <1>2, <1>3, <1>4, <1>5 DEF L
<1>7. CompOK(g)
  BY <1>5, <1>6, SameShape DEF K, L
<1>8. SameLocals(K, L) /\ NowCaptured(K, L, i)
  BY <1>6 DEF SameLocals, NowCaptured
<1> QED BY <1>5, <1>7, <1>8 DEF K, L

LEMMA PassComp ==
  ASSUME NEW comp, CompOK(comp), NEW e \in UpvalueSet,
         NEW g, g = [comp EXCEPT !.upvalues = Append(@, e)]
  PROVE  /\ CompOK(g) /\ g.scope_depth = comp.scope_depth /\ g.locals = comp.locals
         /\ DOMAIN g.upvalues = 1 .. Len(comp.upvalues) + 1
         /\ g.upvalues[Len(comp.upvalues) + 1] = e
         /\ \A k \in 1 .. Len(comp.upvalues) : g.upvalues[k] = comp.upvalues[k]
<1> DEFINE ups == Append(comp.upvalues, e)
<1>1. comp.upvalues \in Seq(UpvalueSet)
  BY CompIs
<1>2. /\ ups \in Seq(UpvalueSet) /\ DOMAIN ups = 1 .. Len(comp.upvalues) + 1
      /\ ups[Len(comp.upvalues) + 1] = e
      /\ \A k \in 1 .. Len(comp.upvalues) : ups[k] = comp.upvalues[k]
  BY <1>1, Appended
<1> HIDE DEF ups
<1>3. /\ g \in CompSet /\ g.locals = comp.locals /\ g.upvalues = ups
      /\ g.loops = comp.loops /\ g.scope_depth = comp.scope_depth
  BY <1>2 DEF CompOK, CompSet, ups
<1>4. CompOK(g)
  BY <1>3, SameShape
<1> QED BY <1>2, <1>3, <1>4

(* Parameters and new declarations are sequences without repetition.       *)
LEMMA ParamsAre ==
  ASSUME NEW params \in Params
  PROVE  /\ params \in Seq(Name) /\ Len(params) \in Nat /\ DOMAIN params = 1 .. Len(params)
         /\ \A p \in 1 .. Len(params) : params[p] \in Name
         /\ \A p, q \in 1 .. Len(params) : params[p] = params[q] => p = q
<1>1. PICK n \in 0 .. MaxParams : params \in [1 .. n -> Name]
  BY DEF Params
<1>2. params \in Seq(Name)
  BY <1>1, ScopeAssumption, SeqDef
<1>3. Len(params) \in Nat /\ DOMAIN params = 1 .. Len(params)
      /\ \A p \in 1 .. Len(params) : params[p] \in Name
  BY <1>2, SeqIs
<1> QED BY <1>2, <1>3 DEF Params

LEMMA NewDeclsAre ==
  ASSUME NEW n \in Nat, NEW new \in NewDecls(n)
  PROVE  /\ new \in Seq(Decl) /\ Len(new) = n
         /\ \A p \in 1 .. n : new[p] \in Decl /\ new[p] \notin UsedDecls
         /\ \A p, q \in 1 .. n : new[p] = new[q] => p = q
<1>1. /\ new \in [1 .. n -> Decl \ UsedDecls]
      /\ \A p, q \in 1 .. n : new[p] = new[q] => p = q
  BY DEF NewDecls
<1>2. new \in [1 .. n -> Decl]
  BY <1>1
<1> QED BY <1>1, <1>2, ListIs

Slot0(type) == IF type = "function" THEN anon ELSE self
Arguments(params, new) == [p \in DOMAIN params |-> Local(params[p], 1, new[p + 1])]
Callee(type, params, new) ==
  [NewCompiler(type, new[1]) EXCEPT !.scope_depth = 1, !.locals = @ \o Arguments(params, new)]

LEMMA FunctionComp ==
  ASSUME NEW type \in {"function", "method"}, NEW params \in Params, NEW new,
         \A p \in 1 .. Len(params) + 1 : new[p] \in Decl,
         NEW g, g = Callee(type, params, new)
  PROVE  /\ CompOK(g) /\ g.upvalues = <<>> /\ g.scope_depth = 1
         /\ DOMAIN g.locals = 1 .. Len(params) + 1
         /\ g.locals[1] = Local(Slot0(type), 0, new[1])
         /\ \A p \in 1 .. Len(params) : g.locals[p + 1] = Local(params[p], 1, new[p + 1])
<1> DEFINE n == Len(params)
           zero == Local(Slot0(type), 0, new[1])
           args == Arguments(params, new)
           L == <<zero>> \o args
<1>1. /\ n \in Nat /\ DOMAIN params = 1 .. n /\ \A p \in 1 .. n : params[p] \in Name
      /\ \A p, q \in 1 .. n : params[p] = params[q] => p = q
  BY ParamsAre
<1>2. zero \in LocalSet /\ zero.depth = 0
  <2>1. 1 \in 1 .. n + 1
    BY <1>1
  <2>2. new[1] \in Decl
    BY <2>1
  <2> QED BY <2>2 DEF Local, LocalSet, Slot0, Names
<1>3. /\ args \in Seq(LocalSet) /\ Len(args) = n /\ DOMAIN args = 1 .. n
      /\ \A p \in 1 .. n : args[p] = Local(params[p], 1, new[p + 1])
  <2>1. \A p \in 1 .. n : p + 1 \in 1 .. n + 1
    BY <1>1
  <2>2. \A p \in 1 .. n : Local(params[p], 1, new[p + 1]) \in LocalSet
    BY <2>1, <1>1 DEF Local, LocalSet, Names
  <2>3. args \in [1 .. n -> LocalSet]
    BY <2>2, <1>1 DEF Arguments
  <2>4. args \in Seq(LocalSet) /\ Len(args) = n /\ DOMAIN args = 1 .. n
    <3> HIDE DEF args
    <3> QED BY <2>3, <1>1, ListIs
  <2> QED BY <2>4, <1>1 DEF Arguments
<1> HIDE DEF zero, args
<1>4. <<zero>> \in Seq(LocalSet) /\ Len(<<zero>>) = 1 /\ <<zero>>[1] = zero
  BY <1>2
<1>5. /\ L \in Seq(LocalSet) /\ Len(L) = 1 + n
      /\ \A i \in 1 .. 1 + n : L[i] = IF i <= 1 THEN <<zero>>[i] ELSE args[i - 1]
  BY <1>3, <1>4, ConcatProperties
<1>6. DOMAIN L = 1 .. n + 1
  BY <1>1, <1>5, LenProperties
<1>7. L[1] = zero /\ \A p \in 1 .. n : L[p + 1] = args[p]
  <2>1. 1 \in 1 .. 1 + n /\ \A p \in 1 .. n : p + 1 \in 1 .. 1 + n /\ ~(p + 1 <= 1) /\ p + 1 - 1 = p
    BY <1>1
  <2> QED BY <2>1, <1>4, <1>5
<1>8. /\ g \in CompSet /\ g.locals = L /\ g.upvalues = <<>> /\ g.loops = <<>> /\ g.scope_depth = 1
  <2>1. /\ NewCompiler(type, new[1]).locals = <<zero>>
        /\ NewCompiler(type, new[1])
             = [type |-> type, scope_depth |-> 0, loops |-> <<>>, upvalues |-> <<>>, locals |-> <<zero>>]
    BY DEF NewCompiler, zero, Slot0
  <2>2. g = [type |-> type, scope_depth |-> 1, loops |-> <<>>, upvalues |-> <<>>, locals |-> L]
    <3> DEFINE base == NewCompiler(type, new[1])
    <3>1. g = [base EXCEPT !.scope_depth = 1, !.locals = @ \o args]
      BY DEF Callee, args
    <3> HIDE DEF base
    <3>2. base = [type |-> type, scope_depth |-> 0, loops |-> <<>>, upvalues |-> <<>>, locals |-> <<zero>>]
      BY <2>1 DEF base
    <3> QED BY <3>1, <3>2
  <2>3. <<>> \in Seq(LoopSet) /\ <<>> \in Seq(UpvalueSet)
    OBVIOUS
  <2> HIDE DEF L
  <2> QED BY <2>2, <2>3, <1>5 DEF CompSet
<1> HIDE DEF L
<1>9. ASSUME NEW i \in 1 .. n + 1
      PROVE  i = 1 \/ (i - 1 \in 1 .. n /\ L[i] = args[i - 1] /\ L[i].depth = 1 /\ L[i].name = params[i - 1])
  <2>1. CASE i # 1
    <3>1. i - 1 \in 1 .. n /\ (i - 1) + 1 = i
      BY <2>1, <1>1
    <3>2. L[i] = args[i - 1]
      BY <3>1, <1>7
    <3> QED BY <3>1, <3>2, <1>3 DEF Local
  <2> QED BY <2>1
<1>10. L # <<>> /\ Len(L) = n + 1 /\ L[1].depth = 0 /\ L[1] = zero /\ 1 \in 1 .. n + 1
  BY <1>1, <1>2, <1>5, <1>7
<1>11. Sorted(L)
  <2> SUFFICES ASSUME NEW i \in 1 .. n + 1, NEW j \in 1 .. n + 1, i < j
               PROVE  /\ L[i].depth # UNINITIALIZED
                      /\ L[j].depth # UNINITIALIZED =>
                           /\ L[i].depth <= L[j].depth
                           /\ L[i].name = L[j].name => L[i].depth < L[j].depth
    BY <1>6 DEF Sorted
  <2>1. j # 1
    BY <1>1
  <2>2. j - 1 \in 1 .. n /\ L[j].depth = 1 /\ L[j].name = params[j - 1]
    BY <2>1, <1>9
  <2>3. CASE i = 1
    BY <2>2, <2>3, <1>10 DEF UNINITIALIZED
  <2>4. CASE i # 1
    <3>1. i - 1 \in 1 .. n /\ L[i].depth = 1 /\ L[i].name = params[i - 1]
      BY <2>4, <1>9
    <3>2. i - 1 # j - 1
      BY <1>1
    <3>3. L[i].name # L[j].name
      BY <3>1, <3>2, <2>2, <1>1
    <3> QED BY <3>1, <3>3, <2>2 DEF UNINITIALIZED
  <2> QED BY <2>3, <2>4
<1>12. \A i \in 1 .. n + 1 : L[i].depth <= 1 /\ L[i].depth # UNINITIALIZED
  BY <1>9, <1>10 DEF UNINITIALIZED
<1>13. Last(L).depth # UNINITIALIZED
  BY <1>1, <1>10, <1>12 DEF Last
<1>14. LoopsOK(g) /\ DeclaringOK(g)
  <2>1. DOMAIN g.loops = {}
    BY <1>8
  <2> QED BY <2>1, <1>8, <1>13 DEF LoopsOK, DeclaringOK
<1>15. CompOK(g)
  BY <1>6, <1>8, <1>10, <1>11, <1>12, <1>14 DEF CompOK
<1> QED BY <1>3, <1>6, <1>7, <1>8, <1>15 DEF zero
-----------------------------------------------------------------------------
(* The chain of compilers.                                                 *)

LEMMA ChainIs ==
  ASSUME NEW cs, NEW tk, Chained(cs, tk)
  PROVE  /\ cs \in Seq(CompSet) /\ Len(cs) \in Nat /\ Len(cs) > 0 /\ DOMAIN cs = 1 .. Len(cs)
         /\ Last(cs) = cs[Len(cs)] /\ CompOK(Last(cs)) /\ Last(cs) \in CompSet
         /\ \A n \in 1 .. Len(cs) : CompOK(cs[n]) /\ cs[n] \in CompSet
<1>1. cs \in Seq(CompSet) /\ cs # <<>> /\ \A n \in DOMAIN cs : CompOK(cs[n])
  BY DEF Chained
<1>2. Len(cs) \in Nat /\ Len(cs) > 0 /\ DOMAIN cs = 1 .. Len(cs)
      /\ \A n \in 1 .. Len(cs) : cs[n] \in CompSet
  BY <1>1, SeqIs
<1>3. Len(cs) \in 1 .. Len(cs)
  BY <1>2
<1> QED BY <1>1, <1>2, <1>3 DEF Last

LEMMA UsedIs ==
  \A cs, d : d \in Used(cs)
    <=> \E n \in DOMAIN cs : \E i \in DOMAIN cs[n].locals : cs[n].locals[i].decl = d
BY DEF Used, DeclsOf

(* Each of the locals L is one of the innermost function's, or it is new   *)
(* and on top; and the compilers ds are those with comp as the innermost.  *)
Follow(cs, L) ==
  \A i \in DOMAIN L :
    \/ /\ i \in DOMAIN Last(cs).locals
       /\ L[i].decl = Last(cs).locals[i].decl
       /\ L[i].is_captured = Last(cs).locals[i].is_captured
    \/ /\ L[i].decl \notin Used(cs) /\ L[i].is_captured = FALSE
       /\ i = Len(Last(cs).locals) + 1

Updates(cs, ds, comp) ==
  /\ Len(ds) = Len(cs) /\ Last(ds) = comp /\ DOMAIN ds = DOMAIN cs /\ ds[Len(cs)] = comp
  /\ \A n \in DOMAIN cs : n # Len(cs) => ds[n] = cs[n]

(* The innermost function loses locals at the top, or gets a new one.      *)
LEMMA ChainUpdated ==
  ASSUME NEW cs, NEW tk, Chained(cs, tk), NEW comp, CompOK(comp),
         comp.upvalues = Last(cs).upvalues, Follow(cs, comp.locals),
         NEW ds, ds = Sub(cs, Len(cs), comp), NEW tl, tl = tk \cap Used(ds)
  PROVE  Chained(ds, tl) /\ Updates(cs, ds, comp)
<1> DEFINE m == Len(cs)
<1>1. /\ cs \in Seq(CompSet) /\ m \in Nat /\ m > 0 /\ DOMAIN cs = 1 .. m /\ m \in 1 .. m
      /\ Last(cs) = cs[m] /\ CompOK(cs[m]) /\ comp \in CompSet
      /\ \A n \in 1 .. m : CompOK(cs[n])
  BY ChainIs DEF CompOK
<1>2. /\ ds \in Seq(CompSet) /\ Len(ds) = m /\ DOMAIN ds = 1 .. m
      /\ ds[m] = comp /\ \A n \in 1 .. m : n # m => ds[n] = cs[n]
  <2>1. ds \in Seq(CompSet) /\ Len(ds) = m /\ DOMAIN ds = 1 .. m
    BY <1>1, Replaced
  <2>2. ds[m] = comp /\ \A n \in 1 .. m : n # m => ds[n] = cs[n]
    BY <1>1 DEF Sub
  <2> QED BY <2>1, <2>2
<1> HIDE DEF m
<1>3. ds # <<>> /\ \A n \in DOMAIN ds : CompOK(ds[n])
  BY <1>1, <1>2
<1>4. ASSUME NEW n \in DOMAIN ds, NEW i \in DOMAIN ds[n].locals
      PROVE  \/ /\ i \in DOMAIN cs[n].locals /\ ds[n].locals[i].decl = cs[n].locals[i].decl
                /\ ds[n].locals[i].is_captured = cs[n].locals[i].is_captured
                /\ ds[n].locals[i].decl \in Used(cs)
             \/ /\ n = m /\ ds[n].locals[i].decl \notin Used(cs) /\ i = Len(cs[m].locals) + 1
                /\ ds[n].locals[i].is_captured = FALSE
  <2>1. CASE n # m
    <3>1. ds[n] = cs[n] /\ n \in DOMAIN cs
      BY <2>1, <1>1, <1>2
    <3> QED BY <3>1, UsedIs
  <2>2. CASE n = m
    <3>1. \A j \in DOMAIN cs[m].locals : cs[m].locals[j].decl \in Used(cs)
      BY <1>1, UsedIs
    <3> QED BY <2>2, <3>1, <1>1, <1>2 DEF Follow
  <2> QED BY <2>1, <2>2
<1>5. Distinct(ds)
  <2> SUFFICES ASSUME NEW k \in DOMAIN ds, NEW n \in DOMAIN ds,
                      NEW i \in DOMAIN ds[k].locals, NEW j \in DOMAIN ds[n].locals,
                      ds[k].locals[i].decl = ds[n].locals[j].decl
               PROVE  k = n /\ i = j
    BY DEF Distinct
  <2>1. k \in DOMAIN cs /\ n \in DOMAIN cs
    BY <1>1, <1>2
  <2>2. CASE ds[k].locals[i].decl \in Used(cs)
    <3>1. /\ i \in DOMAIN cs[k].locals /\ ds[k].locals[i].decl = cs[k].locals[i].decl
          /\ j \in DOMAIN cs[n].locals /\ ds[n].locals[j].decl = cs[n].locals[j].decl
      BY ZenonT(30), <2>2, <1>4
    <3>2. cs[k].locals[i].decl = cs[n].locals[j].decl /\ Distinct(cs)
      BY <3>1 DEF Chained
    <3> QED BY <2>1, <3>1, <3>2 DEF Distinct
  <2>3. CASE ds[k].locals[i].decl \notin Used(cs)
    <3>1. /\ k = m /\ i = Len(cs[m].locals) + 1
      BY <2>3, <1>4
    <3>2. /\ n = m /\ j = Len(cs[m].locals) + 1
      BY <2>3, <1>4
    <3> QED BY <3>1, <3>2
  <2> QED BY <2>2, <2>3
<1>6. \A n \in DOMAIN ds : ds[n].upvalues = cs[n].upvalues
  BY <1>1, <1>2
<1>7. UpvaluesOK(ds)
  <2> SUFFICES ASSUME NEW n \in DOMAIN ds
               PROVE  /\ \A k \in DOMAIN ds[n].upvalues : Resolved(ds, n, ds[n].upvalues[k])
                      /\ \A k, l \in DOMAIN ds[n].upvalues :
                           ds[n].upvalues[k].decl = ds[n].upvalues[l].decl => k = l
    BY DEF UpvaluesOK
  <2>1. ds[n].upvalues = cs[n].upvalues /\ n \in DOMAIN cs
    BY <1>1, <1>2, <1>6
  <2>2. ASSUME NEW u, Resolved(cs, n, u) PROVE Resolved(ds, n, u)
    <3>1. \A p \in 1 .. n - 1 : p \in 1 .. m /\ p # m /\ ds[p] = cs[p]
      BY <1>1, <1>2
    <3>2. n > 1 /\ n - 1 \in 1 .. n - 1
      BY <2>2, <1>1, <1>2 DEF Resolved
    <3>3. ds[n - 1] = cs[n - 1]
      BY <3>1, <3>2
    <3> QED BY <2>2, <3>1, <3>2, <3>3 DEF Resolved
  <2> QED BY <2>1, <2>2 DEF Chained, UpvaluesOK
<1>8. CapturedOK(ds, tl)
  <2> SUFFICES ASSUME NEW n \in DOMAIN ds, NEW i \in DOMAIN ds[n].locals
               PROVE  (ds[n].locals[i].is_captured = TRUE)
                        <=> (ds[n].locals[i].decl \in tl \/ Captures(ds, n, i))
    BY DEF CapturedOK
  <2>1. ds[n].locals[i].decl \in Used(ds)
    BY UsedIs
  <2>2. Captures(ds, n, i) <=> Captures(cs, n, i)
    <3>1. CASE n < m
      <4>1. n + 1 \in DOMAIN ds
        BY <3>1, <1>1, <1>2
      <4>2. ds[n + 1].upvalues = cs[n + 1].upvalues
        BY <4>1, <1>6
      <4> QED BY <4>2, <1>2 DEF Captures, m
    <3>2. CASE ~(n < m)
      BY <3>2, <1>2 DEF Captures, m
    <3> QED BY <3>1, <3>2
  <2>3. CASE ds[n].locals[i].decl \in Used(cs)
    <3>1. /\ i \in DOMAIN cs[n].locals /\ ds[n].locals[i].decl = cs[n].locals[i].decl
          /\ ds[n].locals[i].is_captured = cs[n].locals[i].is_captured /\ n \in DOMAIN cs
      BY <2>3, <1>1, <1>2, <1>4
    <3>2. (cs[n].locals[i].is_captured = TRUE)
            <=> (cs[n].locals[i].decl \in tk \/ Captures(cs, n, i))
      BY <3>1 DEF Chained, CapturedOK
    <3> QED BY <2>1, <2>2, <3>1, <3>2
  <2>4. CASE ds[n].locals[i].decl \notin Used(cs)
    <3>1. n = m /\ ds[n].locals[i].is_captured = FALSE
      BY <2>4, <1>4
    <3>2. ~Captures(ds, n, i)
      BY <3>1, <1>1, <1>2 DEF Captures
    <3>3. ds[n].locals[i].decl \notin tk
      BY <2>4 DEF Chained
    <3> QED BY <3>1, <3>2, <3>3
  <2> QED BY <2>3, <2>4
<1>9. Chained(ds, tl)
  BY <1>2, <1>3, <1>5, <1>7, <1>8 DEF Chained
<1> QED BY <1>1, <1>2, <1>9 DEF Updates, Last, m

(* None of the locals L is in use.                                         *)
Fresh(cs, L) ==
  /\ \A i \in DOMAIN L : L[i].decl \notin Used(cs) /\ L[i].is_captured = FALSE
  /\ \A i, j \in DOMAIN L : L[i].decl = L[j].decl => i = j

(* A compiler is appended.                                                 *)
Calls(cs, ds, comp) ==
  /\ DOMAIN ds = 1 .. Len(cs) + 1 /\ ds[Len(cs) + 1] = comp
  /\ \A n \in DOMAIN cs : ds[n] = cs[n]

(* A function begins: a compiler with declarations of its own.             *)
LEMMA ChainCalled ==
  ASSUME NEW cs, NEW tk, Chained(cs, tk), NEW comp, CompOK(comp), comp.upvalues = <<>>,
         Fresh(cs, comp.locals), NEW ds, ds = Append(cs, comp)
  PROVE  Chained(ds, tk) /\ Calls(cs, ds, comp)
<1> USE DEF Fresh
<1> DEFINE m == Len(cs) + 1
<1>1. /\ cs \in Seq(CompSet) /\ m \in Nat /\ m > 1 /\ DOMAIN cs = 1 .. m - 1 /\ m - 1 = Len(cs)
      /\ comp \in CompSet /\ \A n \in 1 .. m - 1 : CompOK(cs[n])
  BY ChainIs DEF CompOK
<1>2. /\ ds \in Seq(CompSet) /\ Len(ds) = m /\ DOMAIN ds = 1 .. m /\ Last(ds) = comp
      /\ ds[m] = comp /\ \A n \in 1 .. m - 1 : ds[n] = cs[n]
  <2>1. /\ ds \in Seq(CompSet) /\ Len(ds) = m /\ DOMAIN ds = 1 .. m /\ Last(ds) = comp
    BY <1>1, Appended
  <2>2. ds[m] = comp
    BY <1>1, Appended
  <2>3. \A n \in 1 .. m - 1 : ds[n] = cs[n]
    BY <1>1, Appended
  <2> QED BY <2>1, <2>2, <2>3
<1> HIDE DEF m
<1>3. \A n \in 1 .. m : n = m \/ n \in 1 .. m - 1
  BY <1>1
<1>4. ds # <<>> /\ \A n \in DOMAIN ds : CompOK(ds[n])
  BY <1>1, <1>2, <1>3
<1>5. ASSUME NEW n \in 1 .. m - 1, NEW i \in DOMAIN cs[n].locals
      PROVE  cs[n].locals[i].decl \in Used(cs)
  BY <1>1, UsedIs
<1>6. Distinct(ds)
  <2> SUFFICES ASSUME NEW k \in DOMAIN ds, NEW n \in DOMAIN ds,
                      NEW i \in DOMAIN ds[k].locals, NEW j \in DOMAIN ds[n].locals,
                      ds[k].locals[i].decl = ds[n].locals[j].decl
               PROVE  k = n /\ i = j
    BY DEF Distinct
  <2>1. CASE k = m /\ n = m
    BY <2>1, <1>2
  <2>2. CASE k = m /\ n # m
    BY <2>2, <1>2, <1>3, <1>5
  <2>3. CASE k # m /\ n = m
    BY <2>3, <1>2, <1>3, <1>5
  <2>4. CASE k # m /\ n # m
    <3>1. /\ k \in DOMAIN cs /\ n \in DOMAIN cs /\ ds[k] = cs[k] /\ ds[n] = cs[n]
      BY <2>4, <1>1, <1>2, <1>3
    <3>2. Distinct(cs)
      BY DEF Chained
    <3> QED BY <3>1, <3>2 DEF Distinct
  <2> QED BY <2>1, <2>2, <2>3, <2>4
<1>7. UpvaluesOK(ds)
  <2> SUFFICES ASSUME NEW n \in DOMAIN ds
               PROVE  /\ \A k \in DOMAIN ds[n].upvalues : Resolved(ds, n, ds[n].upvalues[k])
                      /\ \A k, l \in DOMAIN ds[n].upvalues :
                           ds[n].upvalues[k].decl = ds[n].upvalues[l].decl => k = l
    BY DEF UpvaluesOK
  <2>1. CASE n = m
    <3>1. DOMAIN ds[n].upvalues = {}
      BY <2>1, <1>2
    <3> QED BY <3>1
  <2>2. CASE n # m
    <3>1. n \in DOMAIN cs /\ ds[n] = cs[n]
      BY <2>2, <1>1, <1>2, <1>3
    <3>2. ASSUME NEW u, Resolved(cs, n, u) PROVE Resolved(ds, n, u)
      <4>1. \A p \in 1 .. n - 1 : p \in 1 .. m - 1 /\ ds[p] = cs[p]
        BY <3>1, <1>1, <1>2
      <4>2. n > 1 /\ n - 1 \in 1 .. n - 1
        BY <3>1, <3>2, <1>1 DEF Resolved
      <4>3. ds[n - 1] = cs[n - 1]
        BY <4>1, <4>2
      <4> QED BY <3>2, <4>1, <4>2, <4>3 DEF Resolved
    <3> QED BY <3>1, <3>2 DEF Chained, UpvaluesOK
  <2> QED BY <2>1, <2>2
<1>8. CapturedOK(ds, tk)
  <2> SUFFICES ASSUME NEW n \in DOMAIN ds, NEW i \in DOMAIN ds[n].locals
               PROVE  (ds[n].locals[i].is_captured = TRUE)
                        <=> (ds[n].locals[i].decl \in tk \/ Captures(ds, n, i))
    BY DEF CapturedOK
  <2>1. CASE n = m
    <3>1. ds[n].locals[i].is_captured = FALSE /\ ds[n].locals[i].decl \notin tk
      BY <2>1, <1>2 DEF Chained
    <3>2. ~Captures(ds, n, i)
      BY <2>1, <1>1, <1>2 DEF Captures
    <3> QED BY <3>1, <3>2
  <2>2. CASE n # m
    <3>1. n \in DOMAIN cs /\ ds[n] = cs[n] /\ n + 1 \in 1 .. m
      BY <2>2, <1>1, <1>2, <1>3
    <3>2. Captures(ds, n, i) <=> Captures(cs, n, i)
      <4>1. CASE n + 1 = m
        <5>1. DOMAIN ds[n + 1].upvalues = {}
          BY <4>1, <1>2
        <5>2. ~(n < Len(cs))
          BY <4>1, <3>1, <1>1
        <5> QED BY <5>1, <5>2 DEF Captures
      <4>2. CASE n + 1 # m
        <5>1. ds[n + 1] = cs[n + 1] /\ n < Len(ds) /\ n < Len(cs)
          BY <4>2, <3>1, <1>1, <1>2, <1>3
        <5> QED BY <5>1 DEF Captures
      <4> QED BY <4>1, <4>2
    <3> QED BY <3>1, <3>2 DEF Chained, CapturedOK
  <2> QED BY <2>1, <2>2
<1>9. tk \subseteq Used(ds)
  <2> SUFFICES ASSUME NEW d \in tk PROVE d \in Used(ds)
    OBVIOUS
  <2>1. PICK n \in DOMAIN cs : \E i \in DOMAIN cs[n].locals : cs[n].locals[i].decl = d
    BY UsedIs DEF Chained
  <2>2. n \in DOMAIN ds /\ ds[n] = cs[n]
    BY <1>1, <1>2
  <2>3. PICK i \in DOMAIN cs[n].locals : cs[n].locals[i].decl = d
    BY <2>1
  <2>4. i \in DOMAIN ds[n].locals /\ ds[n].locals[i].decl = d
    BY <2>2, <2>3
  <2> QED BY <2>2, <2>4, UsedIs
<1>10. Chained(ds, tk)
  BY <1>2, <1>4, <1>6, <1>7, <1>8, <1>9 DEF Chained
<1> QED BY <1>1, <1>2, <1>10 DEF m, Calls

(* Whether an upvalue is a local is a truth value.                         *)
LEMMA UpvalueIs ==
  ASSUME NEW u \in UpvalueSet
  PROVE  u.is_local <=> OfLocal(u)
<1>1. u.is_local \in BOOLEAN
  BY DEF UpvalueSet
<1> QED BY <1>1, Zenon DEF OfLocal

TakenBy(cs, tk) ==
  (tk \ DeclsOf(Last(cs).locals))
    \cup {cs[Len(cs) - 1].locals[Last(cs).upvalues[k].index].decl
            : k \in {j \in DOMAIN Last(cs).upvalues : Last(cs).upvalues[j].is_local}}

(* A function ends: what its closure captures is taken.                    *)
LEMMA ChainReturned ==
  ASSUME NEW cs, NEW tk, Chained(cs, tk), Len(cs) > 1,
         NEW ds, ds = Cut(cs, 1), NEW tl, tl = TakenBy(cs, tk)
  PROVE  /\ Chained(ds, tl) /\ Len(ds) = Len(cs) - 1 /\ DOMAIN ds = 1 .. Len(cs) - 1
         /\ \A n \in DOMAIN ds : ds[n] = cs[n]
<1> DEFINE m == Len(cs) - 1
<1>1. /\ cs \in Seq(CompSet) /\ m \in Nat /\ m > 0 /\ DOMAIN cs = 1 .. m + 1 /\ m + 1 = Len(cs)
      /\ Last(cs) = cs[m + 1] /\ \A n \in 1 .. m + 1 : CompOK(cs[n])
      /\ m + 1 \in 1 .. m + 1 /\ \A n \in 1 .. m : n \in 1 .. m + 1
  BY ChainIs
<1>2. /\ ds \in Seq(CompSet) /\ Len(ds) = m /\ DOMAIN ds = 1 .. m
      /\ \A n \in 1 .. m : ds[n] = cs[n]
  <2>1. m \in Nat /\ m <= Len(cs)
    BY <1>1
  <2> QED BY <2>1, <1>1, CutTo DEF Cut
<1>3. Distinct(cs) /\ UpvaluesOK(cs) /\ CapturedOK(cs, tk)
  BY DEF Chained
<1> HIDE DEF m
<1>4. ds # <<>> /\ \A n \in DOMAIN ds : CompOK(ds[n])
  BY <1>1, <1>2
<1>5. Distinct(ds)
  BY <1>1, <1>2, <1>3 DEF Distinct
<1>6. UpvaluesOK(ds)
  <2> SUFFICES ASSUME NEW n \in 1 .. m
               PROVE  /\ \A k \in DOMAIN ds[n].upvalues : Resolved(ds, n, ds[n].upvalues[k])
                      /\ \A k, l \in DOMAIN ds[n].upvalues :
                           ds[n].upvalues[k].decl = ds[n].upvalues[l].decl => k = l
    BY <1>2 DEF UpvaluesOK
  <2>1. n \in DOMAIN cs /\ ds[n] = cs[n]
    BY <1>1, <1>2
  <2>2. ASSUME NEW u, Resolved(cs, n, u) PROVE Resolved(ds, n, u)
    <3>1. \A p \in 1 .. n - 1 : p \in 1 .. m /\ ds[p] = cs[p]
      BY <1>1, <1>2
    <3>2. n > 1 /\ n - 1 \in 1 .. n - 1
      BY <2>2, <1>1 DEF Resolved
    <3>3. ds[n - 1] = cs[n - 1]
      BY <3>1, <3>2
    <3> QED BY <2>2, <3>1, <3>2, <3>3 DEF Resolved
  <2> QED BY <2>1, <2>2, <1>3 DEF UpvaluesOK
<1>7. ASSUME NEW d
      PROVE  d \in tl <=> \/ d \in tk /\ \A j \in DOMAIN cs[m + 1].locals : cs[m + 1].locals[j].decl # d
                          \/ \E k \in DOMAIN cs[m + 1].upvalues :
                               /\ OfLocal(cs[m + 1].upvalues[k])
                               /\ d = cs[m].locals[cs[m + 1].upvalues[k].index].decl
  <2>1. \A k \in DOMAIN cs[m + 1].upvalues :
          cs[m + 1].upvalues[k].is_local <=> OfLocal(cs[m + 1].upvalues[k])
    BY <1>1, CompIs, UpvalueIs
  <2>2. m = Len(cs) - 1
    BY DEF m
  <2>3. tl = (tk \ DeclsOf(cs[m + 1].locals))
               \cup {cs[m].locals[cs[m + 1].upvalues[k].index].decl
                       : k \in {j \in DOMAIN cs[m + 1].upvalues : cs[m + 1].upvalues[j].is_local}}
    BY <2>2, <1>1 DEF TakenBy
  <2> QED BY <2>1, <2>3 DEF DeclsOf
<1>8. ASSUME NEW k \in DOMAIN cs[m + 1].upvalues, OfLocal(cs[m + 1].upvalues[k])
      PROVE  cs[m + 1].upvalues[k].index \in DOMAIN cs[m].locals
  <2>1. Resolved(cs, m + 1, cs[m + 1].upvalues[k])
    BY <1>1, <1>3 DEF UpvaluesOK
  <2> DEFINE u == cs[m + 1].upvalues[k]
  <2>2. m + 1 - 1 = m
    BY <1>1
  <2>3. Resolved(cs, m + 1, u) /\ OfLocal(u)
    BY <2>1, <1>8
  <2> HIDE DEF u
  <2>4. u.index \in DOMAIN cs[m + 1 - 1].locals
    BY <2>3, <1>1 DEF Resolved
  <2> QED BY <2>2, <2>4 DEF u
<1>9. CapturedOK(ds, tl)
  <2> SUFFICES ASSUME NEW n \in 1 .. m, NEW i \in DOMAIN cs[n].locals
               PROVE  (cs[n].locals[i].is_captured = TRUE)
                        <=> (cs[n].locals[i].decl \in tl \/ Captures(ds, n, i))
    BY <1>2 DEF CapturedOK
  <2>1. /\ n \in DOMAIN cs /\ n # m + 1 /\ n + 1 \in 1 .. m + 1
        /\ (n < m <=> n # m) /\ n < m + 1
    BY <1>1
  <2>2. \A j \in DOMAIN cs[m + 1].locals : cs[m + 1].locals[j].decl # cs[n].locals[i].decl
    BY <2>1, <1>1, <1>3 DEF Distinct
  <2>3. (cs[n].locals[i].is_captured = TRUE)
          <=> (cs[n].locals[i].decl \in tk \/ Captures(cs, n, i))
    BY <2>1, <1>3 DEF CapturedOK
  <2>4. ASSUME NEW j \in DOMAIN cs[m].locals
        PROVE  cs[n].locals[i].decl = cs[m].locals[j].decl <=> (n = m /\ i = j)
    BY <2>1, <1>1, <1>3 DEF Distinct
  <2>5. CASE n = m
    <3>1. ~Captures(ds, n, i)
      BY <2>5, <2>1, <1>2 DEF Captures
    <3>2. Captures(cs, n, i) <=> \E k \in DOMAIN cs[m + 1].upvalues :
             OfLocal(cs[m + 1].upvalues[k]) /\ cs[m + 1].upvalues[k].index = i
      BY <2>5, <2>1, <1>1 DEF Captures
    <3>3. cs[n].locals[i].decl \in tl <=> cs[n].locals[i].decl \in tk \/ Captures(cs, n, i)
      BY <3>2, <2>2, <2>4, <2>5, <1>7, <1>8
    <3> QED BY <3>1, <3>3, <2>3
  <2>6. CASE n # m
    <3>1. Captures(ds, n, i) <=> Captures(cs, n, i)
      <4>1. n + 1 \in 1 .. m /\ n < Len(ds) /\ n < Len(cs)
        BY <2>6, <2>1, <1>1, <1>2
      <4>2. ds[n + 1] = cs[n + 1]
        BY <4>1, <1>2
      <4> QED BY <4>1, <4>2 DEF Captures
    <3>2. cs[n].locals[i].decl \in tl <=> cs[n].locals[i].decl \in tk
      BY <2>2, <2>4, <2>6, <1>7, <1>8
    <3> QED BY <3>1, <3>2, <2>3
  <2> QED BY <2>5, <2>6
<1>10. tl \subseteq Used(ds)
  <2> SUFFICES ASSUME NEW d \in tl PROVE d \in Used(ds)
    OBVIOUS
  <2>1. CASE d \in tk /\ \A j \in DOMAIN cs[m + 1].locals : cs[m + 1].locals[j].decl # d
    <3>1. PICK n \in DOMAIN cs : \E i \in DOMAIN cs[n].locals : cs[n].locals[i].decl = d
      BY <2>1, UsedIs DEF Chained
    <3>2. n # m + 1
      BY <2>1, <3>1
    <3>3. n \in DOMAIN ds /\ ds[n] = cs[n]
      BY <3>2, <1>1, <1>2
    <3> QED BY <3>1, <3>3, UsedIs
  <2>2. CASE \E k \in DOMAIN cs[m + 1].upvalues :
               /\ OfLocal(cs[m + 1].upvalues[k])
               /\ d = cs[m].locals[cs[m + 1].upvalues[k].index].decl
    <3>1. m \in DOMAIN ds /\ ds[m] = cs[m]
      BY <1>1, <1>2
    <3> QED BY <2>2, <3>1, <1>8, UsedIs
  <2> QED BY <2>1, <2>2, <1>7
<1>11. Chained(ds, tl)
  BY <1>2, <1>4, <1>5, <1>6, <1>9, <1>10 DEF Chained
<1> QED BY <1>1, <1>2, <1>11 DEF m
-----------------------------------------------------------------------------
(* The scopes.                                                             *)

(* What is in the scope of depth d is the same in both lists of locals.    *)
SameAt(K, L, d) ==
  /\ \A i \in DOMAIN K : K[i].depth = d =>
       i \in DOMAIN L /\ L[i].depth = d /\ L[i].name = K[i].name /\ L[i].decl = K[i].decl
  /\ \A i \in DOMAIN L : L[i].depth = d => i \in DOMAIN K /\ K[i].depth = d

LEMMA HoldsStill ==
  ASSUME NEW scope, NEW K, NEW L, NEW d, Holds(scope, K, d), SameAt(K, L, d)
  PROVE  Holds(scope, L, d)
<1>1. ASSUME NEW x \in DOMAIN scope PROVE \E i \in DOMAIN L : L[i].name = x /\ L[i].depth = d
  BY DEF Holds, SameAt
<1>2. ASSUME NEW i \in DOMAIN L, L[i].depth = d
      PROVE  L[i].name \in DOMAIN scope /\ scope[L[i].name] = L[i].decl
  <2>1. i \in DOMAIN K /\ K[i].depth = d
    BY <1>2 DEF SameAt
  <2> QED BY <2>1 DEF Holds, SameAt
<1> QED BY <1>1, <1>2 DEF Holds

(* The last scope is that of the innermost function's scope_depth.         *)
LEMMA ScopeTop ==
  ASSUME NEW cs, NEW tk, Chained(cs, tk), NEW sc \in Seq(ScopeSet), NEW lev, NEW dep,
         LayoutBy(cs, sc, lev, dep)
  PROVE  /\ Len(sc) \in Nat /\ Len(sc) > 0 /\ DOMAIN sc = 1 .. Len(sc)
         /\ lev[Len(sc)] = Len(cs) /\ dep[Len(sc)] = Last(cs).scope_depth
         /\ \A k \in 1 .. Len(sc) : lev[k] \in 1 .. Len(cs) /\ dep[k] \in Nat /\ sc[k] \in ScopeSet
         /\ \A k \in 1 .. Len(sc) - 1 :
              lev[k] < Len(cs) \/ (lev[k] = Len(cs) /\ dep[k] < Last(cs).scope_depth)
<1> DEFINE m == Len(cs)
           s == Len(sc)
           D == Last(cs).scope_depth
<1>1. /\ m \in Nat /\ m \in 1 .. m /\ DOMAIN cs = 1 .. m /\ Last(cs) = cs[m] /\ D \in Nat
  BY ChainIs, CompIs
<1>2. s \in Nat /\ DOMAIN sc = 1 .. s /\ \A k \in 1 .. s : sc[k] \in ScopeSet
  BY SeqIs
<1>3. /\ \A k \in 1 .. s : lev[k] \in 1 .. m /\ dep[k] \in Nat
      /\ \A k \in 1 .. s : dep[k] <= cs[lev[k]].scope_depth
      /\ \A j, k \in 1 .. s : j < k => Before(lev, dep, j, k)
  BY <1>1, <1>2 DEF LayoutBy, Placed
<1>4. PICK k \in 1 .. s : lev[k] = m /\ dep[k] = D
  <2>1. D \in 0 .. cs[m].scope_depth
    BY <1>1
  <2> QED BY <2>1, <1>1, <1>2 DEF LayoutBy, Covers
<1> HIDE DEF m, s, D
<1>5. k = s
  <2>1. SUFFICES ASSUME k < s PROVE FALSE
    BY <1>2
  <2>2. s \in 1 .. s
    BY <1>2
  <2>3. Before(lev, dep, k, s) /\ lev[s] \in 1 .. m /\ dep[s] \in Nat /\ dep[s] <= cs[lev[s]].scope_depth
    BY <2>1, <2>2, <1>3
  <2>4. CASE lev[s] = m
    <3>1. dep[s] <= D
      BY <2>3, <2>4, <1>1 DEF D
    <3> QED BY <2>3, <2>4, <3>1, <1>1, <1>4 DEF Before
  <2>5. CASE lev[s] < m
    BY <2>3, <2>5, <1>1, <1>4 DEF Before
  <2> QED BY <2>3, <2>4, <2>5, <1>1
<1>6. ASSUME NEW j \in 1 .. s - 1 PROVE lev[j] < m \/ (lev[j] = m /\ dep[j] < D)
  <2>1. j \in 1 .. s /\ j < s /\ s \in 1 .. s
    BY <1>2
  <2>2. Before(lev, dep, j, s)
    BY <2>1, <1>3
  <2> QED BY <2>2, <1>4, <1>5 DEF Before
<1>7. s > 0
  BY <1>2, <1>4
<1> QED BY <1>2, <1>3, <1>4, <1>5, <1>6, <1>7 DEF m, s, D

LEMMA PlacedBy ==
  ASSUME NEW cs, NEW sc, NEW lev, NEW dep, Placed(cs, sc, lev, dep), NEW ds, NEW sd,
         DOMAIN sd = DOMAIN sc,
         \A k \in DOMAIN sc : /\ lev[k] \in DOMAIN ds /\ dep[k] <= ds[lev[k]].scope_depth
                              /\ Holds(sd[k], ds[lev[k]].locals, dep[k])
  PROVE  Placed(ds, sd, lev, dep)
<1>1. lev \in [DOMAIN sd -> DOMAIN ds] /\ dep \in [DOMAIN sd -> Nat]
  BY DEF Placed
<1>2. \A j, k \in DOMAIN sd : j < k => Before(lev, dep, j, k)
  BY DEF Placed
<1> QED BY <1>1, <1>2 DEF Placed

(* A scope is added behind all others, or the last ones go.                *)
Added(cs, sc, sd, lev, dep, n, d) ==
  \E lev2, dep2 :
    /\ Placed(cs, sd, lev2, dep2) /\ lev2[Len(sc) + 1] = n /\ dep2[Len(sc) + 1] = d
    /\ \A k \in DOMAIN sc : lev2[k] = lev[k] /\ dep2[k] = dep[k]

Shortened(cs, sd, lev, dep, m) ==
  \E lev2, dep2 :
    Placed(cs, sd, lev2, dep2) /\ \A k \in 1 .. m : lev2[k] = lev[k] /\ dep2[k] = dep[k]

LEMMA AddScope ==
  ASSUME NEW cs, NEW sc \in Seq(ScopeSet), NEW lev, NEW dep, Placed(cs, sc, lev, dep),
         NEW n \in DOMAIN cs, NEW d \in Nat, d <= cs[n].scope_depth,
         NEW s \in ScopeSet, Holds(s, cs[n].locals, d),
         \A k \in DOMAIN sc : lev[k] < n \/ (lev[k] = n /\ dep[k] < d),
         NEW sd, sd = Append(sc, s)
  PROVE  Added(cs, sc, sd, lev, dep, n, d)
<1> DEFINE m == Len(sc) + 1
           lev2 == [k \in 1 .. m |-> IF k = m THEN n ELSE lev[k]]
           dep2 == [k \in 1 .. m |-> IF k = m THEN d ELSE dep[k]]
<1>1. /\ m \in Nat /\ DOMAIN sc = 1 .. m - 1 /\ m \in 1 .. m
      /\ \A k \in 1 .. m - 1 : k \in 1 .. m /\ k # m
      /\ \A k \in 1 .. m : k = m \/ k \in 1 .. m - 1
  BY SeqIs
<1>2. DOMAIN sd = 1 .. m /\ sd[m] = s /\ \A k \in 1 .. m - 1 : sd[k] = sc[k]
  <2>1. DOMAIN sd = 1 .. m
    BY Appended
  <2>2. sd[m] = s
    BY Appended
  <2>3. \A k \in 1 .. Len(sc) : sd[k] = sc[k]
    BY Appended
  <2>4. \A k \in 1 .. m - 1 : k \in 1 .. Len(sc)
    BY SeqIs
  <2>5. \A k \in 1 .. m - 1 : sd[k] = sc[k]
    BY <2>3, <2>4
  <2> QED BY <2>1, <2>2, <2>5
<1>3. /\ \A k \in 1 .. m - 1 : lev[k] \in DOMAIN cs /\ dep[k] \in Nat
      /\ \A k \in 1 .. m - 1 : dep[k] <= cs[lev[k]].scope_depth /\ Holds(sc[k], cs[lev[k]].locals, dep[k])
      /\ \A j, k \in 1 .. m - 1 : j < k => Before(lev, dep, j, k)
  BY <1>1 DEF Placed
<1>4. /\ lev2[m] = n /\ dep2[m] = d
      /\ \A k \in 1 .. m - 1 : lev2[k] = lev[k] /\ dep2[k] = dep[k]
      /\ lev2 \in [1 .. m -> DOMAIN cs] /\ dep2 \in [1 .. m -> Nat]
  BY <1>1, <1>3
<1> HIDE DEF m, lev2, dep2
<1>5. ASSUME NEW k \in 1 .. m
      PROVE  dep2[k] <= cs[lev2[k]].scope_depth /\ Holds(sd[k], cs[lev2[k]].locals, dep2[k])
  <2>1. CASE k = m
    BY <2>1, <1>2, <1>4
  <2>2. CASE k \in 1 .. m - 1
    <3>1. lev2[k] = lev[k] /\ dep2[k] = dep[k] /\ sd[k] = sc[k]
      BY <2>2, <1>2, <1>4
    <3> QED BY <2>2, <3>1, <1>3
  <2> QED BY <2>1, <2>2, <1>1
<1>6. ASSUME NEW j \in 1 .. m, NEW k \in 1 .. m, j < k PROVE Before(lev2, dep2, j, k)
  <2>1. j \in 1 .. m - 1
    BY <1>1, <1>6
  <2>2. lev2[j] = lev[j] /\ dep2[j] = dep[j]
    BY <2>1, <1>4
  <2>3. CASE k = m
    BY <2>1, <2>2, <2>3, <1>1, <1>4 DEF Before
  <2>4. CASE k \in 1 .. m - 1
    <3>1. lev2[k] = lev[k] /\ dep2[k] = dep[k] /\ Before(lev, dep, j, k)
      BY <2>1, <2>4, <1>3, <1>4, <1>6
    <3> QED BY <2>2, <3>1 DEF Before
  <2> QED BY <2>3, <2>4, <1>1
<1>7. Placed(cs, sd, lev2, dep2)
  BY <1>2, <1>4, <1>5, <1>6 DEF Placed
<1>8. lev2[Len(sc) + 1] = n /\ dep2[Len(sc) + 1] = d
      /\ \A k \in DOMAIN sc : lev2[k] = lev[k] /\ dep2[k] = dep[k]
  BY <1>1, <1>4 DEF m
<1> QED BY <1>7, <1>8 DEF Added

LEMMA CutScopes ==
  ASSUME NEW cs, NEW sc \in Seq(ScopeSet), NEW lev, NEW dep, Placed(cs, sc, lev, dep),
         NEW m \in Nat, m <= Len(sc), NEW sd, sd = SubSeq(sc, 1, m)
  PROVE  /\ sd \in Seq(ScopeSet) /\ DOMAIN sd = 1 .. m /\ \A k \in 1 .. m : sd[k] = sc[k]
         /\ Shortened(cs, sd, lev, dep, m)
<1> DEFINE lev2 == [k \in 1 .. m |-> lev[k]]
           dep2 == [k \in 1 .. m |-> dep[k]]
<1>1. /\ sd \in Seq(ScopeSet) /\ DOMAIN sd = 1 .. m /\ \A k \in 1 .. m : sd[k] = sc[k]
  BY CutTo
<1>2. \A k \in 1 .. m : k \in DOMAIN sc
  BY SeqIs
<1>3. /\ \A k \in 1 .. m : lev[k] \in DOMAIN cs /\ dep[k] \in Nat
      /\ \A k \in 1 .. m : dep[k] <= cs[lev[k]].scope_depth /\ Holds(sc[k], cs[lev[k]].locals, dep[k])
      /\ \A j, k \in 1 .. m : j < k => Before(lev, dep, j, k)
  BY <1>2 DEF Placed
<1>4. /\ \A k \in 1 .. m : lev2[k] = lev[k] /\ dep2[k] = dep[k]
      /\ lev2 \in [1 .. m -> DOMAIN cs] /\ dep2 \in [1 .. m -> Nat]
  BY <1>3
<1> HIDE DEF lev2, dep2
<1>5. \A j, k \in 1 .. m : j < k => Before(lev2, dep2, j, k)
  BY <1>3, <1>4 DEF Before
<1>6. Placed(cs, sd, lev2, dep2)
  BY <1>1, <1>3, <1>4, <1>5 DEF Placed
<1>7. \A k \in 1 .. m : lev2[k] = lev[k] /\ dep2[k] = dep[k]
  BY <1>4
<1>8. Shortened(cs, sd, lev, dep, m)
  BY <1>6, <1>7 DEF Shortened
<1> QED BY <1>1, <1>8

(* Nothing happens to the locals that are initialised.                     *)
LEMMA LayoutSame ==
  ASSUME NEW cs, NEW sc, LayoutOK(cs, sc), NEW ds, DOMAIN ds = DOMAIN cs,
         \A n \in DOMAIN cs : ds[n].scope_depth = cs[n].scope_depth
                              /\ \A d \in Nat : SameAt(cs[n].locals, ds[n].locals, d)
  PROVE  LayoutOK(ds, sc)
<1>1. PICK lev, dep : LayoutBy(cs, sc, lev, dep)
  BY DEF LayoutOK
<1>2. Placed(cs, sc, lev, dep)
  BY <1>1 DEF LayoutBy
<1>3. ASSUME NEW k \in DOMAIN sc
      PROVE  /\ lev[k] \in DOMAIN ds /\ dep[k] <= ds[lev[k]].scope_depth
             /\ Holds(sc[k], ds[lev[k]].locals, dep[k])
  <2>1. lev[k] \in DOMAIN cs /\ dep[k] \in Nat /\ dep[k] <= cs[lev[k]].scope_depth
        /\ Holds(sc[k], cs[lev[k]].locals, dep[k])
    BY <1>2 DEF Placed
  <2>2. SameAt(cs[lev[k]].locals, ds[lev[k]].locals, dep[k])
    BY <2>1
  <2> QED BY <2>1, <2>2, HoldsStill
<1>4. Placed(ds, sc, lev, dep)
  BY <1>2, <1>3, PlacedBy
<1>5. LayoutBy(ds, sc, lev, dep)
  BY <1>1, <1>4 DEF LayoutBy
<1> QED BY <1>5 DEF LayoutOK

(* In the innermost function a scope begins.                               *)
LEMMA LayoutBegin ==
  ASSUME NEW cs, NEW tk, Chained(cs, tk), NEW sc, LayoutOK(cs, sc), NEW ds, DOMAIN ds = DOMAIN cs,
         \A n \in DOMAIN cs : ds[n].locals = cs[n].locals,
         \A n \in DOMAIN cs : n # Len(cs) => ds[n].scope_depth = cs[n].scope_depth,
         ds[Len(cs)].scope_depth = Last(cs).scope_depth + 1,
         NEW s \in ScopeSet, DOMAIN s = {}, NEW sd, sd = Append(sc, s)
  PROVE  LayoutOK(ds, sd)
<1> DEFINE m == Len(cs)
           D == Last(cs).scope_depth
<1>1. PICK lev, dep : LayoutBy(cs, sc, lev, dep)
  BY DEF LayoutOK
<1>2. /\ m \in Nat /\ m \in DOMAIN cs /\ DOMAIN cs = 1 .. m /\ D \in Nat /\ D + 1 \in Nat
      /\ D = cs[m].scope_depth /\ ds[m].scope_depth = D + 1
      /\ \A n \in DOMAIN cs : n = m \/ ds[n].scope_depth = cs[n].scope_depth
  BY ChainIs, CompIs
<1>3. \A i \in DOMAIN cs[m].locals : cs[m].locals[i].depth <= D /\ cs[m].locals[i].depth # D + 1
  <2> SUFFICES ASSUME NEW i \in DOMAIN cs[m].locals
               PROVE  cs[m].locals[i].depth <= D /\ cs[m].locals[i].depth # D + 1
    OBVIOUS
  <2>1. /\ cs[m].locals[i].depth \in Nat \/ cs[m].locals[i].depth = UNINITIALIZED
        /\ cs[m].locals[i].depth <= D
    BY ChainIs, CompIs
  <2> QED BY <2>1, <1>2 DEF UNINITIALIZED
<1>4. sc \in Seq(ScopeSet) /\ sd \in Seq(ScopeSet) /\ Len(sc) \in Nat /\ DOMAIN sc = 1 .. Len(sc)
      /\ DOMAIN sd = 1 .. Len(sc) + 1
  BY SeqIs, Appended DEF LayoutOK
<1>5. /\ \A k \in DOMAIN sc : lev[k] \in 1 .. m /\ dep[k] \in Nat
      /\ \A k \in DOMAIN sc : dep[k] <= cs[lev[k]].scope_depth
                              /\ Holds(sc[k], cs[lev[k]].locals, dep[k])
  BY <1>1, <1>2 DEF LayoutBy, Placed
<1> HIDE DEF m, D
<1>6. Placed(ds, sc, lev, dep)
  <2>1. ASSUME NEW k \in DOMAIN sc
        PROVE  /\ lev[k] \in DOMAIN ds /\ dep[k] <= ds[lev[k]].scope_depth
               /\ Holds(sc[k], ds[lev[k]].locals, dep[k])
    BY SMTT(30), <1>2, <1>5
  <2> QED BY <1>1, <2>1, PlacedBy DEF LayoutBy
<1>7. Holds(s, ds[m].locals, D + 1)
  BY <1>2, <1>3 DEF Holds
<1>8. \A k \in DOMAIN sc : lev[k] < m \/ (lev[k] = m /\ dep[k] < D + 1)
  BY <1>2, <1>5
<1>9. PICK lev2, dep2 :
        /\ Placed(ds, sd, lev2, dep2) /\ lev2[Len(sc) + 1] = m /\ dep2[Len(sc) + 1] = D + 1
        /\ \A k \in DOMAIN sc : lev2[k] = lev[k] /\ dep2[k] = dep[k]
  <2> DEFINE e == D + 1
  <2>1. m \in DOMAIN ds /\ e \in Nat /\ e <= ds[m].scope_depth
    BY <1>2
  <2>2. Holds(s, ds[m].locals, e) /\ \A k \in DOMAIN sc : lev[k] < m \/ (lev[k] = m /\ dep[k] < e)
    BY <1>7, <1>8
  <2>3. sc \in Seq(ScopeSet)
    BY <1>4
  <2> HIDE DEF e
  <2>4. Added(ds, sc, sd, lev, dep, m, e)
    BY <2>1, <2>2, <2>3, <1>6, AddScope
  <2> QED BY <2>4 DEF e, Added
<1>10. ASSUME NEW n \in DOMAIN ds, NEW d \in 0 .. ds[n].scope_depth PROVE Covers(sd, lev2, dep2, n, d)
  <2>1. CASE n = m /\ d = D + 1
    BY <2>1, <1>4, <1>9 DEF Covers
  <2>2. CASE ~(n = m /\ d = D + 1)
    <3>1. n \in DOMAIN cs /\ d \in 0 .. cs[n].scope_depth
      BY <2>2, <1>2
    <3>2. PICK k \in DOMAIN sc : lev[k] = n /\ dep[k] = d
      BY <3>1, <1>1 DEF LayoutBy, Covers
    <3>3. k \in DOMAIN sd /\ lev2[k] = n /\ dep2[k] = d
      BY <3>2, <1>4, <1>9
    <3> QED BY <3>3 DEF Covers
  <2> QED BY <2>1, <2>2
<1>11. LayoutBy(ds, sd, lev2, dep2)
  BY <1>9, <1>10 DEF LayoutBy
<1> QED BY <1>4, <1>11 DEF LayoutOK

(* It ends.                                                                *)
LEMMA LayoutEnd ==
  ASSUME NEW cs, NEW tk, Chained(cs, tk), NEW sc, LayoutOK(cs, sc), NEW ds, DOMAIN ds = DOMAIN cs,
         \A n \in DOMAIN cs : n # Len(cs) => ds[n] = cs[n],
         ds[Len(cs)].scope_depth = Last(cs).scope_depth - 1, Last(cs).scope_depth > 0,
         \A d \in 0 .. Last(cs).scope_depth - 1 : SameAt(Last(cs).locals, ds[Len(cs)].locals, d),
         NEW sd, sd = Cut(sc, 1)
  PROVE  LayoutOK(ds, sd)
<1> DEFINE m == Len(cs)
           D == Last(cs).scope_depth
           s == Len(sc)
<1>1. PICK lev, dep : LayoutBy(cs, sc, lev, dep)
  BY DEF LayoutOK
<1>2. /\ m \in Nat /\ m \in DOMAIN cs /\ DOMAIN cs = 1 .. m /\ D \in Nat /\ D - 1 \in Nat
      /\ Last(cs) = cs[m] /\ ds[m].scope_depth = D - 1
      /\ \A n \in DOMAIN cs : n = m \/ ds[n] = cs[n]
      /\ \A d \in 0 .. D - 1 : SameAt(cs[m].locals, ds[m].locals, d)
  BY ChainIs, CompIs
<1>3. /\ sc \in Seq(ScopeSet) /\ s \in Nat /\ s > 0 /\ DOMAIN sc = 1 .. s
      /\ lev[s] = m /\ dep[s] = D /\ s - 1 \in Nat /\ s - 1 <= s
      /\ \A k \in 1 .. s - 1 : lev[k] < m \/ (lev[k] = m /\ dep[k] < D)
  BY <1>1, ScopeTop DEF LayoutOK
<1>4. /\ \A k \in 1 .. s : lev[k] \in 1 .. m /\ dep[k] \in Nat
      /\ \A k \in 1 .. s : dep[k] <= cs[lev[k]].scope_depth
                           /\ Holds(sc[k], cs[lev[k]].locals, dep[k])
  BY <1>1, <1>2, <1>3 DEF LayoutBy, Placed
<1> HIDE DEF m, D
<1>5. /\ sd \in Seq(ScopeSet) /\ DOMAIN sd = 1 .. s - 1 /\ \A k \in 1 .. s - 1 : sd[k] = sc[k]
      /\ Shortened(cs, sd, lev, dep, s - 1)
  <2> DEFINE e == s - 1
  <2>1. Placed(cs, sc, lev, dep) /\ sd = SubSeq(sc, 1, e)
    BY <1>1 DEF LayoutBy, Cut
  <2>2. e \in Nat /\ e <= Len(sc) /\ sc \in Seq(ScopeSet)
    BY <1>3
  <2> HIDE DEF e
  <2>3. /\ sd \in Seq(ScopeSet) /\ DOMAIN sd = 1 .. e /\ \A k \in 1 .. e : sd[k] = sc[k]
        /\ Shortened(cs, sd, lev, dep, e)
    BY <2>1, <2>2, CutScopes
  <2> QED BY <2>3 DEF e
<1> HIDE DEF s
<1>6. PICK lev2, dep2 :
        /\ Placed(cs, sd, lev2, dep2)
        /\ \A k \in 1 .. s - 1 : lev2[k] = lev[k] /\ dep2[k] = dep[k]
  BY <1>5 DEF Shortened
<1>7. Placed(ds, sd, lev2, dep2)
  <2>1. ASSUME NEW k \in DOMAIN sd
        PROVE  /\ lev2[k] \in DOMAIN ds /\ dep2[k] <= ds[lev2[k]].scope_depth
               /\ Holds(sd[k], ds[lev2[k]].locals, dep2[k])
    <3>1. /\ k \in 1 .. s - 1 /\ k \in 1 .. s /\ lev2[k] = lev[k] /\ dep2[k] = dep[k] /\ sd[k] = sc[k]
      BY <1>3, <1>5, <1>6
    <3>2. /\ lev[k] \in 1 .. m /\ dep[k] \in Nat /\ dep[k] <= cs[lev[k]].scope_depth
          /\ Holds(sc[k], cs[lev[k]].locals, dep[k])
          /\ lev[k] < m \/ (lev[k] = m /\ dep[k] < D)
      BY <3>1, <1>3, <1>4
    <3>3. CASE lev[k] < m
      <4>1. ds[lev[k]] = cs[lev[k]]
        BY <3>2, <3>3, <1>2
      <4> QED BY <4>1, <3>1, <3>2, <1>2
    <3>4. CASE lev[k] = m /\ dep[k] < D
      <4>1. dep[k] \in 0 .. D - 1
        BY <3>2, <3>4, <1>2
      <4>2. Holds(sc[k], ds[m].locals, dep[k])
        BY <4>1, <3>2, <3>4, <1>2, HoldsStill
      <4> QED BY <4>1, <4>2, <3>1, <3>4, <1>2
    <3> QED BY <3>2, <3>3, <3>4
  <2> QED BY <1>6, <2>1, PlacedBy
<1>8. ASSUME NEW n \in DOMAIN ds, NEW d \in 0 .. ds[n].scope_depth PROVE Covers(sd, lev2, dep2, n, d)
  <2>1. n \in DOMAIN cs /\ (n = m => d \in 0 .. D - 1) /\ d \in 0 .. cs[n].scope_depth
    <3>1. CASE n = m
      <4>1. D = cs[m].scope_depth
        BY <1>2 DEF D
      <4> QED BY <4>1, <3>1, <1>2
    <3>2. CASE n # m
      BY <3>2, <1>2
    <3> QED BY <3>1, <3>2
  <2>2. PICK k \in DOMAIN sc : lev[k] = n /\ dep[k] = d
    BY <2>1, <1>1 DEF LayoutBy, Covers
  <2>3. k # s
    BY <2>1, <2>2, <1>2, <1>3
  <2>4. k \in 1 .. s - 1
    BY <2>3, <1>3
  <2> QED BY <2>2, <2>4, <1>5, <1>6 DEF Covers
<1>9. LayoutBy(ds, sd, lev2, dep2)
  BY <1>7, <1>8 DEF LayoutBy
<1> QED BY <1>5, <1>9 DEF LayoutOK

(* Of the locals of depth D, L has those of K and local p, which is of a   *)
(* name that K has not there.                                              *)
NewAt(K, L, D, p, x, d) ==
  /\ p \in DOMAIN L /\ L[p].depth = D /\ L[p].name = x /\ L[p].decl = d
  /\ \A i \in DOMAIN K : K[i].depth = D =>
       /\ i \in DOMAIN L /\ i # p /\ K[i].name # x
       /\ L[i].depth = D /\ L[i].name = K[i].name /\ L[i].decl = K[i].decl
  /\ \A i \in DOMAIN L : L[i].depth = D => i = p \/ (i \in DOMAIN K /\ K[i].depth = D)

LEMMA ExtendHolds ==
  ASSUME NEW K, NEW L, NEW D, NEW p, NEW x, NEW d, NewAt(K, L, D, p, x, d),
         NEW scope, Holds(scope, K, D), NEW s, s = Extend(scope, x, d)
  PROVE  Holds(s, L, D)
<1> USE DEF NewAt
<1>1. DOMAIN s = DOMAIN scope \cup {x} /\ s[x] = d
      /\ \A y \in DOMAIN scope : y # x => s[y] = scope[y]
  BY DEF Extend
<1>2. ASSUME NEW y \in DOMAIN s PROVE \E i \in DOMAIN L : L[i].name = y /\ L[i].depth = D
  <2>1. CASE y = x
    BY <2>1
  <2>2. CASE y # x
    <3>1. PICK i \in DOMAIN K : K[i].name = y /\ K[i].depth = D
      BY <2>2, <1>1 DEF Holds
    <3>2. i \in DOMAIN L /\ L[i].depth = D /\ L[i].name = y
      BY <3>1
    <3> QED BY <3>2
  <2> QED BY <2>1, <2>2
<1>3. ASSUME NEW i \in DOMAIN L, L[i].depth = D
      PROVE  L[i].name \in DOMAIN s /\ s[L[i].name] = L[i].decl
  <2>1. CASE i = p
    BY <2>1, <1>1
  <2>2. CASE i # p
    <3>1. i \in DOMAIN K /\ K[i].depth = D
      BY <2>2, <1>3
    <3>2. K[i].name # x /\ L[i].name = K[i].name /\ L[i].decl = K[i].decl
      BY <3>1
    <3>3. K[i].name \in DOMAIN scope /\ scope[K[i].name] = K[i].decl
      BY <3>1 DEF Holds
    <3> QED BY <3>2, <3>3, <1>1
  <2> QED BY <2>1, <2>2
<1> QED BY <1>2, <1>3 DEF Holds

LEMMA LayoutInit ==
  ASSUME NEW cs, NEW tk, Chained(cs, tk), NEW sc, LayoutOK(cs, sc), NEW ds, DOMAIN ds = DOMAIN cs,
         \A n \in DOMAIN cs : n # Len(cs) => ds[n] = cs[n],
         NEW K, K = Last(cs).locals, NEW L, L = ds[Len(cs)].locals, NEW D, D = Last(cs).scope_depth,
         ds[Len(cs)].scope_depth = D,
         \A e \in Nat : e # D => SameAt(K, L, e),
         NEW x \in Names, NEW d \in Decl, NEW p, NewAt(K, L, D, p, x, d),
         NEW sd, sd = Sub(sc, Len(sc), Extend(Last(sc), x, d))
  PROVE  LayoutOK(ds, sd)
<1> DEFINE m == Len(cs)
           s == Len(sc)
           new == Extend(Last(sc), x, d)
<1>1. PICK lev, dep : LayoutBy(cs, sc, lev, dep)
  BY DEF LayoutOK
<1>2. /\ m \in Nat /\ m \in DOMAIN cs /\ DOMAIN cs = 1 .. m /\ Last(cs) = cs[m]
      /\ \A n \in DOMAIN cs : n = m \/ ds[n] = cs[n]
      /\ cs[m].locals = K /\ ds[m].locals = L /\ cs[m].scope_depth = D /\ ds[m].scope_depth = D
  BY ChainIs
<1>3. /\ sc \in Seq(ScopeSet) /\ s \in Nat /\ s > 0 /\ DOMAIN sc = 1 .. s
      /\ lev[s] = m /\ dep[s] = D
      /\ \A k \in 1 .. s : sc[k] \in ScopeSet
      /\ \A k \in 1 .. s - 1 : lev[k] < m \/ (lev[k] = m /\ dep[k] < D)
  BY <1>1, ScopeTop DEF LayoutOK
<1>4. s \in 1 .. s /\ Last(sc) = sc[s]
  BY <1>3 DEF Last
<1>5. new \in ScopeSet
  <2>1. sc[s] \in ScopeSet
    BY <1>3, <1>4
  <2>2. PICK E \in SUBSET Names : sc[s] \in [E -> Decl]
    BY <2>1 DEF ScopeSet
  <2>3. DOMAIN sc[s] = E /\ new \in [E \cup {x} -> Decl]
    BY <2>2, <1>4 DEF Extend
  <2>4. E \cup {x} \in SUBSET Names
    OBVIOUS
  <2> HIDE DEF new
  <2> QED BY <2>3, <2>4 DEF ScopeSet
<1>6. /\ \A k \in 1 .. s : lev[k] \in 1 .. m /\ dep[k] \in Nat
      /\ \A k \in 1 .. s : dep[k] <= cs[lev[k]].scope_depth
                           /\ Holds(sc[k], cs[lev[k]].locals, dep[k])
  BY <1>1, <1>2, <1>3 DEF LayoutBy, Placed
<1>7. Holds(new, L, D)
  <2>1. Holds(sc[s], K, D)
    BY <1>2, <1>3, <1>4, <1>6
  <2>2. new = Extend(sc[s], x, d)
    BY <1>4
  <2> HIDE DEF new
  <2> QED BY <2>1, <2>2, ExtendHolds
<1> HIDE DEF m, new
<1>8. /\ sd \in Seq(ScopeSet) /\ DOMAIN sd = 1 .. s
      /\ sd[s] = new /\ \A k \in 1 .. s : k # s => sd[k] = sc[k]
  <2>1. sd = Sub(sc, s, new)
    BY DEF new
  <2>2. sd \in Seq(ScopeSet) /\ DOMAIN sd = 1 .. s
    BY <2>1, <1>3, <1>4, <1>5, Replaced
  <2>3. sd[s] = new /\ \A k \in 1 .. s : k # s => sd[k] = sc[k]
    BY <2>1, <1>3, <1>4 DEF Sub
  <2> QED BY <2>2, <2>3
<1> HIDE DEF s
<1>9. ASSUME NEW k \in DOMAIN sc
      PROVE  /\ lev[k] \in DOMAIN ds /\ dep[k] <= ds[lev[k]].scope_depth
             /\ Holds(sd[k], ds[lev[k]].locals, dep[k])
  <2>1. CASE k = s
    BY <2>1, <1>2, <1>3, <1>6, <1>7, <1>8
  <2>2. CASE k # s
    <3>1. k \in 1 .. s /\ k \in 1 .. s - 1 /\ sd[k] = sc[k]
      BY <2>2, <1>3, <1>8
    <3>2. /\ lev[k] \in 1 .. m /\ dep[k] \in Nat /\ dep[k] <= cs[lev[k]].scope_depth
          /\ Holds(sc[k], cs[lev[k]].locals, dep[k])
          /\ lev[k] < m \/ (lev[k] = m /\ dep[k] < D)
      BY <3>1, <1>3, <1>6
    <3>3. CASE lev[k] < m
      <4>1. ds[lev[k]] = cs[lev[k]]
        BY <3>2, <3>3, <1>2
      <4> QED BY <4>1, <3>1, <3>2, <1>2
    <3>4. CASE lev[k] = m /\ dep[k] < D
      <4>1. dep[k] # D
        BY <3>2, <3>4
      <4>2. Holds(sc[k], L, dep[k])
        BY <4>1, <3>2, <3>4, <1>2, HoldsStill
      <4> QED BY <4>2, <3>1, <3>2, <3>4, <1>2
    <3> QED BY <3>2, <3>3, <3>4
  <2> QED BY <2>1, <2>2
<1>10. Placed(ds, sd, lev, dep)
  BY <1>1, <1>3, <1>8, <1>9, PlacedBy DEF LayoutBy
<1>11. ASSUME NEW n \in DOMAIN ds, NEW e \in 0 .. ds[n].scope_depth PROVE Covers(sd, lev, dep, n, e)
  <2>1. n \in DOMAIN cs /\ e \in 0 .. cs[n].scope_depth
    BY <1>2
  <2>2. Covers(sc, lev, dep, n, e)
    BY <2>1, <1>1 DEF LayoutBy
  <2> QED BY <2>2, <1>3, <1>8 DEF Covers
<1>12. LayoutBy(ds, sd, lev, dep)
  BY <1>10, <1>11 DEF LayoutBy
<1> QED BY <1>8, <1>12 DEF LayoutOK

(* A function begins: its outermost scope and that of its parameters.      *)
LEMMA LayoutCall ==
  ASSUME NEW cs, NEW tk, Chained(cs, tk), NEW sc, LayoutOK(cs, sc), NEW ds,
         DOMAIN ds = 1 .. Len(cs) + 1, \A n \in DOMAIN cs : ds[n] = cs[n],
         ds[Len(cs) + 1].scope_depth = 1,
         NEW s \in ScopeSet, Holds(s, ds[Len(cs) + 1].locals, 0),
         NEW t \in ScopeSet, Holds(t, ds[Len(cs) + 1].locals, 1),
         NEW sd, sd = Append(Append(sc, s), t)
  PROVE  LayoutOK(ds, sd)
<1> DEFINE m == Len(cs) + 1
           mid == Append(sc, s)
           k1 == Len(sc) + 1
           k2 == Len(mid) + 1
<1>1. PICK lev, dep : LayoutBy(cs, sc, lev, dep)
  BY DEF LayoutOK
<1>2. /\ m \in Nat /\ DOMAIN cs = 1 .. m - 1 /\ DOMAIN ds = 1 .. m /\ m \in 1 .. m
      /\ \A n \in 1 .. m - 1 : n \in 1 .. m /\ n < m /\ ds[n] = cs[n]
      /\ \A n \in 1 .. m : n = m \/ n \in 1 .. m - 1
      /\ ds[m].scope_depth = 1 /\ Holds(s, ds[m].locals, 0) /\ Holds(t, ds[m].locals, 1)
  BY ChainIs
<1>3. sc \in Seq(ScopeSet) /\ Len(sc) \in Nat /\ DOMAIN sc = 1 .. Len(sc)
  BY SeqIs DEF LayoutOK
<1>4. /\ mid \in Seq(ScopeSet) /\ DOMAIN mid = 1 .. k1 /\ Len(mid) = k1
      /\ sd \in Seq(ScopeSet) /\ DOMAIN sd = 1 .. k2 /\ k2 = k1 + 1
  <2>1. mid \in Seq(ScopeSet) /\ DOMAIN mid = 1 .. k1 /\ Len(mid) = k1
    BY <1>3, Appended
  <2>2. sd \in Seq(ScopeSet) /\ DOMAIN sd = 1 .. k2
    BY <2>1, Appended
  <2> QED BY <2>1, <2>2
<1>5. /\ \A k \in DOMAIN sc : lev[k] \in 1 .. m - 1 /\ dep[k] \in Nat
      /\ \A k \in DOMAIN sc : dep[k] <= cs[lev[k]].scope_depth
                              /\ Holds(sc[k], cs[lev[k]].locals, dep[k])
  BY <1>1, <1>2 DEF LayoutBy, Placed
<1> HIDE DEF m
<1>6. Placed(ds, sc, lev, dep)
  <2>1. ASSUME NEW k \in DOMAIN sc
        PROVE  /\ lev[k] \in DOMAIN ds /\ dep[k] <= ds[lev[k]].scope_depth
               /\ Holds(sc[k], ds[lev[k]].locals, dep[k])
    <3>1. lev[k] \in 1 .. m /\ ds[lev[k]] = cs[lev[k]]
      BY <1>2, <1>5
    <3> QED BY <3>1, <1>2, <1>5
  <2> QED BY <1>1, <2>1, PlacedBy DEF LayoutBy
<1>7. Added(ds, sc, mid, lev, dep, m, 0)
  <2>1. m \in DOMAIN ds /\ 0 <= ds[m].scope_depth /\ \A k \in DOMAIN sc : lev[k] < m
    BY <1>2, <1>5
  <2>2. 0 \in Nat
    OBVIOUS
  <2> HIDE DEF k1, k2
  <2> QED BY <2>1, <2>2, <1>2, <1>3, <1>6, AddScope
<1>8. PICK lev1, dep1 :
        /\ Placed(ds, mid, lev1, dep1) /\ lev1[k1] = m /\ dep1[k1] = 0
        /\ \A k \in DOMAIN sc : lev1[k] = lev[k] /\ dep1[k] = dep[k]
  BY <1>7 DEF Added
<1>9. \A k \in DOMAIN mid : k = k1 \/ k \in DOMAIN sc
  BY <1>3, <1>4
<1> HIDE DEF mid
<1>10. Added(ds, mid, sd, lev1, dep1, m, 1)
  <2>1. m \in DOMAIN ds /\ 1 <= ds[m].scope_depth /\ 1 \in Nat
    BY <1>2
  <2>2. ASSUME NEW k \in DOMAIN mid PROVE lev1[k] < m \/ (lev1[k] = m /\ dep1[k] < 1)
    BY <1>2, <1>5, <1>8, <1>9
  <2>4. Placed(ds, mid, lev1, dep1) /\ mid \in Seq(ScopeSet) /\ Holds(t, ds[m].locals, 1)
    BY <1>2, <1>4, <1>8
  <2>3. sd = Append(mid, t)
    BY DEF mid
  <2> HIDE DEF k1, k2
  <2> QED BY <2>1, <2>2, <2>3, <2>4, AddScope
<1>11. PICK lev2, dep2 :
        /\ Placed(ds, sd, lev2, dep2) /\ lev2[k2] = m /\ dep2[k2] = 1
        /\ \A k \in DOMAIN mid : lev2[k] = lev1[k] /\ dep2[k] = dep1[k]
  BY <1>10 DEF Added
<1>12. ASSUME NEW n \in DOMAIN ds, NEW d \in 0 .. ds[n].scope_depth PROVE Covers(sd, lev2, dep2, n, d)
  <2>1. CASE n = m
    <3>1. d = 0 \/ d = 1
      BY <2>1, <1>2
    <3>2. k1 \in DOMAIN sd /\ k2 \in DOMAIN sd /\ k1 \in DOMAIN mid
      BY <1>3, <1>4
    <3>3. lev2[k1] = m /\ dep2[k1] = 0 /\ lev2[k2] = m /\ dep2[k2] = 1
      BY <3>2, <1>8, <1>11
    <3> QED BY <2>1, <3>1, <3>2, <3>3 DEF Covers
  <2>2. CASE n # m
    <3>1. n \in DOMAIN cs /\ d \in 0 .. cs[n].scope_depth
      BY <2>2, <1>2
    <3>2. PICK k \in DOMAIN sc : lev[k] = n /\ dep[k] = d
      BY <3>1, <1>1 DEF LayoutBy, Covers
    <3>3. k \in DOMAIN mid /\ k \in DOMAIN sd
      BY <1>3, <1>4
    <3>4. lev2[k] = n /\ dep2[k] = d
      BY <3>2, <3>3, <1>8, <1>11
    <3> QED BY <3>3, <3>4 DEF Covers
  <2> QED BY <2>1, <2>2
<1>13. LayoutBy(ds, sd, lev2, dep2)
  BY <1>11, <1>12 DEF LayoutBy
<1> QED BY <1>4, <1>13 DEF LayoutOK

(* It ends: both of its scopes go.                                         *)
LEMMA LayoutReturn ==
  ASSUME NEW cs, NEW tk, Chained(cs, tk), Len(cs) > 1, Last(cs).scope_depth = 1,
         NEW sc, LayoutOK(cs, sc), NEW ds, DOMAIN ds = 1 .. Len(cs) - 1,
         \A n \in DOMAIN ds : ds[n] = cs[n], NEW sd, sd = Cut(sc, 2)
  PROVE  LayoutOK(ds, sd)
<1> DEFINE m == Len(cs)
           s == Len(sc)
<1>1. PICK lev, dep : LayoutBy(cs, sc, lev, dep)
  BY DEF LayoutOK
<1>2. /\ m \in Nat /\ m > 1 /\ m \in DOMAIN cs /\ DOMAIN cs = 1 .. m /\ Last(cs) = cs[m]
      /\ DOMAIN ds = 1 .. m - 1 /\ cs[m].scope_depth = 1
      /\ \A n \in 1 .. m - 1 : n \in 1 .. m /\ ds[n] = cs[n]
  BY ChainIs
<1>3. /\ sc \in Seq(ScopeSet) /\ s \in Nat /\ s > 0 /\ DOMAIN sc = 1 .. s
      /\ lev[s] = m /\ dep[s] = 1
      /\ \A k \in 1 .. s - 1 : lev[k] < m \/ (lev[k] = m /\ dep[k] < 1)
  BY <1>1, ScopeTop DEF LayoutOK
<1>4. /\ \A k \in 1 .. s : lev[k] \in 1 .. m /\ dep[k] \in Nat
      /\ \A k \in 1 .. s : dep[k] <= cs[lev[k]].scope_depth
                           /\ Holds(sc[k], cs[lev[k]].locals, dep[k])
      /\ \A j, k \in 1 .. s : j < k => Before(lev, dep, j, k)
  BY <1>1, <1>2, <1>3 DEF LayoutBy, Placed
<1>5. PICK k0 \in DOMAIN sc : lev[k0] = m /\ dep[k0] = 0
  <2>1. 0 \in 0 .. cs[m].scope_depth
    BY <1>2
  <2>2. Covers(sc, lev, dep, m, 0)
    BY <2>1, <1>1, <1>2 DEF LayoutBy
  <2> QED BY <2>2 DEF Covers
<1> DEFINE e == s - 2
<1>6. e \in Nat /\ e <= s /\ (\A k \in 1 .. e : k \in 1 .. s) /\ k0 = e + 1
  <2>1. k0 \in 1 .. s /\ k0 # s
    BY <1>3, <1>5
  <2>2. s - 1 \in 1 .. s /\ s - 1 \in 1 .. s - 1 /\ k0 <= s - 1
    BY <2>1, <1>3
  <2>3. ~(k0 < s - 1)
    <3>1. SUFFICES ASSUME k0 < s - 1 PROVE FALSE
      OBVIOUS
    <3> DEFINE z == s - 1
    <3>2. z \in 1 .. s /\ k0 < z /\ (lev[z] < m \/ (lev[z] = m /\ dep[z] < 1))
      BY <3>1, <2>2, <1>3
    <3> HIDE DEF z
    <3>3. Before(lev, dep, k0, z) /\ lev[z] \in 1 .. m /\ dep[z] \in Nat
      BY <3>2, <2>1, <1>4
    <3> QED BY <3>2, <3>3, <1>2, <1>5 DEF Before
  <2> QED BY <2>1, <2>2, <2>3, <1>3
<1> HIDE DEF m, e
<1>7. ASSUME NEW k \in 1 .. e PROVE lev[k] \in 1 .. m - 1
  <2>1. k \in 1 .. s /\ k0 \in 1 .. s /\ k < k0
    BY <1>3, <1>5, <1>6
  <2>2. Before(lev, dep, k, k0) /\ lev[k] \in 1 .. m /\ dep[k] \in Nat
    BY <2>1, <1>4
  <2> QED BY <2>2, <1>2, <1>5 DEF Before
<1>8. /\ sd \in Seq(ScopeSet) /\ DOMAIN sd = 1 .. e /\ \A k \in 1 .. e : sd[k] = sc[k]
      /\ Shortened(cs, sd, lev, dep, e)
  <2>1. Placed(cs, sc, lev, dep) /\ sd = SubSeq(sc, 1, e)
    BY <1>1 DEF LayoutBy, Cut, e
  <2>2. e \in Nat /\ e <= Len(sc) /\ sc \in Seq(ScopeSet)
    BY <1>3, <1>6
  <2> HIDE DEF s
  <2> QED BY <2>1, <2>2, CutScopes
<1> HIDE DEF s
<1>9. PICK lev2, dep2 :
        /\ Placed(cs, sd, lev2, dep2)
        /\ \A k \in 1 .. e : lev2[k] = lev[k] /\ dep2[k] = dep[k]
  BY <1>8 DEF Shortened
<1>10. Placed(ds, sd, lev2, dep2)
  <2>1. ASSUME NEW k \in DOMAIN sd
        PROVE  /\ lev2[k] \in DOMAIN ds /\ dep2[k] <= ds[lev2[k]].scope_depth
               /\ Holds(sd[k], ds[lev2[k]].locals, dep2[k])
    <3>1. /\ k \in 1 .. e /\ k \in 1 .. s /\ lev2[k] = lev[k] /\ dep2[k] = dep[k] /\ sd[k] = sc[k]
      BY <1>6, <1>8, <1>9
    <3>2. lev[k] \in 1 .. m - 1 /\ ds[lev[k]] = cs[lev[k]]
      BY <3>1, <1>2, <1>7
    <3> QED BY <3>1, <3>2, <1>2, <1>4
  <2> QED BY <1>9, <2>1, PlacedBy
<1>11. ASSUME NEW n \in DOMAIN ds, NEW d \in 0 .. ds[n].scope_depth PROVE Covers(sd, lev2, dep2, n, d)
  <2>1. n \in 1 .. m /\ n # m /\ d \in 0 .. cs[n].scope_depth
    BY <1>2
  <2>2. PICK k \in DOMAIN sc : lev[k] = n /\ dep[k] = d
    BY <2>1, <1>1, <1>2 DEF LayoutBy, Covers
  <2>3. k \in 1 .. s /\ k # s /\ k # k0
    BY <2>1, <2>2, <1>3, <1>5
  <2>4. k \in 1 .. e
    BY <2>3, <1>3, <1>6 DEF e
  <2> QED BY <2>2, <2>4, <1>8, <1>9 DEF Covers
<1>12. LayoutBy(ds, sd, lev2, dep2)
  BY <1>10, <1>11 DEF LayoutBy
<1> QED BY <1>8, <1>12 DEF LayoutOK

(* function() puts its two scopes on at once.                              *)
LEMMA TwoScopes ==
  ASSUME NEW S, NEW sc \in Seq(S), NEW s \in S, NEW t \in S
  PROVE  sc \o <<s, t>> = Append(Append(sc, s), t)
<1> DEFINE l == sc \o <<s, t>>
           r == Append(Append(sc, s), t)
           n == Len(sc)
<1>1. n \in Nat /\ DOMAIN sc = 1 .. n
  BY SeqIs
<1>2. <<s, t>> \in Seq(S) /\ Len(<<s, t>>) = 2 /\ <<s, t>>[1] = s /\ <<s, t>>[2] = t
  OBVIOUS
<1>3. /\ l \in Seq(S) /\ Len(l) = n + 2
      /\ \A i \in 1 .. n + 2 : l[i] = IF i <= n THEN sc[i] ELSE <<s, t>>[i - n]
  <2>1. l \in Seq(S) /\ Len(l) = Len(sc) + Len(<<s, t>>)
    BY <1>2, ConcatProperties
  <2>2. \A i \in 1 .. Len(sc) + Len(<<s, t>>) :
          l[i] = IF i <= Len(sc) THEN sc[i] ELSE <<s, t>>[i - Len(sc)]
    BY <1>2, ConcatProperties
  <2> QED BY <2>1, <2>2, <1>2
<1>4. /\ Append(sc, s) \in Seq(S) /\ Len(Append(sc, s)) = n + 1 /\ Append(sc, s)[n + 1] = s
      /\ \A i \in 1 .. n : Append(sc, s)[i] = sc[i]
  BY Appended
<1>5. /\ r \in Seq(S) /\ Len(r) = n + 1 + 1 /\ r[n + 1 + 1] = t
      /\ \A i \in 1 .. n + 1 : r[i] = Append(sc, s)[i]
  <2> DEFINE q == Append(sc, s)
  <2>1. q \in Seq(S) /\ Len(q) = n + 1
    BY <1>4
  <2> HIDE DEF q, n
  <2>2. /\ Append(q, t) \in Seq(S) /\ Len(Append(q, t)) = Len(q) + 1
        /\ Append(q, t)[Len(q) + 1] = t
        /\ \A i \in 1 .. Len(q) : Append(q, t)[i] = q[i]
    BY <2>1, Appended
  <2> QED BY <2>1, <2>2 DEF q
<1>6. ASSUME NEW i \in 1 .. n + 2 PROVE l[i] = r[i]
  <2>1. CASE i <= n
    <3>1. i \in 1 .. n /\ i \in 1 .. n + 1
      BY <2>1, <1>1
    <3> QED BY <3>1, <2>1, <1>3, <1>4, <1>5
  <2>2. CASE i = n + 1
    <3>1. ~(i <= n) /\ i - n = 1 /\ i \in 1 .. n + 1
      BY <2>2, <1>1
    <3> QED BY <3>1, <2>2, <1>2, <1>3, <1>4, <1>5
  <2>3. CASE i = n + 2
    <3>1. ~(i <= n) /\ i - n = 2 /\ i = n + 1 + 1
      BY <2>3, <1>1
    <3> QED BY <3>1, <1>2, <1>3, <1>5
  <2> QED BY <2>1, <2>2, <2>3, <1>1
<1>7. Len(l) = Len(r) /\ l \in Seq(S) /\ r \in Seq(S) /\ Len(l) = n + 2
  BY <1>1, <1>3, <1>5
<1> HIDE DEF l, r, n
<1>8. l = r
  BY <1>6, <1>7, SeqEqual
<1> QED BY <1>8 DEF l, r
-----------------------------------------------------------------------------
(* Upvalues.                                                               *)

(* What Entries(m, i, n) is at level l, if at says what it is below.       *)
Entry(at, m, i, l) ==
  IF l = m + 1 THEN add_upvalue(compilers[l].upvalues, i, TRUE)
  ELSE add_upvalue(compilers[l].upvalues, at[l - 1], FALSE)

IsEntries(at, m, i, n) == at = [l \in m + 1 .. n |-> Entry(at, m, i, l)]

LEMMA EntriesExist ==
  ASSUME NEW m \in Nat, NEW i, NEW n \in Nat
  PROVE  \E at : IsEntries(at, m, i, n)
<1> DEFINE S == {k \in Nat : ~ \E at : IsEntries(at, m, i, k)}
<1>1. SUFFICES ASSUME S # {} PROVE FALSE
  BY DEF S
<1> HIDE DEF S
<1>2. PICK k \in S : \A e \in S : k <= e
  <2>1. S \in SUBSET Nat
    BY DEF S
  <2> QED BY <1>1, <2>1, LeastElement
<1>3. k \in Nat /\ ~ \E at : IsEntries(at, m, i, k)
  BY <1>2 DEF S
<1>4. CASE k <= m
  <2> DEFINE f == [l \in m + 1 .. k |-> 0]
  <2>1. m + 1 .. k = {}
    BY <1>3, <1>4
  <2>2. f = [l \in m + 1 .. k |-> Entry(f, m, i, l)]
    BY <2>1
  <2> HIDE DEF f
  <2>3. IsEntries(f, m, i, k)
    BY <2>2 DEF IsEntries
  <2> QED BY <2>3, <1>3
<1>5. CASE k > m
  <2>1. k - 1 \in Nat /\ ~(k <= k - 1)
    BY <1>3, <1>5
  <2>2. PICK f : IsEntries(f, m, i, k - 1)
    <3> DEFINE e == k - 1
    <3>1. e \in Nat /\ e \notin S
      BY <1>2, <2>1
    <3> HIDE DEF e
    <3>2. \E at : IsEntries(at, m, i, e)
      BY <3>1 DEF S
    <3> QED BY <3>2 DEF e
  <2> DEFINE h == Entry(f, m, i, k)
             g == [l \in m + 1 .. k |-> IF l = k THEN h ELSE f[l]]
  <2>3. ASSUME NEW l \in m + 1 .. k PROVE g[l] = Entry(g, m, i, l)
    <3>1. l # m + 1 => g[l - 1] = f[l - 1]
      BY <1>3
    <3>2. Entry(g, m, i, l) = Entry(f, m, i, l)
      <4>1. CASE l = m + 1
        BY <4>1 DEF Entry
      <4>2. CASE l # m + 1
        <5>1. g[l - 1] = f[l - 1]
          BY <3>1, <4>2
        <5> HIDE DEF g
        <5> QED BY <5>1, <4>2 DEF Entry
      <4> QED BY <4>1, <4>2
    <3>3. CASE l = k
      BY <3>2, <3>3
    <3>4. CASE l # k
      <4>1. l \in m + 1 .. k - 1 /\ g[l] = f[l]
        BY <3>4, <1>3
      <4>2. f[l] = Entry(f, m, i, l)
        BY <4>1, <2>2 DEF IsEntries
      <4> QED BY <3>2, <4>1, <4>2
    <3> QED BY <3>3, <3>4
  <2>4. DOMAIN g = m + 1 .. k /\ g = [l \in m + 1 .. k |-> g[l]]
    OBVIOUS
  <2> HIDE DEF g
  <2>5. IsEntries(g, m, i, k)
    BY <2>3, <2>4 DEF IsEntries
  <2> QED BY <2>5, <1>3
<1> QED BY <1>3, <1>4, <1>5

LEMMA EntriesAre ==
  ASSUME NEW m \in Nat, NEW i, NEW n \in Nat, NEW at, at = Entries(m, i, n),
         NEW l \in m + 1 .. n
  PROVE  at[l] = Entry(at, m, i, l)
<1>1. Entries(m, i, n) = CHOOSE f : IsEntries(f, m, i, n)
  BY DEF Entries, IsEntries, Entry
<1>2. IsEntries(at, m, i, n)
  BY <1>1, EntriesExist
<1> QED BY <1>2 DEF IsEntries

LEMMA AddUpvalueIs ==
  ASSUME NEW ups \in Seq(UpvalueSet), NEW index, NEW b \in BOOLEAN,
         NEW r, r = add_upvalue(ups, index, b)
  PROVE  \/ r \in DOMAIN ups /\ ups[r].index = index /\ ups[r].is_local = b
         \/ r = Len(ups) + 1 /\ \A k \in DOMAIN ups : ~(ups[k].index = index /\ ups[k].is_local = b)
<1> DEFINE same == {k \in DOMAIN ups : ups[k].index = index /\ ups[k].is_local = b}
<1>1. r = IF same = {} THEN Len(ups) + 1 ELSE CHOOSE k \in same : TRUE
  BY DEF add_upvalue
<1>2. CASE same = {}
  BY <1>1, <1>2
<1>3. CASE same # {}
  <2>1. r \in same
    BY <1>1, <1>3
  <2> QED BY <2>1
<1> QED BY <1>2, <1>3

LEMMA UpvalueFrom ==
  ASSUME NEW u \in UpvalueSet
  PROVE  (u.is_local = TRUE <=> OfLocal(u)) /\ (u.is_local = FALSE <=> ~OfLocal(u))
<1>1. u.is_local \in BOOLEAN
  BY DEF UpvalueSet
<1> QED BY <1>1 DEF OfLocal

(* Place k is where the upvalue for declaration d is or will be.           *)
PlaceOf(ups, k, d) ==
  \/ k \in DOMAIN ups /\ ups[k].decl = d
  \/ k = Len(ups) + 1 /\ \A j \in DOMAIN ups : ups[j].decl # d

(* An upvalue of a local of level m is resolved to a local there, or       *)
(* further in to an upvalue.                                               *)
LEMMA ResolvedIn ==
  ASSUME NEW cs, NEW tk, Chained(cs, tk), NEW m \in DOMAIN cs, NEW i \in DOMAIN cs[m].locals,
         NEW l \in DOMAIN cs, l > m, NEW k \in DOMAIN cs[l].upvalues,
         cs[l].upvalues[k].decl = cs[m].locals[i].decl
  PROVE  IF l = m + 1
         THEN OfLocal(cs[l].upvalues[k]) /\ cs[l].upvalues[k].index = i
         ELSE /\ ~OfLocal(cs[l].upvalues[k])
              /\ cs[l].upvalues[k].index \in DOMAIN cs[l - 1].upvalues
              /\ cs[l - 1].upvalues[cs[l].upvalues[k].index].decl = cs[m].locals[i].decl
<1> DEFINE u == cs[l].upvalues[k]
           D == cs[m].locals[i].decl
           e == l - 1
<1>1. /\ Len(cs) \in Nat /\ DOMAIN cs = 1 .. Len(cs) /\ e \in 1 .. Len(cs)
      /\ (e = m <=> l = m + 1) /\ e >= m
  BY ChainIs
<1>2. Distinct(cs) /\ UpvaluesOK(cs)
  BY DEF Chained
<1>3. /\ u.decl = D
      /\ IF OfLocal(u)
         THEN u.index \in DOMAIN cs[e].locals /\ cs[e].locals[u.index].decl = u.decl
         ELSE u.index \in DOMAIN cs[e].upvalues /\ cs[e].upvalues[u.index].decl = u.decl
  <2>1. Resolved(cs, l, cs[l].upvalues[k])
    BY <1>2 DEF UpvaluesOK
  <2> QED BY <2>1 DEF Resolved
<1>4. ASSUME OfLocal(u) PROVE e = m /\ u.index = i
  <2>1. u.index \in DOMAIN cs[e].locals /\ cs[e].locals[u.index].decl = cs[m].locals[i].decl
    BY <1>3, <1>4
  <2> HIDE DEF u, e
  <2> QED BY <2>1, <1>1, <1>2 DEF Distinct
<1>5. ASSUME ~OfLocal(u) PROVE e # m
  <2> SUFFICES ASSUME e = m PROVE FALSE
    OBVIOUS
  <2>1. u.index \in DOMAIN cs[m].upvalues /\ cs[m].upvalues[u.index].decl = D
    BY <1>3, <1>5
  <2>2. Resolved(cs, m, cs[m].upvalues[u.index])
    BY <2>1, <1>2 DEF UpvaluesOK
  <2>3. PICK p \in 1 .. m - 1 : D \in DeclsOf(cs[p].locals)
    BY <2>1, <2>2 DEF Resolved
  <2>4. p \in DOMAIN cs /\ p # m
    BY <1>1
  <2>5. PICK j \in DOMAIN cs[p].locals : cs[p].locals[j].decl = D
    BY <2>3 DEF DeclsOf
  <2> QED BY <2>4, <2>5, <1>2 DEF Distinct
<1> HIDE DEF u, e, D
<1>6. CASE OfLocal(u)
  BY <1>1, <1>4, <1>6 DEF u
<1>7. CASE ~OfLocal(u)
  <2>1. e # m /\ u.index \in DOMAIN cs[e].upvalues /\ cs[e].upvalues[u.index].decl = D
    BY <1>3, <1>5, <1>7
  <2> QED BY <2>1, <1>1, <1>7 DEF u, e, D
<1> QED BY <1>6, <1>7

(* What resolve_upvalue returns in a level is the place of the declaration.*)
LEMMA EntryIs ==
  ASSUME Chained(compilers, taken), NEW m \in DOMAIN compilers, NEW i \in DOMAIN compilers[m].locals,
         NEW at, at = Entries(m, i, Level), NEW l \in m + 1 .. Level,
         l # m + 1 => PlaceOf(compilers[l - 1].upvalues, at[l - 1], compilers[m].locals[i].decl)
  PROVE  PlaceOf(compilers[l].upvalues, at[l], compilers[m].locals[i].decl)
<1> DEFINE n == Len(compilers)
           D == compilers[m].locals[i].decl
           ups == compilers[l].upvalues
           r == at[l]
           e == l - 1
<1>1. n \in Nat /\ DOMAIN compilers = 1 .. n /\ Level = n /\ \A p \in 1 .. n : CompOK(compilers[p])
  BY ChainIs DEF Level
<1>2. m \in Nat /\ l \in DOMAIN compilers /\ l > m /\ e \in DOMAIN compilers /\ e # 0
  BY <1>1
<1>3. /\ ups \in Seq(UpvalueSet) /\ DOMAIN ups = 1 .. Len(ups)
      /\ \A k \in 1 .. Len(ups) : ups[k] \in UpvalueSet
  BY <1>1, <1>2, CompIs
<1>4. r = Entry(at, m, i, l)
  BY <1>1, <1>2, EntriesAre
<1>5. \A k \in DOMAIN ups : Resolved(compilers, l, ups[k])
  BY <1>2 DEF Chained, UpvaluesOK
<1>6. ASSUME NEW k \in DOMAIN ups, ups[k].decl = D
      PROVE  IF l = m + 1 THEN OfLocal(ups[k]) /\ ups[k].index = i
             ELSE /\ ~OfLocal(ups[k]) /\ ups[k].index \in DOMAIN compilers[e].upvalues
                  /\ compilers[e].upvalues[ups[k].index].decl = D
  BY <1>2, <1>6, ResolvedIn
<1> HIDE DEF ups, D, r, n
<1>7. CASE l = m + 1
  <2>1. r = add_upvalue(ups, i, TRUE)
    BY <1>4, <1>7 DEF Entry, ups
  <2>2. \/ r \in DOMAIN ups /\ ups[r].index = i /\ ups[r].is_local = TRUE
        \/ r = Len(ups) + 1 /\ \A k \in DOMAIN ups : ~(ups[k].index = i /\ ups[k].is_local = TRUE)
    <3>1. TRUE \in BOOLEAN
      OBVIOUS
    <3> QED BY <2>1, <3>1, <1>3, AddUpvalueIs
  <2>3. CASE r \in DOMAIN ups /\ ups[r].index = i /\ ups[r].is_local = TRUE
    <3>1. OfLocal(ups[r]) /\ Resolved(compilers, l, ups[r])
      BY <2>3, <1>5 DEF OfLocal
    <3>2. compilers[l - 1].locals[ups[r].index].decl = ups[r].decl
      BY <3>1 DEF Resolved
    <3>3. l - 1 = m
      BY <1>2, <1>7
    <3>4. ups[r].decl = D
      BY <2>3, <3>2, <3>3 DEF D
    <3> QED BY <2>3, <3>4 DEF PlaceOf, ups, r, D
  <2>4. CASE r = Len(ups) + 1 /\ \A k \in DOMAIN ups : ~(ups[k].index = i /\ ups[k].is_local = TRUE)
    <3>1. \A k \in DOMAIN ups : ups[k].decl # D
      BY <2>4, <1>6, <1>7 DEF OfLocal
    <3> QED BY <2>4, <3>1 DEF PlaceOf, ups, r, D
  <2> QED BY <2>2, <2>3, <2>4
<1>8. CASE l # m + 1
  <2> DEFINE q == at[e]
             below == compilers[e].upvalues
  <2>1. r = add_upvalue(ups, q, FALSE)
    BY <1>4, <1>8 DEF Entry, ups
  <2>2. \/ r \in DOMAIN ups /\ ups[r].index = q /\ ups[r].is_local = FALSE
        \/ r = Len(ups) + 1 /\ \A k \in DOMAIN ups : ~(ups[k].index = q /\ ups[k].is_local = FALSE)
    <3>1. FALSE \in BOOLEAN
      OBVIOUS
    <3> HIDE DEF q
    <3> QED BY <2>1, <3>1, <1>3, AddUpvalueIs
  <2>3. PlaceOf(below, q, D)
    BY <1>8 DEF D
  <2>4. \A j, k \in DOMAIN below : below[j].decl = below[k].decl => j = k
    BY <1>2 DEF Chained, UpvaluesOK
  <2>5. DOMAIN below = 1 .. Len(below) /\ Len(below) \in Nat
    BY <1>1, <1>2, CompIs
  <2>6. \A k \in DOMAIN ups : ~OfLocal(ups[k]) =>
          ups[k].index \in DOMAIN below /\ below[ups[k].index].decl = ups[k].decl
    BY <1>5 DEF Resolved
  <2>7. ASSUME NEW k \in DOMAIN ups, ups[k].decl = D
        PROVE  ~OfLocal(ups[k]) /\ ups[k].index \in DOMAIN below /\ below[ups[k].index].decl = D
    BY <2>7, <1>6, <1>8
  <2> HIDE DEF q, below, e
  <2>8. CASE r \in DOMAIN ups /\ ups[r].index = q /\ ups[r].is_local = FALSE
    <3>1. ~OfLocal(ups[r])
      BY <2>8, <1>3, UpvalueFrom
    <3>2. q \in DOMAIN below /\ below[q].decl = ups[r].decl
      BY <2>6, <2>8, <3>1
    <3>3. below[q].decl = D
      BY <2>3, <2>5, <3>2 DEF PlaceOf
    <3> QED BY <2>8, <3>2, <3>3 DEF PlaceOf, ups, r, D
  <2>9. CASE r = Len(ups) + 1 /\ \A k \in DOMAIN ups : ~(ups[k].index = q /\ ups[k].is_local = FALSE)
    <3>1. ASSUME NEW k \in DOMAIN ups, ups[k].decl = D PROVE FALSE
      <4>1. ~OfLocal(ups[k]) /\ ups[k].index \in DOMAIN below /\ below[ups[k].index].decl = D
        BY <2>7, <3>1
      <4>2. q \in DOMAIN below /\ below[q].decl = D
        BY <2>3, <4>1 DEF PlaceOf
      <4>3. ups[k].index = q
        BY <2>4, <4>1, <4>2
      <4>4. ups[k].is_local = FALSE
        BY <4>1, <1>3, UpvalueFrom
      <4> QED BY <2>9, <4>3, <4>4
    <3> QED BY <2>9, <3>1 DEF PlaceOf, ups, r, D
  <2> QED BY <2>2, <2>8, <2>9
<1> QED BY <1>7, <1>8

LEMMA EntriesArePlaces ==
  ASSUME Chained(compilers, taken), NEW m \in DOMAIN compilers, NEW i \in DOMAIN compilers[m].locals,
         NEW at, at = Entries(m, i, Level)
  PROVE  \A l \in m + 1 .. Level : PlaceOf(compilers[l].upvalues, at[l], compilers[m].locals[i].decl)
<1> DEFINE P(l) == PlaceOf(compilers[l].upvalues, at[l], compilers[m].locals[i].decl)
           S == {l \in m + 1 .. Level : ~P(l)}
<1>1. m \in Nat /\ Level \in Nat
  BY ChainIs DEF Level
<1>2. SUFFICES ASSUME S # {} PROVE FALSE
  BY DEF S
<1>3. S \in SUBSET Nat
  BY <1>1
<1> HIDE DEF S
<1>4. PICK l \in S : \A e \in S : l <= e
  BY <1>2, <1>3, LeastElement
<1>5. l \in m + 1 .. Level /\ ~P(l)
  BY DEF S
<1>6. ASSUME l # m + 1 PROVE P(l - 1)
  <2> DEFINE e == l - 1
  <2>1. e \in m + 1 .. Level /\ ~(l <= e)
    BY <1>1, <1>5, <1>6
  <2> HIDE DEF e
  <2>2. e \notin S
    BY <2>1, <1>4
  <2>3. P(e)
    BY <2>1, <2>2 DEF S
  <2> QED BY <2>3 DEF e
<1>7. P(l)
  BY <1>5, <1>6, EntryIs
<1> QED BY <1>5, <1>7

(* The upvalues V are the upvalues U, and then perhaps the upvalue e at k. *)
WithEntry(U, V, k, e) ==
  \/ V = U /\ k \in DOMAIN U /\ U[k].decl = e.decl
  \/ /\ DOMAIN V = 1 .. Len(U) + 1 /\ k = Len(U) + 1 /\ V[k] = e
     /\ \A j \in 1 .. Len(U) : V[j] = U[j]
     /\ \A j \in DOMAIN U : U[j].decl # e.decl

(* The compilers after a local of level m was captured for the innermost   *)
(* function, which has it at at[Len(cs)].                                  *)
Passing(cs, ds, m, i, at, l) ==
  /\ CompOK(ds[l]) /\ ds[l].scope_depth = cs[l].scope_depth
  /\ SameLocals(cs[l].locals, ds[l].locals)
  /\ \A j \in DOMAIN cs[l].locals :
       (ds[l].locals[j].is_captured = TRUE)
         <=> ((l = m /\ j = i) \/ cs[l].locals[j].is_captured = TRUE)
  /\ IF l > m
     THEN \E e \in UpvalueSet :
            /\ WithEntry(cs[l].upvalues, ds[l].upvalues, at[l], e)
            /\ (OfLocal(e) <=> l = m + 1)
            /\ e.index = (IF l = m + 1 THEN i ELSE at[l - 1])
            /\ e.decl = cs[m].locals[i].decl
     ELSE ds[l].upvalues = cs[l].upvalues

Passed(cs, ds, m, i, at) == \A l \in DOMAIN cs : Passing(cs, ds, m, i, at, l)

LEMMA Passes ==
  ASSUME Chained(compilers, taken), NEW m \in DOMAIN compilers, NEW i \in DOMAIN compilers[m].locals,
         NEW at, at = Entries(m, i, Level), NEW ds, ds = resolve_upvalue(m, i)
  PROVE  /\ ds \in Seq(CompSet) /\ Len(ds) = Len(compilers) /\ DOMAIN ds = DOMAIN compilers
         /\ \A l \in DOMAIN compilers : Passing(compilers, ds, m, i, at, l)
<1> DEFINE n == Len(compilers)
           D == compilers[m].locals[i].decl
<1>1. /\ n \in Nat /\ DOMAIN compilers = 1 .. n /\ Level = n
      /\ \A p \in 1 .. n : CompOK(compilers[p])
  BY ChainIs DEF Level
<1>2. /\ m \in Nat /\ m \in 1 .. n
      /\ \A l \in m + 1 .. n : PlaceOf(compilers[l].upvalues, at[l], D)
  BY <1>1, EntriesArePlaces
<1>3. ASSUME NEW l \in 1 .. n
      PROVE  ds[l] = IF l = m THEN MarkCaptured(compilers[m], i)
                     ELSE IF l > m /\ at[l] > Len(compilers[l].upvalues)
                     THEN [compilers[l] EXCEPT !.upvalues = Append(@, NewEntry(m, i, l, at))]
                     ELSE compilers[l]
  BY <1>1 DEF resolve_upvalue
<1>4. DOMAIN ds = 1 .. n
  BY <1>1 DEF resolve_upvalue
<1>5. i \in Nat \ {0} /\ D \in Decl
  BY <1>1, <1>2, CompIs
<1>6. ASSUME NEW K PROVE SameLocals(K, K)
  BY DEF SameLocals
<1> HIDE DEF n, D
<1>7. ASSUME NEW l \in 1 .. n PROVE Passing(compilers, ds, m, i, at, l)
  <2>1. CASE l = m
    <3>1. ds[m] = MarkCaptured(compilers[m], i) /\ CompOK(compilers[m])
      BY <2>1, <1>1, <1>3
    <3>2. ~(m > m)
      BY <1>2
    <3> DEFINE comp == compilers[m]
               g == ds[m]
    <3>3. CompOK(comp) /\ g = MarkCaptured(comp, i) /\ i \in DOMAIN comp.locals
      BY <3>1
    <3> HIDE DEF comp, g
    <3>4. /\ CompOK(g) /\ g.upvalues = comp.upvalues /\ g.scope_depth = comp.scope_depth
          /\ SameLocals(comp.locals, g.locals) /\ NowCaptured(comp.locals, g.locals, i)
      BY <3>3, CaptureComp
    <3>7. /\ CompOK(ds[l]) /\ ds[l].scope_depth = compilers[l].scope_depth
          /\ SameLocals(compilers[l].locals, ds[l].locals)
          /\ ds[l].upvalues = compilers[l].upvalues
      BY <3>4, <2>1 DEF comp, g
    <3>8. \A j \in DOMAIN compilers[l].locals :
            (ds[l].locals[j].is_captured = TRUE)
              <=> ((l = m /\ j = i) \/ compilers[l].locals[j].is_captured = TRUE)
      BY <3>4, <2>1 DEF NowCaptured, comp, g
    <3> QED BY <3>2, <3>7, <3>8, <2>1 DEF Passing
  <2>2. CASE l < m
    <3>1. CompOK(compilers[l]) /\ ~(l > m) /\ l # m
      BY <2>2, <1>1, <1>2
    <3>2. ds[l] = compilers[l]
      BY <3>1, <1>3
    <3> QED BY <3>1, <3>2, <1>6 DEF Passing
  <2>3. CASE l > m
    <3> DEFINE comp == compilers[l]
               e == NewEntry(m, i, l, at)
               U == comp.upvalues
               k == at[l]
    <3>1. /\ l # m /\ l \in m + 1 .. n /\ CompOK(comp) /\ PlaceOf(U, k, D)
          /\ U \in Seq(UpvalueSet) /\ Len(U) \in Nat /\ DOMAIN U = 1 .. Len(U)
      <4>1. l # m /\ l \in m + 1 .. n /\ CompOK(comp)
        BY <2>3, <1>1, <1>2
      <4>2. PlaceOf(U, k, D)
        BY <4>1, <1>2
      <4> QED BY <4>1, <4>2, CompIs
    <3>2. l # m + 1 => at[l - 1] \in Nat \ {0}
      <4> SUFFICES ASSUME l # m + 1 PROVE at[l - 1] \in Nat \ {0}
        OBVIOUS
      <4> DEFINE b == l - 1
                 W == compilers[b].upvalues
                 q == at[b]
      <4>1. b \in m + 1 .. n /\ b \in 1 .. n
        BY <3>1, <1>1, <1>2
      <4>2. PlaceOf(W, q, D) /\ DOMAIN W = 1 .. Len(W) /\ Len(W) \in Nat
        BY <4>1, <1>1, <1>2, CompIs
      <4> HIDE DEF W, q
      <4>3. q \in Nat \ {0}
        BY <4>2 DEF PlaceOf
      <4> QED BY <4>3 DEF q
    <3>3. /\ e \in UpvalueSet /\ e.decl = D /\ (OfLocal(e) <=> l = m + 1)
          /\ e.index = (IF l = m + 1 THEN i ELSE at[l - 1])
      <4>1. e = [index |-> IF l = m + 1 THEN i ELSE at[l - 1], is_local |-> l = m + 1, decl |-> D]
        BY DEF NewEntry, D
      <4> HIDE DEF e
      <4>2. CASE l = m + 1
        <5>1. e = [index |-> i, is_local |-> TRUE, decl |-> D]
          BY <4>1, <4>2
        <5> QED BY <5>1, <4>2, <1>5 DEF UpvalueSet, OfLocal
      <4>3. CASE l # m + 1
        <5>1. e = [index |-> at[l - 1], is_local |-> FALSE, decl |-> D]
          BY <4>1, <4>3
        <5> QED BY <5>1, <4>3, <1>5, <3>2 DEF UpvalueSet, OfLocal
      <4> QED BY <4>2, <4>3
    <3>4. ds[l] = IF k > Len(U) THEN [comp EXCEPT !.upvalues = Append(@, e)] ELSE comp
      BY <1>3, <3>1, <2>3
    <3> HIDE DEF comp, e, U, k
    <3>5. /\ CompOK(ds[l]) /\ ds[l].scope_depth = comp.scope_depth /\ ds[l].locals = comp.locals
          /\ WithEntry(U, ds[l].upvalues, k, e)
      <4>1. CASE k \in DOMAIN U /\ U[k].decl = D
        <5>1. ~(k > Len(U))
          BY <4>1, <3>1
        <5>2. ds[l] = comp
          BY <5>1, <3>4
        <5> QED BY <5>2, <4>1, <3>1, <3>3 DEF WithEntry, U
      <4>2. CASE k = Len(U) + 1 /\ \A j \in DOMAIN U : U[j].decl # D
        <5> DEFINE g == ds[l]
        <5>1. k > Len(U)
          BY <4>2, <3>1
        <5>2. g = [comp EXCEPT !.upvalues = Append(@, e)]
          BY <5>1, <3>4
        <5> HIDE DEF g
        <5>3. /\ CompOK(g) /\ g.scope_depth = comp.scope_depth /\ g.locals = comp.locals
              /\ DOMAIN g.upvalues = 1 .. Len(U) + 1 /\ g.upvalues[Len(U) + 1] = e
              /\ \A j \in 1 .. Len(U) : g.upvalues[j] = U[j]
          BY <5>2, <3>1, <3>3, PassComp DEF U
        <5>4. WithEntry(U, g.upvalues, k, e)
          BY <5>3, <4>2, <3>3 DEF WithEntry
        <5> QED BY <5>3, <5>4 DEF g
      <4> QED BY <4>1, <4>2, <3>1 DEF PlaceOf
    <3>6. \E f \in UpvalueSet :
            /\ WithEntry(compilers[l].upvalues, ds[l].upvalues, at[l], f)
            /\ (OfLocal(f) <=> l = m + 1)
            /\ f.index = (IF l = m + 1 THEN i ELSE at[l - 1])
            /\ f.decl = compilers[m].locals[i].decl
      BY <3>3, <3>5 DEF comp, U, k, D
    <3>7. \A j \in DOMAIN compilers[l].locals :
            ds[l].locals[j].is_captured = compilers[l].locals[j].is_captured
      BY <3>5 DEF comp
    <3> QED BY <3>1, <3>5, <3>6, <3>7, <1>6, <2>3 DEF Passing, comp
  <2> QED BY <2>1, <2>2, <2>3, <1>2
<1>8. ds \in Seq(CompSet) /\ Len(ds) = n
  <2>1. \A l \in 1 .. n : ds[l] \in CompSet
    BY <1>7 DEF Passing, CompOK
  <2>2. ds = [l \in 1 .. n |-> ds[l]]
    BY <1>1 DEF resolve_upvalue
  <2>3. ds \in [1 .. n -> CompSet]
    BY <2>1, <2>2
  <2> QED BY <2>3, <1>1, ListIs
<1> QED BY <1>1, <1>4, <1>7, <1>8 DEF n

LEMMA ResolveStep ==
  ASSUME NEW cs, NEW tk, Chained(cs, tk), NEW m \in DOMAIN cs, NEW i \in DOMAIN cs[m].locals,
         m < Len(cs), NEW at, NEW ds \in Seq(CompSet), Len(ds) = Len(cs),
         Passed(cs, ds, m, i, at)
  PROVE  /\ Chained(ds, tk)
         /\ at[Len(ds)] \in DOMAIN Last(ds).upvalues
         /\ Last(ds).upvalues[at[Len(ds)]].decl = cs[m].locals[i].decl
<1> USE DEF Passed
<1> DEFINE n == Len(cs)
           D == cs[m].locals[i].decl
<1>1. /\ n \in Nat /\ DOMAIN cs = 1 .. n /\ n > 0 /\ m \in 1 .. n /\ m < n
      /\ \A p \in 1 .. n : CompOK(cs[p])
  BY ChainIs
<1>2. DOMAIN ds = 1 .. n /\ Last(ds) = ds[n] /\ ds # <<>>
  BY <1>1, SeqIs DEF Last
<1>3. Distinct(cs) /\ UpvaluesOK(cs) /\ CapturedOK(cs, tk)
  BY DEF Chained
<1>4. ASSUME NEW l \in 1 .. n
      PROVE  /\ CompOK(ds[l]) /\ ds[l].scope_depth = cs[l].scope_depth
             /\ SameLocals(cs[l].locals, ds[l].locals)
             /\ \A j \in DOMAIN cs[l].locals :
                  (ds[l].locals[j].is_captured = TRUE)
                    <=> ((l = m /\ j = i) \/ cs[l].locals[j].is_captured = TRUE)
             /\ l <= m => ds[l].upvalues = cs[l].upvalues
  <2>1. Passing(cs, ds, m, i, at, l)
    BY <1>1
  <2>2. l <= m => ~(l > m)
    BY <1>1
  <2> QED BY <2>1, <2>2 DEF Passing
<1> HIDE DEF n, D
<1>5. ASSUME NEW l \in 1 .. n, l > m
      PROVE  \E e \in UpvalueSet :
               /\ WithEntry(cs[l].upvalues, ds[l].upvalues, at[l], e)
               /\ (OfLocal(e) <=> l = m + 1)
               /\ e.index = (IF l = m + 1 THEN i ELSE at[l - 1])
               /\ e.decl = D
  <2>1. Passing(cs, ds, m, i, at, l)
    BY <1>1
  <2> QED BY <2>1, <1>5 DEF Passing, D
<1>6. ASSUME NEW l \in 1 .. n
      PROVE  /\ DOMAIN cs[l].upvalues = 1 .. Len(cs[l].upvalues) /\ Len(cs[l].upvalues) \in Nat
             /\ DOMAIN ds[l].upvalues = 1 .. Len(ds[l].upvalues)
             /\ \A k \in DOMAIN cs[l].upvalues :
                  k \in DOMAIN ds[l].upvalues /\ ds[l].upvalues[k] = cs[l].upvalues[k]
             /\ l > m => at[l] \in DOMAIN ds[l].upvalues /\ ds[l].upvalues[at[l]].decl = D
  <2>1. /\ DOMAIN cs[l].upvalues = 1 .. Len(cs[l].upvalues) /\ Len(cs[l].upvalues) \in Nat
        /\ DOMAIN ds[l].upvalues = 1 .. Len(ds[l].upvalues)
    BY <1>1, <1>4, CompIs
  <2>2. CASE l <= m
    <3>1. ds[l].upvalues = cs[l].upvalues
      BY <2>2, <1>4
    <3>2. ~(l > m)
      BY <2>2, <1>1
    <3> QED BY <2>1, <3>1, <3>2
  <2>3. CASE l > m
    <3>1. PICK e \in UpvalueSet : WithEntry(cs[l].upvalues, ds[l].upvalues, at[l], e) /\ e.decl = D
      BY <2>3, <1>5
    <3> QED BY SMTT(30), <2>1, <3>1 DEF WithEntry
  <2> QED BY <2>1, <2>2, <2>3, <1>1
<1>7. ds # <<>> /\ \A l \in DOMAIN ds : CompOK(ds[l])
  BY <1>2, <1>4
<1>8. ASSUME NEW l \in 1 .. n
      PROVE  /\ DOMAIN ds[l].locals = DOMAIN cs[l].locals
             /\ \A j \in DOMAIN cs[l].locals : ds[l].locals[j].decl = cs[l].locals[j].decl
  BY <1>4 DEF SameLocals
<1>9. Distinct(ds)
  BY <1>1, <1>2, <1>3, <1>8 DEF Distinct
<1>10. ASSUME NEW l \in 1 .. n, NEW u, Resolved(cs, l, u) PROVE Resolved(ds, l, u)
  <2> DEFINE b == l - 1
  <2>1. b \in 1 .. n /\ l > 1
    BY <1>1, <1>10 DEF Resolved
  <2>2. PICK p \in 1 .. b : u.decl \in DeclsOf(cs[p].locals)
    BY <1>10 DEF Resolved
  <2>3. p \in 1 .. n
    BY <1>1, <2>1
  <2>4. u.decl \in DeclsOf(ds[p].locals)
    BY <2>2, <2>3, <1>8 DEF DeclsOf
  <2>5. IF OfLocal(u)
        THEN u.index \in DOMAIN cs[b].locals /\ cs[b].locals[u.index].decl = u.decl
        ELSE u.index \in DOMAIN cs[b].upvalues /\ cs[b].upvalues[u.index].decl = u.decl
    BY <1>10 DEF Resolved
  <2> HIDE DEF b
  <2>6. IF OfLocal(u)
        THEN u.index \in DOMAIN ds[b].locals /\ ds[b].locals[u.index].decl = u.decl
        ELSE u.index \in DOMAIN ds[b].upvalues /\ ds[b].upvalues[u.index].decl = u.decl
    BY <2>1, <2>5, <1>6, <1>8
  <2> QED BY <2>1, <2>4, <2>6 DEF Resolved, b
<1>11. ASSUME NEW l \in 1 .. n, l > m, NEW e \in UpvalueSet,
              OfLocal(e) <=> l = m + 1, e.index = (IF l = m + 1 THEN i ELSE at[l - 1]), e.decl = D
       PROVE  Resolved(ds, l, e)
  <2> DEFINE b == l - 1
  <2>1. b \in 1 .. n /\ l > 1 /\ m \in 1 .. b /\ (l = m + 1 <=> b = m) /\ (b = m \/ b > m)
    BY <1>1, <1>11
  <2>2. e.decl \in DeclsOf(ds[m].locals)
    BY <1>1, <1>8, <1>11 DEF DeclsOf, D
  <2>3. e.index = (IF b = m THEN i ELSE at[b])
    BY <2>1, <1>11
  <2>4. OfLocal(e) <=> b = m
    BY <2>1, <1>11
  <2> HIDE DEF b
  <2>5. IF OfLocal(e)
        THEN e.index \in DOMAIN ds[b].locals /\ ds[b].locals[e.index].decl = e.decl
        ELSE e.index \in DOMAIN ds[b].upvalues /\ ds[b].upvalues[e.index].decl = e.decl
    <3>1. CASE b = m
      BY <3>1, <2>3, <2>4, <1>1, <1>8, <1>11 DEF D
    <3>2. CASE b # m
      BY <3>2, <2>1, <2>3, <2>4, <1>6, <1>11
    <3> QED BY <3>1, <3>2
  <2> QED BY <2>1, <2>2, <2>5 DEF Resolved, b
<1>12. UpvaluesOK(ds)
  <2> SUFFICES ASSUME NEW l \in 1 .. n
               PROVE  /\ \A k \in DOMAIN ds[l].upvalues : Resolved(ds, l, ds[l].upvalues[k])
                      /\ \A j, k \in DOMAIN ds[l].upvalues :
                           ds[l].upvalues[j].decl = ds[l].upvalues[k].decl => j = k
    BY <1>2 DEF UpvaluesOK
  <2>1. /\ \A k \in DOMAIN cs[l].upvalues : Resolved(ds, l, cs[l].upvalues[k])
        /\ \A j, k \in DOMAIN cs[l].upvalues :
             cs[l].upvalues[j].decl = cs[l].upvalues[k].decl => j = k
    BY <1>1, <1>3, <1>10 DEF UpvaluesOK
  <2>2. CASE l <= m
    <3>1. ds[l].upvalues = cs[l].upvalues
      BY <2>2, <1>4
    <3> QED BY <2>1, <3>1
  <2>3. CASE l > m
    <3>1. PICK e \in UpvalueSet :
            /\ WithEntry(cs[l].upvalues, ds[l].upvalues, at[l], e)
            /\ (OfLocal(e) <=> l = m + 1)
            /\ e.index = (IF l = m + 1 THEN i ELSE at[l - 1])
            /\ e.decl = D
      BY <2>3, <1>5
    <3>2. Resolved(ds, l, e)
      BY <2>3, <3>1, <1>11
    <3> DEFINE U == cs[l].upvalues
               V == ds[l].upvalues
               q == at[l]
    <3>3. DOMAIN U = 1 .. Len(U) /\ Len(U) \in Nat
      BY <1>6
    <3>4. WithEntry(U, V, q, e)
      BY <3>1
    <3>5. /\ \A k \in DOMAIN U : Resolved(ds, l, U[k])
          /\ \A j, k \in DOMAIN U : U[j].decl = U[k].decl => j = k
      BY <2>1
    <3> HIDE DEF U, V, q
    <3>6. CASE V = U
      BY <3>5, <3>6 DEF U, V
    <3>7. CASE V # U
      <4>1. /\ DOMAIN V = 1 .. Len(U) + 1 /\ q = Len(U) + 1 /\ V[q] = e
            /\ \A j \in 1 .. Len(U) : V[j] = U[j]
            /\ \A j \in DOMAIN U : U[j].decl # e.decl
        BY <3>4, <3>7 DEF WithEntry
      <4>2. \A j \in DOMAIN V : j = q \/ (j \in DOMAIN U /\ V[j] = U[j])
        BY <4>1, <3>3
      <4>3. \A k \in DOMAIN V : Resolved(ds, l, V[k])
        BY <4>1, <4>2, <3>2, <3>5
      <4>4. \A j, k \in DOMAIN V : V[j].decl = V[k].decl => j = k
        BY <4>1, <4>2, <3>5
      <4> QED BY <4>3, <4>4 DEF V
    <3> QED BY <3>6, <3>7
  <2> QED BY <2>2, <2>3, <1>1
<1>13. CapturedOK(ds, tk)
  <2> SUFFICES ASSUME NEW l \in 1 .. n, NEW j \in DOMAIN cs[l].locals
               PROVE  (ds[l].locals[j].is_captured = TRUE)
                        <=> (ds[l].locals[j].decl \in tk \/ Captures(ds, l, j))
    BY <1>2, <1>8 DEF CapturedOK
  <2>1. (cs[l].locals[j].is_captured = TRUE)
          <=> (cs[l].locals[j].decl \in tk \/ Captures(cs, l, j))
    BY <1>1, <1>3 DEF CapturedOK
  <2>2. ds[l].locals[j].decl = cs[l].locals[j].decl
    BY <1>8
  <2>3. (ds[l].locals[j].is_captured = TRUE)
          <=> ((l = m /\ j = i) \/ cs[l].locals[j].is_captured = TRUE)
    BY <1>4
  <2>4. Captures(ds, l, j) <=> (Captures(cs, l, j) \/ (l = m /\ j = i))
    <3>1. CASE ~(l < n)
      BY <3>1, <1>1, <1>2 DEF Captures, n
    <3>2. CASE l < n
      <4> DEFINE h == l + 1
                 U == cs[h].upvalues
                 V == ds[h].upvalues
                 q == at[h]
      <4>1. h \in 1 .. n /\ (h = m + 1 <=> l = m) /\ (h <= m \/ h > m) /\ l \in Nat /\ m \in Nat
        BY <3>2, <1>1
      <4>2. Captures(cs, l, j) <=> \E k \in DOMAIN U : OfLocal(U[k]) /\ U[k].index = j
        BY <3>2 DEF Captures, n
      <4>3. Captures(ds, l, j) <=> \E k \in DOMAIN V : OfLocal(V[k]) /\ V[k].index = j
        BY <3>2 DEF Captures, n
      <4>4. CASE h <= m
        <5>1. V = U
          BY <4>1, <4>4, <1>4
        <5>2. l # m
          BY <4>1, <4>4
        <5> QED BY <5>1, <5>2, <4>2, <4>3
      <4>5. CASE h > m
        <5>1. PICK e \in UpvalueSet :
                /\ WithEntry(U, V, q, e) /\ (OfLocal(e) <=> h = m + 1)
                /\ e.index = (IF h = m + 1 THEN i ELSE at[h - 1]) /\ e.decl = D
          BY <4>1, <4>5, <1>5
        <5>2. DOMAIN U = 1 .. Len(U) /\ Len(U) \in Nat
          BY <4>1, <1>6
        <5>3. ASSUME NEW k \in DOMAIN U, U[k].decl = D, h = m + 1
              PROVE  OfLocal(U[k]) /\ U[k].index = i
          <6>1. h \in DOMAIN cs
            BY <4>1, <1>1
          <6> QED BY <5>3, <6>1, <4>5, ResolvedIn DEF D
        <5> HIDE DEF h, U, V, q
        <5>4. CASE V = U /\ q \in DOMAIN U /\ U[q].decl = e.decl
          <6>1. h = m + 1 => OfLocal(U[q]) /\ U[q].index = i
            BY <5>1, <5>3, <5>4
          <6> QED BY <6>1, <5>4, <4>1, <4>2, <4>3
        <5>5. CASE /\ DOMAIN V = 1 .. Len(U) + 1 /\ q = Len(U) + 1 /\ V[q] = e
                   /\ \A b \in 1 .. Len(U) : V[b] = U[b]
                   /\ \A b \in DOMAIN U : U[b].decl # e.decl
          <6>1. /\ \A b \in DOMAIN V : b = q \/ (b \in DOMAIN U /\ V[b] = U[b])
                /\ \A b \in DOMAIN U : b \in DOMAIN V /\ V[b] = U[b]
                /\ q \in DOMAIN V /\ V[q] = e
            BY <5>2, <5>5
          <6>2. OfLocal(e) /\ e.index = j <=> l = m /\ j = i
            BY <5>1, <4>1
          <6> QED BY <6>1, <6>2, <4>2, <4>3
        <5> QED BY <5>1, <5>4, <5>5 DEF WithEntry
      <4> QED BY <4>1, <4>4, <4>5
    <3> QED BY <3>1, <3>2
  <2>5. CASE l = m /\ j = i
    BY <2>3, <2>4, <2>5
  <2>6. CASE ~(l = m /\ j = i)
    BY <2>1, <2>2, <2>3, <2>4, <2>6
  <2> QED BY <2>5, <2>6
<1>14. tk \subseteq Used(ds)
  <2> SUFFICES ASSUME NEW d \in tk PROVE d \in Used(ds)
    OBVIOUS
  <2>1. PICK l \in DOMAIN cs : \E j \in DOMAIN cs[l].locals : cs[l].locals[j].decl = d
    BY UsedIs DEF Chained
  <2> QED BY <2>1, <1>1, <1>2, <1>8, UsedIs
<1>15. Chained(ds, tk)
  BY <1>7, <1>9, <1>12, <1>13, <1>14 DEF Chained
<1>16. n \in 1 .. n /\ n > m /\ Len(ds) = n
  BY <1>1 DEF n
<1> QED BY <1>2, <1>6, <1>15, <1>16 DEF D
-----------------------------------------------------------------------------
(* Names.                                                                  *)

NoLocal(K, x) == \A j \in DOMAIN K : K[j].name # x
LastLocal(K, x, i) == i \in DOMAIN K /\ K[i].name = x /\ \A j \in DOMAIN K : K[j].name = x => j <= i

LEMMA LocalIs ==
  ASSUME Chained(compilers, taken), NEW n \in DOMAIN compilers, NEW x, NEW i, i = resolve_local(n, x)
  PROVE  /\ i = 0 => NoLocal(compilers[n].locals, x)
         /\ i # 0 => LastLocal(compilers[n].locals, x, i)
<1> DEFINE K == compilers[n].locals
           found == {j \in DOMAIN K : K[j].name = x}
<1>1. i = IF found = {} THEN 0 ELSE CHOOSE j \in found : \A k \in found : k <= j
  BY DEF resolve_local
<1>2. DOMAIN K = 1 .. Len(K) /\ Len(K) \in Nat
  BY ChainIs, CompIs
<1> HIDE DEF K
<1>3. CASE found = {}
  BY <1>1, <1>3 DEF NoLocal, K
<1>4. CASE found # {}
  <2>1. found \in SUBSET (0 .. Len(K))
    BY <1>2
  <2>2. i = CHOOSE j \in found : \A k \in found : k <= j
    BY <1>1, <1>4
  <2> HIDE DEF found
  <2>3. \E j \in found : \A k \in found : k <= j
    BY <2>1, <1>2, <1>4, GreatestElement
  <2>4. i \in found /\ \A k \in found : k <= i
    BY <2>2, <2>3
  <2>5. LastLocal(K, x, i) /\ i # 0
    BY <2>4, <1>2 DEF LastLocal, found
  <2> QED BY <2>5 DEF K
<1> QED BY <1>3, <1>4

LEMMA HomeIs ==
  ASSUME Chained(compilers, taken), NEW x, NEW m, m = HomeLevel(Level, x),
         NEW i, i = resolve_local(m, x)
  PROVE  /\ m = 0 => \A p \in DOMAIN compilers : NoLocal(compilers[p].locals, x)
         /\ m # 0 => /\ m \in DOMAIN compilers /\ LastLocal(compilers[m].locals, x, i)
                     /\ \A p \in DOMAIN compilers : p > m => NoLocal(compilers[p].locals, x)
<1> DEFINE n == Level
           found == {p \in 1 .. n : resolve_local(p, x) # 0}
<1>1. n \in Nat /\ DOMAIN compilers = 1 .. n
  BY ChainIs DEF Level
<1>2. m = IF found = {} THEN 0 ELSE CHOOSE p \in found : \A k \in found : k <= p
  BY DEF HomeLevel
<1> HIDE DEF n
<1>3. \A p \in DOMAIN compilers : p \notin found => NoLocal(compilers[p].locals, x)
  BY <1>1, LocalIs
<1>4. CASE found = {}
  BY <1>2, <1>3, <1>4
<1>5. CASE found # {}
  <2>1. found \in SUBSET (0 .. n)
    BY <1>1
  <2>2. m = CHOOSE p \in found : \A k \in found : k <= p
    BY <1>2, <1>5
  <2> HIDE DEF found
  <2>3. \E p \in found : \A k \in found : k <= p
    BY <2>1, <1>1, <1>5, GreatestElement
  <2>4. m \in found /\ \A k \in found : k <= m
    BY <2>2, <2>3
  <2>5. m \in DOMAIN compilers /\ m # 0 /\ resolve_local(m, x) # 0
    BY <2>4, <1>1 DEF found
  <2>6. LastLocal(compilers[m].locals, x, i)
    BY <2>5, LocalIs
  <2>7. \A p \in DOMAIN compilers : p > m => p \notin found
    BY <2>4, <2>5, <1>1
  <2> QED BY <2>5, <2>6, <2>7, <1>3
<1> QED BY <1>4, <1>5

(* The last local of a name, in the innermost function that has one, is    *)
(* what the source means.                                                  *)
LEMMA MeantIs ==
  ASSUME Chained(compilers, taken), LayoutOK(compilers, scopes),
         NEW x, NEW m, m = HomeLevel(Level, x), NEW i, i = resolve_local(m, x)
  PROVE  /\ m = 0 => Binding(x) = {}
         /\ m # 0 /\ compilers[m].locals[i].depth # UNINITIALIZED =>
              Binding(x) # {} /\ Meant(x) = compilers[m].locals[i].decl
<1>1. PICK lev, dep : LayoutBy(compilers, scopes, lev, dep)
  BY DEF LayoutOK
<1>2. /\ lev \in [DOMAIN scopes -> DOMAIN compilers] /\ dep \in [DOMAIN scopes -> Nat]
      /\ \A k \in DOMAIN scopes : Holds(scopes[k], compilers[lev[k]].locals, dep[k])
      /\ \A j, k \in DOMAIN scopes : j < k => Before(lev, dep, j, k)
  BY <1>1 DEF LayoutBy, Placed
<1>3. Len(compilers) \in Nat /\ DOMAIN compilers = 1 .. Len(compilers)
  BY ChainIs
<1>4. Len(scopes) \in Nat /\ DOMAIN scopes = 1 .. Len(scopes)
  BY SeqIs DEF LayoutOK
<1>5. ASSUME NEW k \in Binding(x)
      PROVE  /\ k \in DOMAIN scopes /\ lev[k] \in DOMAIN compilers /\ dep[k] \in Nat
             /\ \E j \in DOMAIN compilers[lev[k]].locals :
                  /\ compilers[lev[k]].locals[j].name = x
                  /\ compilers[lev[k]].locals[j].depth = dep[k]
  <2>1. k \in DOMAIN scopes /\ x \in DOMAIN scopes[k]
    BY DEF Binding
  <2>2. Holds(scopes[k], compilers[lev[k]].locals, dep[k])
    BY <2>1, <1>2
  <2> QED BY <2>1, <2>2, <1>2 DEF Holds
<1>6. CASE m = 0
  <2>1. \A p \in DOMAIN compilers : NoLocal(compilers[p].locals, x)
    BY <1>6, HomeIs
  <2>2. ASSUME NEW k \in Binding(x) PROVE FALSE
    BY <2>1, <1>5 DEF NoLocal
  <2> QED BY <2>2, <1>6
<1>7. CASE m # 0 /\ compilers[m].locals[i].depth # UNINITIALIZED
  <2> DEFINE K == compilers[m].locals
             d == K[i].depth
  <2>1. /\ m \in DOMAIN compilers /\ LastLocal(K, x, i)
        /\ \A p \in DOMAIN compilers : p > m => NoLocal(compilers[p].locals, x)
    BY <1>7, HomeIs
  <2>2. /\ DOMAIN K = 1 .. Len(K) /\ Len(K) \in Nat /\ Sorted(K)
        /\ d \in Nat /\ d <= compilers[m].scope_depth /\ compilers[m].scope_depth \in Nat
    <3>1. CompOK(compilers[m])
      BY <2>1, <1>3, ChainIs
    <3>2. i \in 1 .. Len(K)
      BY <3>1, <2>1, CompIs DEF LastLocal
    <3> QED BY <3>1, <3>2, <1>7, CompIs DEF CompOK
  <2>3. PICK k \in DOMAIN scopes : lev[k] = m /\ dep[k] = d
    <3>1. d \in 0 .. compilers[m].scope_depth
      BY <2>2
    <3>2. Covers(scopes, lev, dep, m, d)
      BY <3>1, <2>1, <1>1 DEF LayoutBy
    <3> QED BY <3>2 DEF Covers
  <2>4. x \in DOMAIN scopes[k] /\ scopes[k][x] = K[i].decl
    BY <2>1, <2>3, <1>2 DEF Holds, LastLocal
  <2>5. k \in Binding(x)
    BY <2>4 DEF Binding
  <2>6. ASSUME NEW j \in Binding(x) PROVE j <= k
    <3>1. SUFFICES ASSUME k < j PROVE FALSE
      BY <2>5, <1>4, <1>5
    <3>2. PICK q \in DOMAIN compilers[lev[j]].locals :
            /\ compilers[lev[j]].locals[q].name = x
            /\ compilers[lev[j]].locals[q].depth = dep[j]
      BY <1>5
    <3>3. j \in DOMAIN scopes /\ lev[j] \in DOMAIN compilers /\ dep[j] \in Nat
      BY <1>5
    <3>4. ~(lev[j] > m)
      BY <3>2, <3>3, <2>1 DEF NoLocal
    <3>5. Before(lev, dep, k, j)
      BY <3>1, <3>3, <1>2
    <3>6. lev[j] = m /\ d < dep[j]
      BY <3>3, <3>4, <3>5, <2>1, <2>3, <1>3 DEF Before
    <3>7. q \in DOMAIN K /\ K[q].name = x /\ K[q].depth = dep[j]
      BY <3>2, <3>6
    <3> HIDE DEF K
    <3>8. q <= i /\ q # i /\ i \in DOMAIN K
      BY <3>6, <3>7, <3>3, <2>1, <2>2 DEF LastLocal
    <3>9. K[q].depth <= d
      BY <3>7, <3>8, <2>2, <1>7 DEF Sorted, K
    <3> QED BY <3>3, <3>6, <3>7, <3>9, <2>2
  <2>7. (CHOOSE p \in Binding(x) : \A j \in Binding(x) : j <= p) = k
    <3> DEFINE c == CHOOSE p \in Binding(x) : \A j \in Binding(x) : j <= p
    <3>1. c \in Binding(x) /\ \A j \in Binding(x) : j <= c
      BY <2>5, <2>6
    <3> HIDE DEF c
    <3>2. k <= c /\ c <= k /\ c \in DOMAIN scopes
      BY <3>1, <2>5, <2>6, <1>5
    <3> QED BY <3>2, <1>4 DEF c
  <2>8. Meant(x) = scopes[k][x]
    BY <2>7 DEF Meant
  <2> QED BY <2>4, <2>5, <2>8, <1>7
<1> QED BY <1>6, <1>7
-----------------------------------------------------------------------------
(* The steps.                                                              *)

LEMMA ChainKept ==
  ASSUME NEW cs, NEW tk, Chained(cs, tk), NEW comp, CompOK(comp),
         comp.upvalues = Last(cs).upvalues, Follow(cs, comp.locals),
         DOMAIN Last(cs).locals \subseteq DOMAIN comp.locals,
         NEW ds, ds = Sub(cs, Len(cs), comp)
  PROVE  Chained(ds, tk) /\ Updates(cs, ds, comp)
<1>1. ASSUME NEW tl, tl = tk \cap Used(ds) PROVE Chained(ds, tl) /\ Updates(cs, ds, comp)
  BY <1>1, ChainUpdated
<1>2. Chained(ds, tk \cap Used(ds)) /\ Updates(cs, ds, comp)
  <2> DEFINE tl == tk \cap Used(ds)
  <2>1. tl = tk \cap Used(ds)
    OBVIOUS
  <2> HIDE DEF tl
  <2>2. Chained(ds, tl) /\ Updates(cs, ds, comp)
    BY <2>1, <1>1
  <2> QED BY <2>2 DEF tl
<1>3. /\ Len(cs) \in DOMAIN cs /\ Last(cs) = cs[Len(cs)] /\ ds[Len(cs)] = comp
      /\ DOMAIN Last(cs).locals = 1 .. Len(Last(cs).locals) /\ Len(Last(cs).locals) \in Nat
  BY <1>2, ChainIs, CompIs DEF Updates
<1>4. tk \subseteq Used(ds)
  <2> SUFFICES ASSUME NEW d \in tk PROVE d \in Used(ds)
    OBVIOUS
  <2>1. PICK n \in DOMAIN cs : \E i \in DOMAIN cs[n].locals : cs[n].locals[i].decl = d
    BY UsedIs DEF Chained
  <2>2. PICK i \in DOMAIN cs[n].locals : cs[n].locals[i].decl = d
    BY <2>1
  <2>3. CASE n # Len(cs)
    <3>1. n \in DOMAIN ds /\ ds[n] = cs[n]
      BY <2>3, <1>2 DEF Updates
    <3> QED BY <3>1, <2>2, UsedIs
  <2>4. CASE n = Len(cs)
    <3>1. /\ i \in DOMAIN Last(cs).locals /\ Last(cs).locals[i].decl = d
          /\ i # Len(Last(cs).locals) + 1 /\ i \in DOMAIN comp.locals
      BY <2>2, <2>4, <1>3
    <3>2. comp.locals[i].decl = d
      BY <3>1 DEF Follow
    <3>3. n \in DOMAIN ds /\ i \in DOMAIN ds[n].locals /\ ds[n].locals[i].decl = d
      BY <3>1, <3>2, <2>4, <1>2, <1>3 DEF Updates
    <3> QED BY <3>3, UsedIs
  <2> QED BY <2>3, <2>4
<1>5. tk \cap Used(ds) = tk
  BY <1>4
<1> QED BY <1>2, <1>5

LEMMA NothingEmitted ==
  ASSUME emitted' = <<>>
  PROVE  EmittedOK'
<1>1. DOMAIN emitted' = {}
  OBVIOUS
<1> QED BY <1>1 DEF EmittedOK, ResolvesLexically, CapturedLocalsAreClosed, LoopsAreLeftClean

LEMMA CurrentIs ==
  ASSUME Chained(compilers, taken)
  PROVE  /\ CompOK(current) /\ current = Last(compilers) /\ current = compilers[Level]
         /\ Level = Len(compilers) /\ Level \in DOMAIN compilers
         /\ \A comp : [compilers EXCEPT ![Level] = comp] = Sub(compilers, Len(compilers), comp)
BY ChainIs DEF current, Level, Sub

LEMMA BeginStep ==
  ASSUME State(compilers, scopes, taken), begin_scope
  PROVE  State(compilers', scopes', taken')
<1> DEFINE comp == [current EXCEPT !.scope_depth = @ + 1]
           s == [x \in {} |-> anon]
<1>1. Chained(compilers, taken) /\ LayoutOK(compilers, scopes)
  BY DEF State
<1>2. CompOK(current) /\ current = Last(compilers) /\ Last(current.locals).depth # UNINITIALIZED
  BY <1>1, CurrentIs DEF begin_scope, Initializing
<1>3. /\ CompOK(comp) /\ comp.locals = current.locals /\ comp.upvalues = current.upvalues
      /\ comp.scope_depth = current.scope_depth + 1
  BY <1>2, BeginComp
<1>4. compilers' = Sub(compilers, Len(compilers), comp) /\ scopes' = Append(scopes, s) /\ taken' = taken
  BY <1>1, CurrentIs DEF begin_scope, Update
<1> HIDE DEF comp
<1>5. Chained(compilers', taken) /\ Updates(compilers, compilers', comp)
  <2>1. comp.upvalues = Last(compilers).upvalues /\ comp.locals = Last(compilers).locals
    BY <1>2, <1>3
  <2>2. Follow(compilers, comp.locals)
    BY <2>1 DEF Follow
  <2>3. DOMAIN Last(compilers).locals \subseteq DOMAIN comp.locals
    BY <2>1
  <2> QED BY <2>1, <2>2, <2>3, <1>1, <1>3, <1>4, ChainKept
<1>6. s \in ScopeSet /\ DOMAIN s = {}
  <2>1. {} \in SUBSET Names /\ s \in [{} -> Decl]
    OBVIOUS
  <2> HIDE DEF s
  <2> QED BY <2>1 DEF ScopeSet
<1> HIDE DEF s
<1>7. LayoutOK(compilers', scopes')
  <2>1. \A n \in DOMAIN compilers : compilers'[n].locals = compilers[n].locals
    BY <1>1, <1>2, <1>3, <1>5, ChainIs DEF Updates
  <2>2. \A n \in DOMAIN compilers :
          n # Len(compilers) => compilers'[n].scope_depth = compilers[n].scope_depth
    BY <1>5 DEF Updates
  <2>3. compilers'[Len(compilers)].scope_depth = Last(compilers).scope_depth + 1
    BY <1>2, <1>3, <1>5 DEF Updates
  <2>4. DOMAIN compilers' = DOMAIN compilers
    BY <1>5 DEF Updates
  <2> QED BY <2>1, <2>2, <2>3, <2>4, <1>1, <1>4, <1>5, <1>6, LayoutBegin
<1> QED BY <1>4, <1>5, <1>7 DEF State

LEMMA DeclsAbove ==
  ASSUME NEW K \in Seq(LocalSet), NEW i \in Nat, i <= Len(K), NEW d
  PROVE  d \in DeclsOf(SubSeq(K, i + 1, Len(K))) <=> \E q \in i + 1 .. Len(K) : K[q].decl = d
<1> DEFINE n == Len(K)
           e == i + 1
           s == SubSeq(K, e, n)
<1>1. n \in Nat /\ \A q \in 1 .. n : K[q] \in LocalSet
  BY SeqIs
<1>2. e \in 1 .. n + 1 /\ e \in Nat /\ n - e + 1 \in Nat /\ (e <= n \/ n - e + 1 = 0)
      /\ \A q \in e .. n : q \in 1 .. n
  BY <1>1
<1> HIDE DEF n, e
<1>3. /\ s \in Seq(LocalSet) /\ Len(s) = (IF e <= n THEN n - e + 1 ELSE 0)
      /\ \A k \in 1 .. n - e + 1 : s[k] = K[e + k - 1]
  BY <1>1, <1>2, SubSeqProperties
<1>4. DOMAIN s = 1 .. n - e + 1 /\ \A k \in 1 .. n - e + 1 : s[k] = K[e + k - 1]
  BY <1>2, <1>3, LenProperties
<1> HIDE DEF s
<1>5. ASSUME NEW k \in 1 .. n - e + 1 PROVE e + k - 1 \in e .. n /\ s[k] = K[e + k - 1]
  BY <1>1, <1>2, <1>4
<1>6. ASSUME NEW q \in e .. n PROVE q - e + 1 \in 1 .. n - e + 1 /\ s[q - e + 1] = K[q]
  <2>1. q - e + 1 \in 1 .. n - e + 1 /\ e + (q - e + 1) - 1 = q
    BY <1>1, <1>2
  <2> QED BY <2>1, <1>4
<1>7. d \in DeclsOf(s) <=> \E k \in 1 .. n - e + 1 : s[k].decl = d
  BY <1>4 DEF DeclsOf
<1>8. d \in DeclsOf(s) <=> \E q \in e .. n : K[q].decl = d
  BY <1>5, <1>6, <1>7
<1> QED BY <1>8 DEF s, e, n

LEMMA EndStep ==
  ASSUME State(compilers, scopes, taken), end_scope
  PROVE  State(compilers', scopes', taken')
<1> DEFINE K == current.locals
           D == current.scope_depth
           i == Below(K, D - 1)
           comp == [current EXCEPT !.scope_depth = @ - 1, !.locals = SubSeq(@, 1, i)]
           L == comp.locals
<1>1. Chained(compilers, taken) /\ LayoutOK(compilers, scopes)
  BY DEF State
<1>2. /\ CompOK(current) /\ current = Last(compilers) /\ Last(K).depth # UNINITIALIZED
      /\ current = compilers[Len(compilers)] /\ Len(compilers) \in DOMAIN compilers
  BY <1>1, CurrentIs DEF end_scope, Initializing
<1>3. D > 0 /\ (current.loops # <<>> => D > Last(current.loops).scope_depth) /\ D \in Nat
  <2>1. D > IF current.loops # <<>> THEN Last(current.loops).scope_depth
            ELSE IF Level = 1 THEN 0 ELSE 1
    BY DEF end_scope, Loops
  <2>2. D \in Nat /\ (current.loops # <<>> => Last(current.loops).scope_depth \in Nat)
    BY <1>2, CompIs, LoopsAre
  <2> HIDE DEF D
  <2> QED BY <2>1, <2>2
<1>4. /\ CompOK(comp) /\ comp.upvalues = current.upvalues /\ comp.scope_depth = D - 1
      /\ i \in 1 .. Len(K) /\ DOMAIN L = 1 .. i /\ \A j \in 1 .. i : L[j] = K[j]
      /\ \A j \in i + 1 .. Len(K) : K[j].depth = D
  <2> DEFINE b == i
             g == comp
  <2>1. b = Below(current.locals, current.scope_depth - 1)
        /\ g = Ended(current, b)
    BY DEF Ended
  <2>3. /\ CompOK(current) /\ Last(current.locals).depth # UNINITIALIZED
        /\ current.scope_depth > 0
        /\ current.loops # <<>> => current.scope_depth > Last(current.loops).scope_depth
    BY <1>2, <1>3
  <2> HIDE DEF b, g
  <2>2. /\ CompOK(g) /\ g.upvalues = current.upvalues /\ g.scope_depth = current.scope_depth - 1
        /\ b \in 1 .. Len(current.locals) /\ DOMAIN g.locals = 1 .. b
        /\ \A j \in 1 .. b : g.locals[j] = current.locals[j]
        /\ \A j \in b + 1 .. Len(current.locals) : current.locals[j].depth = current.scope_depth
    BY <2>1, <2>3, EndComp
  <2> QED BY <2>2 DEF b, g
<1>5. /\ compilers' = Sub(compilers, Len(compilers), comp) /\ scopes' = Cut(scopes, 1)
      /\ taken' = taken \ DeclsOf(SubSeq(K, i + 1, Len(K)))
  BY <1>1, CurrentIs DEF end_scope, Update
<1>6. DOMAIN K = 1 .. Len(K) /\ Len(K) \in Nat /\ K \in Seq(LocalSet)
  BY <1>2, CompIs
<1> HIDE DEF comp, i, K, D
<1>7. Follow(compilers, L) /\ comp.upvalues = Last(compilers).upvalues
  <2>1. \A j \in DOMAIN L : j \in DOMAIN K /\ L[j] = K[j]
    BY <1>4, <1>6
  <2> QED BY <2>1, <1>2, <1>4 DEF Follow, K
<1>8. /\ Chained(compilers', taken \cap Used(compilers')) /\ Updates(compilers, compilers', comp)
  <2> DEFINE tl == taken \cap Used(compilers')
  <2>1. tl = taken \cap Used(compilers')
    OBVIOUS
  <2> HIDE DEF tl
  <2>2. Chained(compilers', tl) /\ Updates(compilers, compilers', comp)
    BY <2>1, <1>1, <1>4, <1>5, <1>7, ChainUpdated
  <2> QED BY <2>2 DEF tl
<1>9. taken' = taken \cap Used(compilers')
  <2> SUFFICES ASSUME NEW d \in taken
               PROVE  d \notin DeclsOf(SubSeq(K, i + 1, Len(K))) <=> d \in Used(compilers')
    BY <1>5
  <2>1. d \in DeclsOf(SubSeq(K, i + 1, Len(K))) <=> \E q \in i + 1 .. Len(K) : K[q].decl = d
    BY <1>4, <1>6, DeclsAbove
  <2>2. PICK n \in DOMAIN compilers :
          \E j \in DOMAIN compilers[n].locals : compilers[n].locals[j].decl = d
    BY <1>1, UsedIs DEF Chained
  <2>3. PICK j \in DOMAIN compilers[n].locals : compilers[n].locals[j].decl = d
    BY <2>2
  <2>4. Distinct(compilers)
    BY <1>1 DEF Chained
  <2>5. CASE n = Len(compilers) /\ j > i
    <3>1. j \in i + 1 .. Len(K) /\ K[j].decl = d
      BY <2>3, <2>5, <1>2, <1>4, <1>6 DEF K
    <3>2. ASSUME d \in Used(compilers') PROVE FALSE
      <4>1. PICK p \in DOMAIN compilers' :
              \E q \in DOMAIN compilers'[p].locals : compilers'[p].locals[q].decl = d
        BY <3>2, UsedIs
      <4>2. PICK q \in DOMAIN compilers'[p].locals : compilers'[p].locals[q].decl = d
        BY <4>1
      <4>3. CASE p = Len(compilers)
        <5>1. q \in 1 .. i /\ K[q].decl = d /\ q \in DOMAIN K
          BY <4>2, <4>3, <1>4, <1>6, <1>8 DEF Updates
        <5>2. q = j
          BY <5>1, <2>3, <2>4, <2>5, <1>2 DEF Distinct, K
        <5> QED BY <5>1, <5>2, <2>5, <1>4
      <4>4. CASE p # Len(compilers)
        <5>1. p \in DOMAIN compilers /\ compilers'[p] = compilers[p]
          BY <4>1, <4>4, <1>8 DEF Updates
        <5> QED BY <5>1, <4>2, <4>4, <2>3, <2>4, <2>5 DEF Distinct
      <4> QED BY <4>3, <4>4
    <3> QED BY <3>1, <3>2, <2>1
  <2>6. CASE ~(n = Len(compilers) /\ j > i)
    <3>1. d \in Used(compilers')
      <4>1. CASE n = Len(compilers)
        <5>1. j \in 1 .. i /\ K[j].decl = d
          BY <4>1, <2>3, <2>6, <1>2, <1>4, <1>6 DEF K
        <5>2. n \in DOMAIN compilers' /\ j \in DOMAIN compilers'[n].locals
              /\ compilers'[n].locals[j].decl = d
          BY <4>1, <5>1, <1>4, <1>8 DEF Updates
        <5> QED BY <5>2, UsedIs
      <4>2. CASE n # Len(compilers)
        <5>1. n \in DOMAIN compilers' /\ compilers'[n] = compilers[n]
          BY <4>2, <1>8 DEF Updates
        <5> QED BY <5>1, <2>3, UsedIs
      <4> QED BY <4>1, <4>2
    <3>2. ASSUME NEW q \in i + 1 .. Len(K), K[q].decl = d PROVE FALSE
      <4>1. q \in DOMAIN K /\ q > i
        BY <1>4, <1>6
      <4>2. n = Len(compilers) /\ j = q
        BY <4>1, <3>2, <2>3, <2>4, <1>2 DEF Distinct, K
      <4> QED BY <4>1, <4>2, <2>6
    <3> QED BY <3>1, <3>2, <2>1
  <2> QED BY <2>5, <2>6
<1>10. ASSUME NEW d \in 0 .. D - 1 PROVE SameAt(K, L, d)
  <2>1. ASSUME NEW j \in DOMAIN K, K[j].depth = d
        PROVE  j \in DOMAIN L /\ L[j] = K[j]
    <3>1. ~(j \in i + 1 .. Len(K))
      BY <2>1, <1>3, <1>4
    <3>2. j \in 1 .. i
      BY <3>1, <1>4, <1>6
    <3> QED BY <3>2, <1>4
  <2>2. \A j \in DOMAIN L : j \in DOMAIN K /\ L[j] = K[j]
    BY <1>4, <1>6
  <2> QED BY <2>1, <2>2 DEF SameAt
<1>11. LayoutOK(compilers', scopes')
  <2>1. /\ DOMAIN compilers' = DOMAIN compilers
        /\ compilers'[Len(compilers)].scope_depth = Last(compilers).scope_depth - 1
        /\ Last(compilers).scope_depth > 0
    BY <1>2, <1>3, <1>4, <1>8 DEF Updates, D
  <2>2. \A n \in DOMAIN compilers : n # Len(compilers) => compilers'[n] = compilers[n]
    BY <1>8 DEF Updates
  <2>3. \A d \in 0 .. Last(compilers).scope_depth - 1 :
          SameAt(Last(compilers).locals, compilers'[Len(compilers)].locals, d)
    BY <1>2, <1>8, <1>10 DEF Updates, D, K
  <2> QED BY <2>1, <2>2, <2>3, <1>1, <1>5, LayoutEnd
<1> QED BY <1>8, <1>9, <1>11 DEF State

(* The innermost function keeps its locals, and may get one that is not    *)
(* initialised.                                                            *)
LEMMA KeptStep ==
  ASSUME NEW cs, NEW sc, NEW tk, State(cs, sc, tk), NEW comp, CompOK(comp),
         comp.upvalues = Last(cs).upvalues, comp.scope_depth = Last(cs).scope_depth,
         \A i \in DOMAIN Last(cs).locals :
           i \in DOMAIN comp.locals /\ comp.locals[i] = Last(cs).locals[i],
         \A i \in DOMAIN comp.locals : i \notin DOMAIN Last(cs).locals =>
           /\ i = Len(Last(cs).locals) + 1
           /\ \E x, d : comp.locals[i] = Local(x, UNINITIALIZED, d) /\ d \notin Used(cs),
         NEW ds, ds = Sub(cs, Len(cs), comp)
  PROVE  State(ds, sc, tk)
<1> DEFINE K == Last(cs).locals
           L == comp.locals
<1>1. Chained(cs, tk) /\ LayoutOK(cs, sc)
  BY DEF State
<1>2. ASSUME NEW i \in DOMAIN L, i \notin DOMAIN K
      PROVE  /\ i = Len(K) + 1 /\ L[i].decl \notin Used(cs) /\ L[i].is_captured = FALSE
             /\ L[i].depth = UNINITIALIZED
  <2>1. PICK x, d : L[i] = Local(x, UNINITIALIZED, d) /\ d \notin Used(cs)
    BY <1>2
  <2>2. i = Len(K) + 1
    BY <1>2
  <2> HIDE DEF L
  <2> QED BY <2>1, <2>2 DEF Local
<1>3. \A i \in DOMAIN K : i \in DOMAIN L /\ L[i] = K[i]
  OBVIOUS
<1> HIDE DEF K, L
<1>4. Follow(cs, L)
  BY <1>2, <1>3 DEF Follow, K
<1>5. DOMAIN K \subseteq DOMAIN L
  BY <1>3
<1>6. Chained(ds, tk) /\ Updates(cs, ds, comp)
  BY <1>1, <1>4, <1>5, ChainKept DEF K, L
<1>7. ASSUME NEW d \in Nat PROVE SameAt(K, L, d)
  <2>1. ASSUME NEW i \in DOMAIN L, L[i].depth = d, i \notin DOMAIN K PROVE FALSE
    <3>1. d = UNINITIALIZED
      BY <2>1, <1>2
    <3> QED BY <3>1 DEF UNINITIALIZED
  <2> QED BY <2>1, <1>3 DEF SameAt
<1>8. ASSUME NEW n \in DOMAIN cs
      PROVE  ds[n].scope_depth = cs[n].scope_depth
             /\ \A d \in Nat : SameAt(cs[n].locals, ds[n].locals, d)
  <2>1. CASE n = Len(cs)
    <3>1. ds[n] = comp /\ Last(cs) = cs[n]
      BY <2>1, <1>6 DEF Updates, Last
    <3> QED BY <3>1, <1>7 DEF K, L
  <2>2. CASE n # Len(cs)
    <3>1. ds[n] = cs[n]
      BY <2>2, <1>6 DEF Updates
    <3> QED BY <3>1 DEF SameAt
  <2> QED BY <2>1, <2>2
<1>9. LayoutOK(ds, sc)
  <2>1. DOMAIN ds = DOMAIN cs
    BY <1>6 DEF Updates
  <2> QED BY <2>1, <1>1, <1>8, LayoutSame
<1> QED BY <1>6, <1>9 DEF State

LEMMA DeclareStep ==
  ASSUME State(compilers, scopes, taken), NEW x \in Name, declare_variable(x)
  PROVE  State(compilers', scopes', taken')
<1>1. Chained(compilers, taken)
  BY DEF State
<1>2. /\ CompOK(current) /\ current = Last(compilers) /\ Last(current.locals).depth # UNINITIALIZED
      /\ ~Initializing /\ current.scope_depth > 0
      /\ current.loops # <<>> => current.scope_depth > Last(current.loops).scope_depth
  BY <1>1, CurrentIs DEF declare_variable, InBlock, Initializing, Loops
<1>3. \A i \in DOMAIN current.locals :
        current.locals[i].name = x => current.locals[i].depth < current.scope_depth
  BY <1>2, NotRedeclared DEF declare_variable
<1>4. PICK new \in NewDecls(1) :
        compilers' = Sub(compilers, Len(compilers), Declared(current, x, UNINITIALIZED, new[1]))
  BY <1>1, CurrentIs DEF declare_variable, Update, Declared
<1> DEFINE d == new[1]
           comp == Declared(current, x, UNINITIALIZED, d)
<1>5. d \in Decl /\ d \notin Used(compilers)
  <2>1. 1 \in Nat /\ 1 \in 1 .. 1
    OBVIOUS
  <2> QED BY <2>1, NewDeclsAre DEF UsedDecls, Used
<1> HIDE DEF d, comp
<1>6. comp = Declared(current, x, UNINITIALIZED, d)
  BY DEF comp
<1>7. /\ CompOK(comp) /\ comp.upvalues = current.upvalues /\ comp.scope_depth = current.scope_depth
      /\ DOMAIN comp.locals = 1 .. Len(current.locals) + 1
      /\ comp.locals[Len(current.locals) + 1] = Local(x, UNINITIALIZED, d)
      /\ \A j \in 1 .. Len(current.locals) : comp.locals[j] = current.locals[j]
  <2>1. x \in Names /\ UNINITIALIZED \in {UNINITIALIZED, current.scope_depth}
    BY DEF Names
  <2> QED BY <2>1, <1>2, <1>3, <1>5, <1>6, DeclareComp
<1>8. DOMAIN current.locals = 1 .. Len(current.locals) /\ Len(current.locals) \in Nat
  BY <1>2, CompIs
<1>9. \A i \in DOMAIN Last(compilers).locals :
        i \in DOMAIN comp.locals /\ comp.locals[i] = Last(compilers).locals[i]
  BY <1>2, <1>7, <1>8
<1>10. \A i \in DOMAIN comp.locals : i \notin DOMAIN Last(compilers).locals =>
         /\ i = Len(Last(compilers).locals) + 1
         /\ \E y, e : comp.locals[i] = Local(y, UNINITIALIZED, e) /\ e \notin Used(compilers)
  BY <1>2, <1>5, <1>7, <1>8
<1>11. comp.upvalues = Last(compilers).upvalues /\ comp.scope_depth = Last(compilers).scope_depth
  BY <1>2, <1>7
<1>12. compilers' = Sub(compilers, Len(compilers), comp) /\ scopes' = scopes /\ taken' = taken
  BY <1>4 DEF declare_variable, comp, d
<1>13. State(compilers', scopes, taken)
  BY <1>7, <1>9, <1>10, <1>11, <1>12, KeptStep
<1> QED BY <1>12, <1>13

LEMMA LoopStep ==
  ASSUME State(compilers, scopes, taken), start_loop \/ end_loop
  PROVE  State(compilers', scopes', taken')
<1> DEFINE started == [current EXCEPT !.loops =
                         Append(@, [scope_depth |-> current.scope_depth, since |-> Len(current.locals)])]
           ended == [current EXCEPT !.loops = Cut(@, 1)]
<1>1. Chained(compilers, taken)
  BY DEF State
<1>2. CompOK(current) /\ current = Last(compilers) /\ Last(current.locals).depth # UNINITIALIZED
  BY <1>1, CurrentIs DEF start_loop, end_loop, Initializing
<1>3. PICK comp : /\ CompOK(comp) /\ comp.upvalues = current.upvalues
                  /\ comp.scope_depth = current.scope_depth /\ comp.locals = current.locals
                  /\ compilers' = Sub(compilers, Len(compilers), comp)
  <2>1. CASE start_loop
    <3>1. compilers' = Sub(compilers, Len(compilers), started)
      BY <2>1, <1>1, CurrentIs DEF start_loop, Update
    <3>2. /\ CompOK(started) /\ started.upvalues = current.upvalues
          /\ started.scope_depth = current.scope_depth /\ started.locals = current.locals
      BY <1>2, StartLoopComp
    <3> HIDE DEF started
    <3> QED BY <3>1, <3>2
  <2>2. CASE end_loop
    <3>1. compilers' = Sub(compilers, Len(compilers), ended) /\ current.loops # <<>>
      BY <2>2, <1>1, CurrentIs DEF end_loop, Update, Loops
    <3>2. /\ CompOK(ended) /\ ended.upvalues = current.upvalues
          /\ ended.scope_depth = current.scope_depth /\ ended.locals = current.locals
      BY <3>1, <1>2, EndLoopComp
    <3> HIDE DEF ended
    <3> QED BY <3>1, <3>2
  <2> QED BY <2>1, <2>2
<1>4. scopes' = scopes /\ taken' = taken
  BY DEF start_loop, end_loop
<1>5. comp.upvalues = Last(compilers).upvalues /\ comp.scope_depth = Last(compilers).scope_depth
      /\ comp.locals = Last(compilers).locals
  BY <1>2, <1>3
<1>6. State(compilers', scopes, taken)
  <2>1. \A i \in DOMAIN Last(compilers).locals :
          i \in DOMAIN comp.locals /\ comp.locals[i] = Last(compilers).locals[i]
    BY <1>5
  <2>2. \A i \in DOMAIN comp.locals : i \notin DOMAIN Last(compilers).locals =>
          /\ i = Len(Last(compilers).locals) + 1
          /\ \E x, d : comp.locals[i] = Local(x, UNINITIALIZED, d) /\ d \notin Used(compilers)
    BY <1>5
  <2> QED BY <2>1, <2>2, <1>3, <1>5, KeptStep
<1> QED BY <1>4, <1>6

(* The innermost function gets a local in the scope that is open.          *)
LEMMA AddedStep ==
  ASSUME NEW cs, NEW sc, NEW tk, State(cs, sc, tk), NEW comp, CompOK(comp),
         comp.upvalues = Last(cs).upvalues, comp.scope_depth = Last(cs).scope_depth,
         Follow(cs, comp.locals), DOMAIN Last(cs).locals \subseteq DOMAIN comp.locals,
         NEW x \in Names, NEW d \in Decl, NEW p,
         NewAt(Last(cs).locals, comp.locals, Last(cs).scope_depth, p, x, d),
         \A e \in Nat : e # Last(cs).scope_depth => SameAt(Last(cs).locals, comp.locals, e),
         NEW ds, ds = Sub(cs, Len(cs), comp),
         NEW sd, sd = Sub(sc, Len(sc), Extend(Last(sc), x, d))
  PROVE  State(ds, sd, tk) /\ Updates(cs, ds, comp)
<1>1. Chained(cs, tk) /\ LayoutOK(cs, sc)
  BY DEF State
<1>2. Chained(ds, tk) /\ Updates(cs, ds, comp)
  BY <1>1, ChainKept
<1>3. /\ DOMAIN ds = DOMAIN cs /\ ds[Len(cs)] = comp
      /\ \A n \in DOMAIN cs : n # Len(cs) => ds[n] = cs[n]
  BY <1>2 DEF Updates
<1> DEFINE K == Last(cs).locals
           L == ds[Len(cs)].locals
           D == Last(cs).scope_depth
<1>4. /\ K = Last(cs).locals /\ L = ds[Len(cs)].locals /\ D = Last(cs).scope_depth
      /\ ds[Len(cs)].scope_depth = D /\ NewAt(K, L, D, p, x, d)
      /\ \A e \in Nat : e # D => SameAt(K, L, e)
  BY <1>3
<1> HIDE DEF K, L, D
<1>5. LayoutOK(ds, sd)
  BY <1>1, <1>3, <1>4, LayoutInit
<1> QED BY <1>2, <1>5 DEF State

LEMMA InitializeStep ==
  ASSUME State(compilers, scopes, taken), mark_initialized
  PROVE  State(compilers', scopes', taken')
<1> DEFINE comp == Initialized(current)
           K == current.locals
           L == comp.locals
           D == current.scope_depth
           n == Len(K)
           x == K[n].name
           d == K[n].decl
<1>1. Chained(compilers, taken)
  BY DEF State
<1>2. /\ CompOK(current) /\ current = Last(compilers) /\ Last(K).depth = UNINITIALIZED
      /\ n \in Nat /\ n > 0 /\ DOMAIN K = 1 .. n /\ Last(K) = K[n] /\ D \in Nat
      /\ x \in Names /\ d \in Decl
  <2>1. CompOK(current) /\ current = Last(compilers) /\ Last(K).depth = UNINITIALIZED
    BY <1>1, CurrentIs DEF mark_initialized, Initializing
  <2>2. n \in Nat /\ n > 0 /\ DOMAIN K = 1 .. n /\ Last(K) = K[n] /\ D \in Nat
    BY <2>1, CompIs
  <2>3. n \in 1 .. n
    BY <2>2
  <2>4. K[n].name \in Names /\ K[n].decl \in Decl
    BY <2>1, <2>3, CompIs
  <2> QED BY <2>1, <2>2, <2>4
<1>3. /\ compilers' = Sub(compilers, Len(compilers), comp)
      /\ scopes' = Sub(scopes, Len(scopes), Extend(Last(scopes), x, d)) /\ taken' = taken
  <2>1. /\ compilers' = [compilers EXCEPT ![Level] = comp]
        /\ scopes' = [scopes EXCEPT ![Len(scopes)] = Extend(@, Last(K).name, Last(K).decl)]
        /\ taken' = taken
    BY DEF mark_initialized, Update, Initialized
  <2>2. scopes' = Sub(scopes, Len(scopes), Extend(Last(scopes), Last(K).name, Last(K).decl))
    BY <2>1 DEF Sub, Last
  <2> HIDE DEF comp, K
  <2> QED BY <2>1, <2>2, <1>1, <1>2, CurrentIs
<1>4. /\ CompOK(comp) /\ comp.upvalues = current.upvalues /\ comp.scope_depth = D
      /\ DOMAIN L = 1 .. n /\ \A j \in 1 .. n - 1 : L[j] = K[j]
      /\ L[n] = [K[n] EXCEPT !.depth = D]
      /\ \A j \in 1 .. n - 1 : K[j].depth \in Nat
  <2> DEFINE g == comp
  <2>1. g = Initialized(current)
    OBVIOUS
  <2> HIDE DEF g
  <2>2. /\ CompOK(g) /\ g.upvalues = current.upvalues /\ g.scope_depth = current.scope_depth
        /\ DOMAIN g.locals = 1 .. Len(current.locals)
        /\ \A j \in 1 .. Len(current.locals) - 1 : g.locals[j] = current.locals[j]
        /\ g.locals[Len(current.locals)]
             = [current.locals[Len(current.locals)] EXCEPT !.depth = current.scope_depth]
        /\ \A j \in 1 .. Len(current.locals) - 1 : current.locals[j].depth \in Nat
    BY <2>1, <1>2, InitializeComp
  <2> QED BY <2>2 DEF g
<1>5. L[n].depth = D /\ L[n].name = x /\ L[n].decl = d /\ L[n].is_captured = K[n].is_captured
  <2>1. K[n] \in LocalSet
    <3>1. n \in 1 .. n
      BY <1>2
    <3> QED BY <3>1, <1>2, CompIs
  <2>2. L[n] = [K[n] EXCEPT !.depth = D]
    BY <1>4
  <2> HIDE DEF K, L, D
  <2> QED BY <2>1, <2>2 DEF LocalSet
<1>6. DeclaringOK(current)
  BY <1>2 DEF CompOK
<1>7. \A j \in 1 .. n - 1 : K[j].name = x => K[j].depth < D
  BY <1>2, <1>6 DEF DeclaringOK
<1>8. \A j \in 1 .. n : j = n \/ j \in 1 .. n - 1
  BY <1>2
<1>9. n \in 1 .. n /\ \A j \in 1 .. n - 1 : j \in 1 .. n /\ j # n
  BY <1>2
<1>10. K[n].depth = UNINITIALIZED
  BY <1>2
<1> HIDE DEF comp, K, L, D, n, x, d
<1>11. NewAt(K, L, D, n, x, d)
  <2>1. ASSUME NEW i \in DOMAIN K, K[i].depth = D
        PROVE  /\ i \in DOMAIN L /\ i # n /\ K[i].name # x
               /\ L[i].depth = D /\ L[i].name = K[i].name /\ L[i].decl = K[i].decl
    <3>1. i # n
      BY <2>1, <1>2, <1>10 DEF UNINITIALIZED
    <3>2. i \in 1 .. n - 1 /\ i \in 1 .. n /\ L[i] = K[i]
      BY <3>1, <1>2, <1>4, <1>8
    <3>3. K[i].name # x
      BY <3>2, <2>1, <1>2, <1>7
    <3> QED BY <3>1, <3>2, <3>3, <2>1, <1>4
  <2>2. ASSUME NEW i \in DOMAIN L, L[i].depth = D PROVE i = n \/ (i \in DOMAIN K /\ K[i].depth = D)
    BY <2>2, <1>2, <1>4, <1>8
  <2> QED BY <2>1, <2>2, <1>4, <1>5, <1>9 DEF NewAt
<1>12. ASSUME NEW e \in Nat, e # D PROVE SameAt(K, L, e)
  <2>1. ASSUME NEW i \in DOMAIN K, K[i].depth = e PROVE i \in DOMAIN L /\ L[i] = K[i]
    <3>1. i # n
      BY <2>1, <1>10 DEF UNINITIALIZED
    <3> QED BY <3>1, <1>2, <1>4, <1>8
  <2>2. ASSUME NEW i \in DOMAIN L, L[i].depth = e PROVE i \in DOMAIN K /\ K[i].depth = e
    <3>1. i # n
      BY <2>2, <1>5, <1>12
    <3> QED BY <3>1, <2>2, <1>2, <1>4, <1>8
  <2> QED BY <2>1, <2>2 DEF SameAt
<1>13. Follow(compilers, L)
  <2> SUFFICES ASSUME NEW i \in DOMAIN L
               PROVE  /\ i \in DOMAIN K /\ L[i].decl = K[i].decl
                      /\ L[i].is_captured = K[i].is_captured
    BY <1>2 DEF Follow, K
  <2> QED BY <1>2, <1>4, <1>5, <1>8 DEF d
<1>14. /\ comp.upvalues = Last(compilers).upvalues /\ comp.scope_depth = Last(compilers).scope_depth
       /\ DOMAIN Last(compilers).locals \subseteq DOMAIN comp.locals
  BY <1>2, <1>4 DEF K, L, D
<1>15. NewAt(Last(compilers).locals, comp.locals, Last(compilers).scope_depth, n, x, d)
  BY <1>2, <1>11 DEF K, L, D
<1>16. \A e \in Nat : e # Last(compilers).scope_depth => SameAt(Last(compilers).locals, comp.locals, e)
  BY <1>2, <1>12 DEF K, L, D
<1>17. CompOK(comp) /\ Follow(compilers, comp.locals)
  BY <1>4, <1>13 DEF L
<1>18. State(compilers', scopes', taken)
  BY <1>2, <1>3, <1>14, <1>15, <1>16, <1>17, AddedStep
<1> QED BY <1>3, <1>18

(* The parameters in their scope.                                          *)
ParamScope(params, new) ==
  [x \in {params[p] : p \in DOMAIN params} |-> new[1 + CHOOSE p \in DOMAIN params : params[p] = x]]

LEMMA FunctionIs ==
  ASSUME NEW cs, NEW sc, NEW type, NEW params, NEW new, function(cs, sc, type, params, new)
  PROVE  /\ compilers' = Append(cs, Callee(type, params, new))
         /\ scopes' = sc \o <<Bind(Slot0(type), new[1]), ParamScope(params, new)>>
<1>1. /\ NewCompiler(type, new[1]).locals[1].name = Slot0(type)
  BY DEF NewCompiler, Local, Slot0
<1>2. scopes' = sc \o <<Bind(NewCompiler(type, new[1]).locals[1].name, new[1]),
                        ParamScope(params, new)>>
  BY DEF function, ParamScope
<1>3. compilers' = Append(cs, Callee(type, params, new))
  BY DEF function, Callee, Arguments
<1> QED BY <1>1, <1>2, <1>3

LEMMA CallStep ==
  ASSUME NEW cs, NEW sc, NEW tk, State(cs, sc, tk),
         NEW type \in {"function", "method"}, NEW params \in Params, NEW new,
         \A p \in 1 .. Len(params) + 1 : new[p] \in Decl /\ new[p] \notin Used(cs),
         \A p, q \in 1 .. Len(params) + 1 : new[p] = new[q] => p = q,
         function(cs, sc, type, params, new)
  PROVE  State(compilers', scopes', tk)
<1> DEFINE g == Callee(type, params, new)
           n == Len(params)
           s == Bind(Slot0(type), new[1])
           t == ParamScope(params, new)
           m == Len(cs) + 1
<1>1. Chained(cs, tk) /\ LayoutOK(cs, sc)
  BY DEF State
<1>2. compilers' = Append(cs, g) /\ scopes' = sc \o <<s, t>>
  BY FunctionIs
<1>3. /\ n \in Nat /\ DOMAIN params = 1 .. n /\ \A p \in 1 .. n : params[p] \in Name
      /\ \A p, q \in 1 .. n : params[p] = params[q] => p = q
  BY ParamsAre
<1>4. /\ CompOK(g) /\ g.upvalues = <<>> /\ g.scope_depth = 1 /\ DOMAIN g.locals = 1 .. n + 1
      /\ g.locals[1] = Local(Slot0(type), 0, new[1])
      /\ \A p \in 1 .. n : g.locals[p + 1] = Local(params[p], 1, new[p + 1])
  <2>1. \A p \in 1 .. Len(params) + 1 : new[p] \in Decl
    OBVIOUS
  <2>2. g = Callee(type, params, new)
    OBVIOUS
  <2> HIDE DEF g
  <2> QED BY <2>1, <2>2, FunctionComp
<1>5. 1 \in 1 .. n + 1 /\ \A p \in 1 .. n : p + 1 \in 1 .. n + 1 /\ p + 1 # 1
  BY <1>3
<1>6. \A i \in 1 .. n + 1 : i = 1 \/ (i - 1 \in 1 .. n /\ i - 1 + 1 = i)
  BY <1>3
<1>7. /\ g.locals[1].depth = 0 /\ g.locals[1].name = Slot0(type)
      /\ g.locals[1].decl = new[1] /\ g.locals[1].is_captured = FALSE
  BY <1>4 DEF Local
<1>8. ASSUME NEW i \in 1 .. n + 1, i # 1
      PROVE  /\ i - 1 \in 1 .. n /\ g.locals[i].depth = 1 /\ g.locals[i].name = params[i - 1]
             /\ g.locals[i].decl = new[i] /\ g.locals[i].is_captured = FALSE
  <2> DEFINE p == i - 1
  <2>1. p \in 1 .. n /\ p + 1 = i
    BY <1>6, <1>8
  <2> HIDE DEF p, g
  <2>2. g.locals[i] = Local(params[p], 1, new[i])
    BY <2>1, <1>4
  <2>3. /\ g.locals[i].depth = 1 /\ g.locals[i].name = params[p]
        /\ g.locals[i].decl = new[i] /\ g.locals[i].is_captured = FALSE
    BY <2>2 DEF Local
  <2> QED BY <2>1, <2>3 DEF p
<1> HIDE DEF g
<1>14. \A i \in 1 .. n + 1 : g.locals[i].decl = new[i] /\ g.locals[i].is_captured = FALSE
  BY <1>7, <1>8
<1>15. /\ Chained(compilers', tk) /\ DOMAIN compilers' = 1 .. m /\ compilers'[m] = g
       /\ \A k \in DOMAIN cs : compilers'[k] = cs[k]
  <2>1. \A i \in DOMAIN g.locals :
          g.locals[i].decl \notin Used(cs) /\ g.locals[i].is_captured = FALSE
    BY <1>4, <1>14
  <2>2. ASSUME NEW i \in DOMAIN g.locals, NEW j \in DOMAIN g.locals,
               g.locals[i].decl = g.locals[j].decl
        PROVE  i = j
    <3>1. i \in 1 .. n + 1 /\ j \in 1 .. n + 1
      BY <1>4
    <3>2. new[i] = new[j]
      BY <3>1, <2>2, <1>14
    <3> QED BY <3>1, <3>2
  <2>3. Fresh(cs, g.locals)
    BY <2>1, <2>2 DEF Fresh
  <2> DEFINE ds == compilers'
  <2>4. CompOK(g) /\ g.upvalues = <<>> /\ ds = Append(cs, g)
    BY <1>2, <1>4
  <2> HIDE DEF ds
  <2>5. Chained(ds, tk) /\ Calls(cs, ds, g)
    BY <2>3, <2>4, <1>1, ChainCalled
  <2> QED BY <2>5 DEF ds, Calls
<1>9. s \in ScopeSet /\ Holds(s, g.locals, 0)
  <2>1. Slot0(type) \in Names /\ new[1] \in Decl
    BY <1>5 DEF Slot0, Names
  <2>2. s \in [{Slot0(type)} -> Decl] /\ {Slot0(type)} \in SUBSET Names
    BY <2>1 DEF Bind
  <2>3. DOMAIN s = {Slot0(type)} /\ s[Slot0(type)] = new[1]
    BY DEF Bind
  <2> HIDE DEF s
  <2>4. s \in ScopeSet
    BY <2>2 DEF ScopeSet
  <2>5. ASSUME NEW i \in DOMAIN g.locals, g.locals[i].depth = 0 PROVE i = 1
    <3>1. i \in 1 .. n + 1
      BY <1>4
    <3>2. i # 1 => g.locals[i].depth = 1
      BY <3>1, <1>8
    <3> QED BY <3>2, <2>5
  <2>6. /\ 1 \in DOMAIN g.locals /\ g.locals[1].name = Slot0(type) /\ g.locals[1].depth = 0
        /\ g.locals[1].decl = new[1]
    BY <1>4, <1>5, <1>7
  <2>7. Holds(s, g.locals, 0)
    BY <2>3, <2>5, <2>6 DEF Holds
  <2> QED BY <2>4, <2>7
<1>10. /\ DOMAIN t = {params[p] : p \in 1 .. n} /\ \A p \in 1 .. n : t[params[p]] = new[p + 1]
  <2>1. DOMAIN t = {params[p] : p \in 1 .. n}
    BY <1>3 DEF ParamScope
  <2>2. ASSUME NEW p \in 1 .. n PROVE t[params[p]] = new[p + 1]
    <3> DEFINE c == CHOOSE q \in DOMAIN params : params[q] = params[p]
    <3>1. c \in 1 .. n /\ params[c] = params[p]
      BY <1>3
    <3>2. c = p
      BY <3>1, <1>3
    <3>3. t[params[p]] = new[1 + c]
      BY <1>3 DEF ParamScope
    <3> HIDE DEF c
    <3>4. 1 + c = p + 1
      BY <3>2
    <3> QED BY <3>3, <3>4
  <2> QED BY <2>1, <2>2
<1>11. t \in ScopeSet /\ Holds(t, g.locals, 1)
  <2> DEFINE E == DOMAIN t
  <2>1. E \in SUBSET Names
    BY <1>3, <1>10 DEF Names
  <2>2. \A x \in E : t[x] \in Decl
    BY <1>5, <1>10
  <2>3. t = [x \in E |-> t[x]]
    BY DEF ParamScope
  <2> HIDE DEF t
  <2>4. t \in [E -> Decl]
    BY <2>2, <2>3
  <2>5. t \in ScopeSet
    BY <2>1, <2>4 DEF ScopeSet
  <2>6. ASSUME NEW x \in DOMAIN t
        PROVE  \E i \in DOMAIN g.locals : g.locals[i].name = x /\ g.locals[i].depth = 1
    <3>1. PICK p \in 1 .. n : params[p] = x
      BY <1>10
    <3>2. p + 1 \in DOMAIN g.locals
      BY <1>4, <1>5
    <3>3. g.locals[p + 1].name = x /\ g.locals[p + 1].depth = 1
      <4> DEFINE i == p + 1
      <4>1. i \in 1 .. n + 1 /\ i # 1 /\ i - 1 = p
        BY <1>5
      <4> HIDE DEF i
      <4>2. g.locals[i].name = params[i - 1] /\ g.locals[i].depth = 1
        BY <4>1, <1>8
      <4> QED BY <4>1, <4>2, <3>1 DEF i
    <3> QED BY <3>2, <3>3
  <2>7. ASSUME NEW i \in DOMAIN g.locals, g.locals[i].depth = 1
        PROVE  g.locals[i].name \in DOMAIN t /\ t[g.locals[i].name] = g.locals[i].decl
    <3> DEFINE p == i - 1
    <3>0. i \in 1 .. n + 1
      BY <1>4
    <3>1. i # 1
      BY <2>7, <1>7
    <3>2. p \in 1 .. n /\ p + 1 = i /\ g.locals[i].name = params[p] /\ g.locals[i].decl = new[i]
      BY <3>0, <3>1, <1>6, <1>8
    <3> HIDE DEF p
    <3>3. params[p] \in DOMAIN t /\ t[params[p]] = new[i]
      BY <3>2, <1>10
    <3> QED BY <3>2, <3>3
  <2> QED BY <2>5, <2>6, <2>7 DEF Holds
<1>12. scopes' = Append(Append(sc, s), t)
  <2>1. sc \in Seq(ScopeSet)
    BY <1>1 DEF LayoutOK
  <2> HIDE DEF s, t
  <2> QED BY <2>1, <1>2, <1>9, <1>11, TwoScopes
<1> HIDE DEF s, t
<1>13. LayoutOK(compilers', scopes')
  <2>1. /\ DOMAIN compilers' = 1 .. Len(cs) + 1 /\ compilers'[Len(cs) + 1].scope_depth = 1
        /\ Holds(s, compilers'[Len(cs) + 1].locals, 0)
        /\ Holds(t, compilers'[Len(cs) + 1].locals, 1)
    BY <1>4, <1>15, <1>9, <1>11
  <2>2. \A k \in DOMAIN cs : compilers'[k] = cs[k]
    BY <1>15
  <2> QED BY <2>1, <2>2, <1>1, <1>9, <1>11, <1>12, LayoutCall
<1> QED BY <1>15, <1>13 DEF State

LEMMA MethodStep ==
  ASSUME State(compilers, scopes, taken), method
  PROVE  State(compilers', scopes', taken')
<1>0. PICK params \in Params : \E new \in NewDecls(Len(params) + 1) :
        function(compilers, scopes, "method", params, new)
  BY DEF method
<1>1. PICK new \in NewDecls(Len(params) + 1) : function(compilers, scopes, "method", params, new)
  BY <1>0
<1>2. Len(params) + 1 \in Nat
  BY ParamsAre
<1>3. /\ \A p \in 1 .. Len(params) + 1 : new[p] \in Decl /\ new[p] \notin Used(compilers)
      /\ \A p, q \in 1 .. Len(params) + 1 : new[p] = new[q] => p = q
  <2> DEFINE n == Len(params) + 1
  <2> HIDE DEF n
  <2>1. ASSUME n \in Nat, new \in NewDecls(n)
        PROVE  /\ \A p \in 1 .. n : new[p] \in Decl /\ new[p] \notin Used(compilers)
               /\ \A p, q \in 1 .. n : new[p] = new[q] => p = q
    BY <2>1, NewDeclsAre DEF UsedDecls, Used
  <2> QED BY <2>1, <1>1, <1>2 DEF n
<1>4. State(compilers', scopes', taken)
  BY <1>1, <1>3, CallStep
<1>5. taken' = taken
  BY DEF method
<1> QED BY <1>4, <1>5

(* A function declared in a block is a local of the function around it.    *)
LEMMA FunLocal ==
  ASSUME State(compilers, scopes, taken), NEW x \in Name, InBlock, current.scope_depth > 0,
         ~Redeclared(x), NEW d \in Decl, d \notin Used(compilers),
         NEW comp, comp = Declared(current, x, current.scope_depth, d),
         NEW cs, cs = Sub(compilers, Len(compilers), comp),
         NEW sc, sc = Sub(scopes, Len(scopes), Extend(Last(scopes), x, d))
  PROVE  State(cs, sc, taken) /\ \A e \in Used(cs) : e \in Used(compilers) \/ e = d
<1> DEFINE K == current.locals
           L == comp.locals
           D == current.scope_depth
           p == Len(K) + 1
<1>1. Chained(compilers, taken)
  BY DEF State
<1>2. /\ CompOK(current) /\ current = Last(compilers) /\ Last(K).depth # UNINITIALIZED
      /\ ~Initializing /\ K = Last(compilers).locals
      /\ current.loops # <<>> => current.scope_depth > Last(current.loops).scope_depth
  BY <1>1, CurrentIs DEF InBlock, Initializing, Loops
<1>3. \A i \in DOMAIN K : K[i].name = x => K[i].depth < D
  BY <1>2, NotRedeclared
<1>4. x \in Names /\ D \in {UNINITIALIZED, D}
  BY DEF Names
<1>5. /\ CompOK(comp) /\ comp.upvalues = current.upvalues /\ comp.scope_depth = D
      /\ DOMAIN L = 1 .. p /\ L[p] = Local(x, D, d)
      /\ \A j \in 1 .. p - 1 : L[j] = K[j]
  <2>1. /\ CompOK(comp) /\ comp.upvalues = current.upvalues
        /\ comp.scope_depth = current.scope_depth
        /\ DOMAIN comp.locals = 1 .. Len(current.locals) + 1
        /\ comp.locals[Len(current.locals) + 1] = Local(x, current.scope_depth, d)
        /\ \A j \in 1 .. Len(current.locals) : comp.locals[j] = current.locals[j]
    BY <1>2, <1>3, <1>4, DeclareComp
  <2>2. p - 1 = Len(K)
    BY <1>2, CompIs
  <2> QED BY <2>1, <2>2
<1>6. /\ DOMAIN K = 1 .. p - 1 /\ p \in Nat /\ p > 0 /\ D \in Nat /\ p \in 1 .. p
      /\ \A j \in 1 .. p : j = p \/ j \in 1 .. p - 1
      /\ \A j \in 1 .. p - 1 : j \in 1 .. p /\ j # p
  BY <1>2, CompIs
<1>7. L[p].depth = D /\ L[p].name = x /\ L[p].decl = d /\ L[p].is_captured = FALSE
  BY <1>5 DEF Local
<1> HIDE DEF K, L, D, p
<1>8. NewAt(K, L, D, p, x, d)
  <2>1. ASSUME NEW i \in DOMAIN K, K[i].depth = D
        PROVE  /\ i \in DOMAIN L /\ i # p /\ K[i].name # x
               /\ L[i].depth = D /\ L[i].name = K[i].name /\ L[i].decl = K[i].decl
    <3>1. K[i].name # x
      BY <2>1, <1>3, <1>6
    <3> QED BY <3>1, <2>1, <1>5, <1>6
  <2>2. ASSUME NEW i \in DOMAIN L, L[i].depth = D PROVE i = p \/ (i \in DOMAIN K /\ K[i].depth = D)
    BY <2>2, <1>5, <1>6
  <2> QED BY <2>1, <2>2, <1>5, <1>6, <1>7 DEF NewAt
<1>9. ASSUME NEW e \in Nat, e # D PROVE SameAt(K, L, e)
  BY <1>9, <1>5, <1>6, <1>7 DEF SameAt
<1>10. Follow(compilers, L)
  <2> SUFFICES ASSUME NEW i \in DOMAIN L
               PROVE  \/ /\ i \in DOMAIN K /\ L[i].decl = K[i].decl
                         /\ L[i].is_captured = K[i].is_captured
                      \/ L[i].decl \notin Used(compilers) /\ L[i].is_captured = FALSE
                         /\ i = p
    BY <1>2, <1>5, <1>6, <1>7 DEF Follow
  <2> QED BY <1>5, <1>6, <1>7
<1>11. /\ comp.upvalues = Last(compilers).upvalues /\ comp.scope_depth = Last(compilers).scope_depth
       /\ DOMAIN Last(compilers).locals \subseteq DOMAIN comp.locals
  BY <1>2, <1>5, <1>6 DEF L, D
<1>12. NewAt(Last(compilers).locals, comp.locals, Last(compilers).scope_depth, p, x, d)
  BY <1>2, <1>8 DEF L, D
<1>13. \A e \in Nat : e # Last(compilers).scope_depth => SameAt(Last(compilers).locals, comp.locals, e)
  BY <1>2, <1>9 DEF L, D
<1>14. CompOK(comp) /\ Follow(compilers, comp.locals)
  BY <1>5, <1>10 DEF L
<1>15. State(cs, sc, taken) /\ Updates(compilers, cs, comp)
  <2>1. /\ State(compilers, scopes, taken) /\ x \in Names /\ d \in Decl
        /\ cs = Sub(compilers, Len(compilers), comp)
        /\ sc = Sub(scopes, Len(scopes), Extend(Last(scopes), x, d))
    BY <1>4
  <2> QED BY ONLY <2>1, <1>11, <1>12, <1>13, <1>14, AddedStep
<1>16. ASSUME NEW e \in Used(cs), e # d PROVE e \in Used(compilers)
  <2>0. Chained(cs, taken)
    BY <1>15 DEF State
  <2>1. PICK n \in DOMAIN cs : \E i \in DOMAIN cs[n].locals : cs[n].locals[i].decl = e
    BY <2>0, UsedIs
  <2>2. PICK i \in DOMAIN cs[n].locals : cs[n].locals[i].decl = e
    BY <2>1
  <2>3. n \in DOMAIN compilers
    BY <1>15 DEF Updates
  <2>4. CASE n # Len(compilers)
    <3>1. cs[n] = compilers[n]
      BY <2>3, <2>4, <1>15 DEF Updates
    <3> QED BY <3>1, <2>2, <2>3, <1>1, UsedIs
  <2>5. CASE n = Len(compilers)
    <3>1. cs[n] = comp /\ compilers[n] = current
      BY <2>5, <1>1, <1>15, CurrentIs DEF Updates
    <3>2. i \in DOMAIN L /\ L[i].decl = e
      BY <3>1, <2>2 DEF L
    <3>3. i \in DOMAIN K /\ K[i].decl = e
      BY <3>2, <1>5, <1>6, <1>7, <1>16
    <3>4. i \in DOMAIN compilers[n].locals /\ compilers[n].locals[i].decl = e
      BY <3>1, <3>3 DEF K
    <3> QED BY <3>4, <2>3, <1>1, UsedIs
  <2> QED BY <2>4, <2>5
<1> QED BY <1>15, <1>16

LEMMA FunStep ==
  ASSUME State(compilers, scopes, taken), NEW x \in Name, fun_declaration(x)
  PROVE  State(compilers', scopes', taken')
<1> DEFINE mid(d) == Sub(compilers, Len(compilers), Declared(current, x, current.scope_depth, d))
           within(d) == Sub(scopes, Len(scopes), Extend(Last(scopes), x, d))
<1>1. InBlock /\ taken' = taken
  BY DEF fun_declaration
<1>2. PICK params \in Params :
        \/ \E new \in NewDecls(Len(params) + 1) :
             function(compilers, scopes, "function", params, new)
        \/ /\ current.scope_depth > 0 /\ ~Redeclared(x)
           /\ \E new \in NewDecls(Len(params) + 2) :
                function(mid(new[1]), within(new[1]), "function", params, Tail(new))
  BY DEF fun_declaration, Sub, Declared, current, Last, Level
<1> HIDE DEF mid, within
<1> DEFINE n == Len(params)
<1>3. n \in Nat
  BY ParamsAre
<1> HIDE DEF n
<1>4. ASSUME NEW N \in Nat, NEW new \in NewDecls(N)
      PROVE  /\ new \in Seq(Decl) /\ Len(new) = N
             /\ \A p \in 1 .. N : new[p] \in Decl /\ new[p] \notin Used(compilers)
             /\ \A p, q \in 1 .. N : new[p] = new[q] => p = q
  BY <1>4, NewDeclsAre DEF UsedDecls, Used
<1>5. CASE \E new \in NewDecls(Len(params) + 1) :
             function(compilers, scopes, "function", params, new)
  <2>1. PICK new \in NewDecls(Len(params) + 1) :
          function(compilers, scopes, "function", params, new)
    BY <1>5
  <2>2. /\ \A p \in 1 .. Len(params) + 1 : new[p] \in Decl /\ new[p] \notin Used(compilers)
        /\ \A p, q \in 1 .. Len(params) + 1 : new[p] = new[q] => p = q
    <3> DEFINE N == n + 1
    <3>1. N \in Nat /\ new \in NewDecls(N)
      BY <1>3, <2>1 DEF n
    <3> HIDE DEF N
    <3>2. /\ \A p \in 1 .. N : new[p] \in Decl /\ new[p] \notin Used(compilers)
          /\ \A p, q \in 1 .. N : new[p] = new[q] => p = q
      BY <3>1, <1>4
    <3> QED BY <3>2 DEF N, n
  <2>3. State(compilers', scopes', taken)
    BY <2>1, <2>2, CallStep
  <2> QED BY <2>3, <1>1
<1>6. CASE /\ current.scope_depth > 0 /\ ~Redeclared(x)
           /\ \E new \in NewDecls(Len(params) + 2) :
                function(mid(new[1]), within(new[1]), "function", params, Tail(new))
  <2>1. PICK new \in NewDecls(Len(params) + 2) :
          function(mid(new[1]), within(new[1]), "function", params, Tail(new))
    BY <1>6
  <2> DEFINE N == n + 2
             d == new[1]
             rest == Tail(new)
  <2>2. /\ N \in Nat /\ new \in NewDecls(N) /\ 1 \in 1 .. N
        /\ \A p \in 1 .. n + 1 : p + 1 \in 1 .. N /\ p + 1 # 1
        /\ \A p, q \in 1 .. n + 1 : p + 1 = q + 1 => p = q
    BY <1>3, <2>1 DEF n
  <2> HIDE DEF N
  <2>3. /\ new \in Seq(Decl) /\ Len(new) = N
        /\ \A p \in 1 .. N : new[p] \in Decl /\ new[p] \notin Used(compilers)
        /\ \A p, q \in 1 .. N : new[p] = new[q] => p = q
    BY <2>2, <1>4
  <2>4. \A p \in 1 .. n + 1 : rest[p] = new[p + 1]
    <3>1. Len(new) = n + 2 /\ new # <<>>
      BY <2>3, <1>3 DEF N
    <3>2. /\ Len(rest) = Len(new) - 1 /\ \A p \in 1 .. Len(rest) : rest[p] = new[p + 1]
      BY <3>1, <2>3, HeadTailProperties
    <3>3. Len(rest) = n + 1
      BY <3>1, <3>2, <1>3
    <3> QED BY <3>2, <3>3
  <2>5. d \in Decl /\ d \notin Used(compilers)
    BY <2>2, <2>3
  <2> HIDE DEF rest
  <2> DEFINE cs == mid(d)
             sc == within(d)
  <2>6. State(cs, sc, taken) /\ \A e \in Used(cs) : e \in Used(compilers) \/ e = d
    <3> DEFINE comp == Declared(current, x, current.scope_depth, d)
    <3>1. /\ cs = Sub(compilers, Len(compilers), comp)
          /\ sc = Sub(scopes, Len(scopes), Extend(Last(scopes), x, d))
          /\ comp = Declared(current, x, current.scope_depth, d)
      BY DEF mid, within
    <3> HIDE DEF comp, d, cs, sc
    <3> QED BY <3>1, <2>5, <1>1, <1>6, FunLocal
  <2>7. ASSUME NEW p \in 1 .. n + 1 PROVE rest[p] \in Decl /\ rest[p] \notin Used(cs)
    <3>1. /\ rest[p] = new[p + 1] /\ p + 1 \in 1 .. N /\ p + 1 # 1 /\ 1 \in 1 .. N
      BY <2>2, <2>4
    <3>2. rest[p] \in Decl /\ rest[p] \notin Used(compilers) /\ rest[p] # d
      BY <3>1, <2>3
    <3> QED BY <3>2, <2>6
  <2>8. ASSUME NEW p \in 1 .. n + 1, NEW q \in 1 .. n + 1, rest[p] = rest[q] PROVE p = q
    <3>1. new[p + 1] = new[q + 1] /\ p + 1 \in 1 .. N /\ q + 1 \in 1 .. N
      BY <2>2, <2>4, <2>8
    <3> QED BY <3>1, <2>2, <2>3
  <2>9. function(cs, sc, "function", params, rest)
    BY <2>1 DEF rest
  <2> HIDE DEF cs, sc, d
  <2>10. /\ \A p \in 1 .. Len(params) + 1 : rest[p] \in Decl /\ rest[p] \notin Used(cs)
         /\ \A p, q \in 1 .. Len(params) + 1 : rest[p] = rest[q] => p = q
    BY <2>7, <2>8 DEF n
  <2>11. State(compilers', scopes', taken)
    BY <2>6, <2>9, <2>10, CallStep
  <2> QED BY <2>11, <1>1
<1> QED BY <1>2, <1>5, <1>6

LEMMA ReturnStep ==
  ASSUME State(compilers, scopes, taken), end_compiler
  PROVE  State(compilers', scopes', taken')
<1>1. Chained(compilers, taken) /\ LayoutOK(compilers, scopes)
  BY DEF State
<1>2. current = Last(compilers) /\ Level = Len(compilers) /\ Len(compilers) > 1
      /\ Last(compilers).scope_depth = 1
  BY <1>1, CurrentIs DEF end_compiler
<1>3. /\ compilers' = Cut(compilers, 1) /\ scopes' = Cut(scopes, 2)
      /\ taken' = TakenBy(compilers, taken)
  BY <1>2 DEF end_compiler, TakenBy
<1> DEFINE ds == compilers'
           sd == scopes'
           tl == taken'
<1>4. ds = Cut(compilers, 1) /\ sd = Cut(scopes, 2) /\ tl = TakenBy(compilers, taken)
  BY <1>3
<1> HIDE DEF ds, sd, tl
<1>5. Chained(ds, tl)
  BY <1>1, <1>2, <1>4, ChainReturned
<1>6. DOMAIN ds = 1 .. Len(compilers) - 1 /\ \A n \in DOMAIN ds : ds[n] = compilers[n]
  BY <1>1, <1>2, <1>4, ChainReturned
<1>7. LayoutOK(ds, sd)
  BY <1>1, <1>2, <1>4, <1>6, LayoutReturn
<1> QED BY <1>5, <1>7 DEF ds, sd, tl, State

(* A name stands for a captured local.                                     *)
LEMMA CaptureStep ==
  ASSUME State(compilers, scopes, taken), NEW m \in DOMAIN compilers, m < Len(compilers),
         NEW i \in DOMAIN compilers[m].locals, NEW at, at = Entries(m, i, Level),
         NEW ds, ds = resolve_upvalue(m, i)
  PROVE  /\ State(ds, scopes, taken) /\ at[Level] \in DOMAIN Last(ds).upvalues
         /\ Last(ds).upvalues[at[Level]].decl = compilers[m].locals[i].decl
<1>1. Chained(compilers, taken) /\ LayoutOK(compilers, scopes) /\ Level = Len(compilers)
  BY CurrentIs DEF State
<1>2. /\ ds \in Seq(CompSet) /\ Len(ds) = Len(compilers) /\ DOMAIN ds = DOMAIN compilers
      /\ Passed(compilers, ds, m, i, at)
  BY <1>1, Passes DEF Passed
<1>3. /\ Chained(ds, taken) /\ at[Len(ds)] \in DOMAIN Last(ds).upvalues
      /\ Last(ds).upvalues[at[Len(ds)]].decl = compilers[m].locals[i].decl
  BY <1>1, <1>2, ResolveStep
<1>4. ASSUME NEW n \in DOMAIN compilers
      PROVE  /\ ds[n].scope_depth = compilers[n].scope_depth
             /\ \A d \in Nat : SameAt(compilers[n].locals, ds[n].locals, d)
  <2>1. /\ ds[n].scope_depth = compilers[n].scope_depth
        /\ SameLocals(compilers[n].locals, ds[n].locals)
    BY <1>2 DEF Passing, Passed
  <2> QED BY <2>1 DEF SameLocals, SameAt
<1>5. LayoutOK(ds, scopes)
  BY <1>1, <1>2, <1>4, LayoutSame
<1> QED BY <1>1, <1>2, <1>3, <1>5 DEF State

(* The instruction for a name accesses what the source means.              *)
Found(sc, x) == {k \in DOMAIN sc : x \in DOMAIN sc[k]}
Chosen(sc, x) == sc[CHOOSE k \in Found(sc, x) : \A j \in Found(sc, x) : j <= k][x]

Accesses(comp, op, a, d) ==
  \/ op = "OP_GET_LOCAL" /\ comp.locals[a].decl = d
  \/ op = "OP_GET_UPVALUE" /\ comp.upvalues[a].decl = d

LEMMA NameEmitted ==
  ASSUME NEW op, NEW x, NEW a, emitted' = <<[op |-> op, name |-> x, arg |-> a]>>, scopes' = scopes,
         \/ op = "OP_GET_GLOBAL" /\ Binding(x) = {}
         \/ Binding(x) # {} /\ Accesses(current', op, a, Meant(x))
  PROVE  EmittedOK'
<1> DEFINE e == [op |-> op, name |-> x, arg |-> a]
<1>1. /\ Binding(x) = Found(scopes, x) /\ Meant(x) = Chosen(scopes, x)
      /\ Binding(x)' = Found(scopes', x) /\ Meant(x)' = Chosen(scopes', x)
  BY DEF Binding, Meant, Found, Chosen
<1>2. Binding(x)' = Binding(x) /\ Meant(x)' = Meant(x)
  BY <1>1
<1>3. /\ emitted' = <<e>> /\ e.op = op /\ e.name = x /\ e.arg = a
  OBVIOUS
<1> HIDE DEF e
<1>4. DOMAIN emitted' = {1} /\ emitted'[1] = e /\ Len(emitted') = 1 /\ Last(emitted)' = e
  BY <1>3 DEF Last
<1>5. op \in {"OP_GET_LOCAL", "OP_GET_UPVALUE", "OP_GET_GLOBAL"}
  BY DEF Accesses
<1>6. ResolvesLexically'
  <2>1. e.op = "OP_GET_LOCAL" => Binding(x)' # {} /\ current'.locals[a].decl = Meant(x)'
    BY <1>2, <1>3 DEF Accesses
  <2>2. e.op = "OP_GET_UPVALUE" => Binding(x)' # {} /\ current'.upvalues[a].decl = Meant(x)'
    BY <1>2, <1>3 DEF Accesses
  <2>3. e.op = "OP_GET_GLOBAL" => Binding(x)' = {}
    BY <1>2, <1>3 DEF Accesses
  <2> HIDE DEF Binding, Meant, current
  <2> QED BY <2>1, <2>2, <2>3, <1>3, <1>4 DEF ResolvesLexically
<1>7. CapturedLocalsAreClosed'
  BY <1>3, <1>4, <1>5 DEF CapturedLocalsAreClosed
<1>8. LoopsAreLeftClean'
  BY <1>3, <1>4, <1>5 DEF LoopsAreLeftClean
<1> QED BY <1>6, <1>7, <1>8 DEF EmittedOK

LEMMA VariableStep ==
  ASSUME State(compilers, scopes, taken), NEW x \in Name \cup {self}, named_variable(x)
  PROVE  State(compilers', scopes', taken') /\ EmittedOK'
<1> DEFINE m == HomeLevel(Level, x)
           i == resolve_local(m, x)
           at == Entries(m, i, Level)
<1>1. scopes' = scopes /\ taken' = taken
  BY DEF named_variable
<1>2. Chained(compilers, taken) /\ LayoutOK(compilers, scopes) /\ Level = Len(compilers)
  BY CurrentIs DEF State
<1>3. \/ /\ m = 0 /\ emitted' = <<[op |-> "OP_GET_GLOBAL", name |-> x, arg |-> 0]>>
         /\ compilers' = compilers
      \/ /\ m > 0 /\ compilers[m].locals[i].depth # UNINITIALIZED /\ m = Level
         /\ emitted' = <<[op |-> "OP_GET_LOCAL", name |-> x, arg |-> i]>>
         /\ compilers' = compilers
      \/ /\ m > 0 /\ compilers[m].locals[i].depth # UNINITIALIZED /\ m < Level
         /\ emitted' = <<[op |-> "OP_GET_UPVALUE", name |-> x, arg |-> at[Level]]>>
         /\ compilers' = resolve_upvalue(m, i)
  BY DEF named_variable
<1>4. m = HomeLevel(Level, x) /\ i = resolve_local(m, x) /\ at = Entries(m, i, Level)
  OBVIOUS
<1> HIDE DEF m, i, at
<1>5. /\ m = 0 => Binding(x) = {}
      /\ m # 0 /\ compilers[m].locals[i].depth # UNINITIALIZED =>
           Binding(x) # {} /\ Meant(x) = compilers[m].locals[i].decl
  BY <1>2, <1>4, MeantIs
<1>6. m # 0 => m \in DOMAIN compilers /\ i \in DOMAIN compilers[m].locals
  BY <1>2, <1>4, HomeIs DEF LastLocal
<1>7. CASE /\ m = 0 /\ emitted' = <<[op |-> "OP_GET_GLOBAL", name |-> x, arg |-> 0]>>
           /\ compilers' = compilers
  <2>1. EmittedOK'
    BY <1>1, <1>5, <1>7, NameEmitted
  <2> QED BY <2>1, <1>1, <1>7
<1>8. CASE /\ m > 0 /\ compilers[m].locals[i].depth # UNINITIALIZED /\ m = Level
           /\ emitted' = <<[op |-> "OP_GET_LOCAL", name |-> x, arg |-> i]>>
           /\ compilers' = compilers
  <2>1. Accesses(current', "OP_GET_LOCAL", i, Meant(x))
    <3>1. current' = current /\ current = compilers[m]
      BY <1>2, <1>8, CurrentIs DEF current, Last
    <3> QED BY <3>1, <1>5, <1>8 DEF Accesses
  <2>2. Binding(x) # {}
    BY <1>5, <1>8
  <2>3. EmittedOK'
    BY <2>1, <2>2, <1>1, <1>8, NameEmitted
  <2> QED BY <2>3, <1>1, <1>8
<1>9. CASE /\ m > 0 /\ compilers[m].locals[i].depth # UNINITIALIZED /\ m < Level
           /\ emitted' = <<[op |-> "OP_GET_UPVALUE", name |-> x, arg |-> at[Level]]>>
           /\ compilers' = resolve_upvalue(m, i)
  <2> DEFINE ds == compilers'
             a == at[Level]
  <2>1. ds = resolve_upvalue(m, i) /\ m \in DOMAIN compilers /\ m < Len(compilers)
        /\ i \in DOMAIN compilers[m].locals
    BY <1>2, <1>6, <1>9
  <2> HIDE DEF ds
  <2>2. /\ State(ds, scopes, taken) /\ at[Level] \in DOMAIN Last(ds).upvalues
        /\ Last(ds).upvalues[at[Level]].decl = compilers[m].locals[i].decl
    BY <2>1, <1>4, CaptureStep
  <2>3. Accesses(current', "OP_GET_UPVALUE", a, Meant(x))
    <3>1. current' = Last(ds)
      BY DEF current, ds
    <3> QED BY <3>1, <2>2, <1>5, <1>9 DEF Accesses
  <2>4. Binding(x) # {} /\ emitted' = <<[op |-> "OP_GET_UPVALUE", name |-> x, arg |-> a]>>
    BY <1>5, <1>9
  <2> HIDE DEF a
  <2>5. EmittedOK'
    BY <2>3, <2>4, <1>1, NameEmitted
  <2> QED BY <2>2, <2>5, <1>1 DEF ds
<1> QED BY <1>3, <1>7, <1>8, <1>9

(* The instructions that take locals off the stack: those that closures    *)
(* have captured are closed.                                               *)
Takes(e, d) ==
  /\ e.decl = d
  /\ \/ e.op = "OP_POP" /\ ~e.taken
     \/ e.op = "OP_CLOSE_UPVALUE" /\ e.taken

Discarded(K, i, e) ==
  /\ Len(e) = Len(K) - i /\ DOMAIN e = 1 .. Len(K) - i /\ e \in Seq({e[k] : k \in DOMAIN e})
  /\ \A k \in 1 .. Len(K) - i : Takes(e[k], K[Len(K) + 1 - k].decl)

LEMMA DiscardIs ==
  ASSUME Chained(compilers, taken), NEW K, K = current.locals, NEW i \in Nat, i <= Len(K),
         NEW e, e = Discard(K, i)
  PROVE  Discarded(K, i, e)
<1> DEFINE n == Len(K) - i
<1>1. CompOK(current) /\ current = compilers[Level] /\ Level = Len(compilers)
      /\ Level \in DOMAIN compilers /\ Level \in Nat
  BY CurrentIs, ChainIs
<1>2. /\ K \in Seq(LocalSet) /\ Len(K) \in Nat /\ DOMAIN K = 1 .. Len(K) /\ n \in Nat
      /\ \A k \in 1 .. n : Len(K) + 1 - k \in DOMAIN K
  BY <1>1, CompIs
<1>3. DOMAIN e = 1 .. n
  BY DEF Discard
<1> DEFINE S == {e[k] : k \in DOMAIN e}
<1>4. e \in [1 .. n -> S]
  <2>1. e = [k \in 1 .. n |-> e[k]]
    BY DEF Discard
  <2>2. \A k \in 1 .. n : e[k] \in S
    BY <1>3
  <2> HIDE DEF S, n
  <2> QED BY <2>1, <2>2
<1>5. e \in Seq(S) /\ Len(e) = n
  <2> HIDE DEF S, n
  <2> QED BY <1>2, <1>4, ListIs
<1>6. ASSUME NEW k \in 1 .. n PROVE Takes(e[k], K[Len(K) + 1 - k].decl)
  <2> DEFINE j == Len(K) + 1 - k
             l == K[j]
  <2>1. e[k] = [op |-> IF l.is_captured THEN "OP_CLOSE_UPVALUE" ELSE "OP_POP",
                decl |-> l.decl, taken |-> l.decl \in taken]
    BY <1>6 DEF Discard
  <2>2. j \in DOMAIN K
    BY <1>2
  <2>3. l.is_captured = TRUE <=> l.decl \in taken
    <3>1. CapturedOK(compilers, taken)
      BY DEF Chained
    <3>2. ~Captures(compilers, Level, j)
      BY <1>1 DEF Captures
    <3> HIDE DEF j
    <3> QED BY <3>1, <3>2, <2>2, <1>1 DEF CapturedOK
  <2>4. l.is_captured = TRUE \/ l.is_captured = FALSE
    <3>1. l \in LocalSet
      <4> HIDE DEF j
      <4> QED BY <1>2, <2>2, SeqIs
    <3> QED BY <3>1 DEF LocalSet
  <2> HIDE DEF l, j
  <2>5. CASE l.is_captured = TRUE
    <3>1. e[k] = [op |-> "OP_CLOSE_UPVALUE", decl |-> l.decl, taken |-> TRUE]
      BY <2>1, <2>3, <2>5
    <3> QED BY <3>1 DEF Takes, l, j
  <2>6. CASE l.is_captured = FALSE
    <3>1. ~l.is_captured /\ l.decl \notin taken
      BY <2>3, <2>6
    <3>2. e[k].decl = l.decl /\ e[k].op = "OP_POP"
      BY <2>1, <3>1
    <3>3. ~e[k].taken
      <4>1. e[k].taken = (l.decl \in taken)
        BY <2>1
      <4>2. ASSUME NEW b, b = (l.decl \in taken) PROVE ~b
        BY <3>1, <4>2, Zenon
      <4> QED BY <4>1, <4>2, Zenon
    <3> QED BY <3>2, <3>3 DEF Takes, l, j
  <2> QED BY <2>4, <2>5, <2>6
<1> QED BY <1>3, <1>5, <1>6 DEF Discarded

LEMMA EndEmits ==
  ASSUME State(compilers, scopes, taken), end_scope
  PROVE  EmittedOK'
<1> DEFINE K == current.locals
           D == current.scope_depth - 1
           i == Below(K, D)
           n == Len(K) - i
           e == emitted'
<1>1. Chained(compilers, taken)
  BY DEF State
<1>2. /\ CompOK(current) /\ Last(K).depth # UNINITIALIZED /\ D \in Nat
      /\ e = Discard(K, i)
  <2>1. CompOK(current) /\ current.scope_depth \in Nat
    BY <1>1, CurrentIs, CompIs
  <2>2. current.loops # <<>> => Last(current.loops).scope_depth \in Nat
    BY <2>1, LoopsAre
  <2>3. current.scope_depth > 0
    BY <2>1, <2>2 DEF end_scope, Loops
  <2> QED BY <2>1, <2>3 DEF end_scope, Initializing
<1>3. i \in 1 .. Len(K) /\ Len(K) \in Nat
  <2> HIDE DEF D
  <2> QED BY <1>2, BelowIs, CompIs
<1> HIDE DEF K, i, e
<1>4. Discarded(K, i, e)
  <2>1. K = current.locals /\ i \in Nat /\ i <= Len(K)
    BY <1>3 DEF K
  <2> QED BY <2>1, <1>1, <1>2, DiscardIs
<1>5. DOMAIN e = 1 .. n /\ Len(e) = n /\ \A k \in 1 .. n : \E d : Takes(e[k], d)
  BY <1>4 DEF Discarded
<1>6. e # <<>> => n \in 1 .. n
  <2>1. e # <<>> => Len(e) > 0
    <3> DEFINE S == {e[k] : k \in DOMAIN e}
    <3>1. e \in Seq(S)
      BY <1>4 DEF Discarded
    <3> HIDE DEF S
    <3> QED BY <3>1, SeqIs
  <2> QED BY <2>1, <1>3, <1>5
<1> HIDE DEF n
<1>7. ResolvesLexically'
  BY <1>5 DEF ResolvesLexically, Takes, e
<1>8. CapturedLocalsAreClosed'
  BY <1>5 DEF CapturedLocalsAreClosed, Takes, e
<1>9. LoopsAreLeftClean'
  <2>1. emitted' # <<>> => \E d : Takes(Last(emitted'), d)
    BY <1>5, <1>6 DEF Last, e
  <2>2. Last(emitted)' = Last(emitted')
    BY DEF Last
  <2>3. emitted' # <<>> => Last(emitted)'.op \notin {"OP_LOOP", "OP_BREAK"}
    BY <2>1, <2>2 DEF Takes
  <2> QED BY <2>3 DEF LoopsAreLeftClean
<1> QED BY <1>7, <1>8, <1>9 DEF EmittedOK

LEMMA LeaveStep ==
  ASSUME State(compilers, scopes, taken), NEW op \in {"OP_LOOP", "OP_BREAK"}, leave_loop(op)
  PROVE  State(compilers', scopes', taken') /\ EmittedOK'
<1> DEFINE K == current.locals
           i == Last(Loops).since
           n == Len(K) - i
           e == Discard(K, i)
<1>1. Chained(compilers, taken)
  BY DEF State
<1>2. /\ CompOK(current) /\ Last(K).depth # UNINITIALIZED /\ current.loops # <<>>
      /\ Loops = current.loops
  BY <1>1, CurrentIs DEF leave_loop, Initializing, Loops
<1>3. Below(K, Last(Loops).scope_depth) = i
  BY <1>2, BelowIsSince
<1>4. emitted' = Append(e, [op |-> op]) /\ UNCHANGED <<compilers, scopes, taken>>
  BY <1>3 DEF leave_loop, discard_locals
<1>5. i \in Nat /\ i <= Len(K) /\ Len(K) \in Nat /\ n \in Nat
  <2>1. Len(current.loops) \in DOMAIN current.loops /\ Last(current.loops) = Loops[Len(Loops)]
    BY <1>2, LoopsAre DEF Last
  <2>2. LoopOK(Last(Loops), K)
    BY <2>1, <1>2 DEF CompOK, LoopsOK
  <2>3. i \in Nat /\ Len(K) \in Nat
    BY <2>1, <1>2, CompIs
  <2> QED BY <2>2, <2>3 DEF LoopOK
<1> HIDE DEF K, i, e
<1>6. Discarded(K, i, e)
  BY <1>1, <1>5, DiscardIs DEF K, e
<1> DEFINE last == [op |-> op]
           S == {e[k] : k \in DOMAIN e} \cup {last}
           f == emitted'
<1>7. /\ DOMAIN f = 1 .. n + 1 /\ Len(f) = n + 1 /\ f[n + 1] = last /\ Last(f) = last
      /\ \A k \in 1 .. n : f[k] = e[k]
  <2>1. e \in Seq(S) /\ last \in S /\ Len(e) = n
    <3>1. e \in Seq({e[k] : k \in DOMAIN e})
      BY <1>6 DEF Discarded
    <3>2. {e[k] : k \in DOMAIN e} \subseteq S
      OBVIOUS
    <3>3. Len(e) = n
      BY <1>6 DEF Discarded
    <3> DEFINE T == {e[k] : k \in DOMAIN e}
    <3> HIDE DEF T, S
    <3>4. e \in Seq(S)
      BY <3>1, <3>2, SeqDef DEF T
    <3> QED BY <3>3, <3>4 DEF S
  <2>2. f = Append(e, last)
    BY <1>4
  <2> HIDE DEF S, last, f, n
  <2>3. /\ Len(f) = Len(e) + 1 /\ DOMAIN f = 1 .. Len(e) + 1
        /\ f[Len(e) + 1] = last /\ Last(f) = last
        /\ \A k \in 1 .. Len(e) : f[k] = e[k]
    BY <2>1, <2>2, Appended
  <2> QED BY <2>1, <2>3
<1>8. \A k \in 1 .. n : Takes(f[k], K[Len(K) + 1 - k].decl)
  BY <1>6, <1>7 DEF Discarded
<1>9. \A k \in 1 .. n + 1 : k = n + 1 \/ k \in 1 .. n
  BY <1>5
<1>10. last.op = op
  OBVIOUS
<1> HIDE DEF last, f, S
<1>11. ASSUME NEW k \in DOMAIN f
       PROVE  \/ f[k].op = op
              \/ \E d : Takes(f[k], d)
  BY <1>7, <1>8, <1>9, <1>10
<1>12. ResolvesLexically'
  BY <1>11 DEF ResolvesLexically, Takes, f
<1>13. CapturedLocalsAreClosed'
  BY <1>11 DEF CapturedLocalsAreClosed, Takes, f
<1>14. current' = current
  BY <1>4 DEF current, Last
<1>15. LoopsAreLeftClean'
  <2>1. current'.locals = K /\ Last(Loops)'.since = i /\ Len(emitted)' - 1 = n
    BY <1>5, <1>7, <1>14 DEF K, i, f, Loops, Last
  <2>2. \A k \in 1 .. n : emitted'[k].decl = K[Len(K) + 1 - k].decl
    BY <1>8 DEF Takes, f
  <2> HIDE DEF current, Loops, Last
  <2> QED BY <2>1, <2>2 DEF LoopsAreLeftClean
<1> QED BY <1>4, <1>12, <1>13, <1>15 DEF EmittedOK
-----------------------------------------------------------------------------
(* The invariant.                                                          *)

LEMMA ScriptComp ==
  ASSUME NEW d \in Decl, NEW g, g = NewCompiler("script", d)
  PROVE  /\ CompOK(g) /\ g.upvalues = <<>> /\ g.scope_depth = 0 /\ g.locals = <<Local(self, 0, d)>>
<1>1. /\ g.type = "script" /\ g.scope_depth = 0 /\ g.loops = <<>> /\ g.upvalues = <<>>
      /\ g.locals = <<Local(self, 0, d)>>
  BY DEF NewCompiler
<1> DEFINE l == Local(self, 0, d)
           K == <<l>>
<1>2. l \in LocalSet /\ l.depth = 0
  BY DEF Local, LocalSet, Names
<1>3. g = [type |-> "script", scope_depth |-> 0, loops |-> <<>>, upvalues |-> <<>>, locals |-> K]
  BY DEF NewCompiler
<1> HIDE DEF l
<1>4. K \in Seq(LocalSet) /\ Len(K) = 1 /\ DOMAIN K = {1} /\ K[1] = l /\ K # <<>> /\ Last(K) = l
  BY <1>2 DEF Last
<1> HIDE DEF K
<1>5. <<>> \in Seq(LoopSet) /\ <<>> \in Seq(UpvalueSet)
  OBVIOUS
<1>6. g \in CompSet
  <2>1. ASSUME NEW ls \in Seq(LoopSet), NEW us \in Seq(UpvalueSet), NEW ks \in Seq(LocalSet)
        PROVE  [type |-> "script", scope_depth |-> 0, loops |-> ls, upvalues |-> us, locals |-> ks]
                 \in CompSet
    BY DEF CompSet
  <2> QED BY <2>1, <1>3, <1>4, <1>5
<1>7. g.locals = K
  BY <1>1 DEF K, l
<1>8. Sorted(g.locals)
  BY <1>4, <1>7 DEF Sorted
<1>9. LoopsOK(g) /\ DeclaringOK(g)
  <2>1. DOMAIN g.loops = {}
    BY <1>1
  <2>2. Last(g.locals).depth # UNINITIALIZED
    BY <1>2, <1>4, <1>7 DEF UNINITIALIZED
  <2> QED BY <2>1, <2>2 DEF LoopsOK, DeclaringOK
<1>10. /\ g.locals # <<>> /\ g.locals[1].depth = 0
       /\ \A i \in DOMAIN g.locals : g.locals[i].depth <= g.scope_depth
  BY <1>1, <1>2, <1>4, <1>7
<1> QED BY <1>1, <1>6, <1>8, <1>9, <1>10 DEF CompOK

LEMMA InitHolds ==
  ASSUME Init
  PROVE  IInv
<1> DEFINE d == CHOOSE d \in Decl : TRUE
           g == NewCompiler("script", d)
           s == Bind(self, d)
<1>1. d \in Decl
  BY ScopeAssumption
<1>2. compilers = <<g>> /\ scopes = <<s>> /\ taken = {} /\ emitted = <<>>
  BY DEF Init
<1> HIDE DEF d, g
<1>3. /\ CompOK(g) /\ g.upvalues = <<>> /\ g.scope_depth = 0 /\ g.locals = <<Local(self, 0, d)>>
  <2>1. g = NewCompiler("script", d)
    BY DEF g
  <2> QED BY <1>1, <2>1, ScriptComp
<1>4. DOMAIN g.locals = {1} /\ g.locals[1] = Local(self, 0, d)
  BY <1>3
<1>5. DOMAIN compilers = {1} /\ compilers[1] = g /\ Len(compilers) = 1
  BY <1>2
<1>6. g.locals[1].is_captured = FALSE /\ g.locals[1].name = self /\ g.locals[1].depth = 0
      /\ g.locals[1].decl = d
  BY <1>4 DEF Local
<1>7. Chained(compilers, taken)
  <2>1. g \in CompSet
    BY <1>3 DEF CompOK
  <2>2. compilers \in Seq(CompSet) /\ compilers # <<>>
    BY <1>2, <2>1
  <2>3. Distinct(compilers)
    BY <1>4, <1>5 DEF Distinct
  <2>4. UpvaluesOK(compilers)
    <3>1. DOMAIN compilers[1].upvalues = {}
      BY <1>3, <1>5
    <3> QED BY <3>1, <1>5 DEF UpvaluesOK
  <2>5. CapturedOK(compilers, taken)
    BY <1>2, <1>4, <1>5, <1>6 DEF CapturedOK, Captures
  <2> QED BY <2>2, <2>3, <2>4, <2>5, <1>2, <1>3, <1>5 DEF Chained
<1>8. LayoutOK(compilers, scopes)
  <2> DEFINE lev == [k \in {1} |-> 1]
             dep == [k \in {1} |-> 0]
  <2>1. /\ s \in ScopeSet /\ DOMAIN s = {self} /\ s[self] = d
    <3>1. {self} \in SUBSET Names /\ s \in [{self} -> Decl]
      BY <1>1 DEF Names, Bind
    <3> QED BY <3>1 DEF ScopeSet, Bind
  <2>2. Holds(s, g.locals, 0)
    BY <2>1, <1>4, <1>6 DEF Holds
  <2> HIDE DEF s
  <2>3. scopes \in Seq(ScopeSet) /\ DOMAIN scopes = {1} /\ scopes[1] = s
    BY <1>2, <2>1
  <2>4. /\ lev \in [DOMAIN scopes -> DOMAIN compilers] /\ dep \in [DOMAIN scopes -> Nat]
        /\ lev[1] = 1 /\ dep[1] = 0
    BY <2>3, <1>5
  <2> HIDE DEF lev, dep
  <2>5. Placed(compilers, scopes, lev, dep)
    BY <2>2, <2>3, <2>4, <1>3, <1>5 DEF Placed
  <2>6. \A n \in DOMAIN compilers : \A e \in 0 .. compilers[n].scope_depth :
          Covers(scopes, lev, dep, n, e)
    <3>1. ASSUME NEW n \in DOMAIN compilers, NEW e \in 0 .. compilers[n].scope_depth
          PROVE  n = 1 /\ e = 0
      BY <3>1, <1>3, <1>5
    <3>2. Covers(scopes, lev, dep, 1, 0)
      BY <2>3, <2>4 DEF Covers
    <3> QED BY <3>1, <3>2
  <2> QED BY <2>3, <2>5, <2>6 DEF LayoutOK, LayoutBy
<1>9. EmittedOK
  BY <1>2 DEF EmittedOK, ResolvesLexically, CapturedLocalsAreClosed, LoopsAreLeftClean
<1> QED BY <1>7, <1>8, <1>9 DEF IInv, State

LEMMA StepHolds ==
  ASSUME State(compilers, scopes, taken), Next
  PROVE  State(compilers', scopes', taken') /\ EmittedOK'
<1>1. CASE \E x \in Name \cup {self} : named_variable(x)
  BY <1>1, VariableStep
<1>2. CASE \E x \in Name : declare_variable(x)
  BY <1>2, DeclareStep, NothingEmitted DEF declare_variable
<1>3. CASE \E x \in Name : fun_declaration(x)
  BY <1>3, FunStep, NothingEmitted DEF fun_declaration
<1>4. CASE begin_scope
  BY <1>4, BeginStep, NothingEmitted DEF begin_scope
<1>5. CASE end_scope
  BY <1>5, EndStep, EndEmits
<1>6. CASE mark_initialized
  BY <1>6, InitializeStep, NothingEmitted DEF mark_initialized
<1>7. CASE method
  BY <1>7, MethodStep, NothingEmitted DEF method
<1>8. CASE end_compiler
  BY <1>8, ReturnStep, NothingEmitted DEF end_compiler
<1>9. CASE start_loop \/ end_loop
  BY <1>9, LoopStep, NothingEmitted DEF start_loop, end_loop
<1>10. CASE next_statement \/ break_statement
  BY <1>10, LeaveStep DEF next_statement, break_statement
<1> QED BY <1>1, <1>2, <1>3, <1>4, <1>5, <1>6, <1>7, <1>8, <1>9, <1>10 DEF Next

(* What is known of the compilers and the scopes, after every step.        *)
THEOREM InvariantHolds == Spec => []IInv
<1>1. Init => IInv
  BY InitHolds
<1>2. ASSUME IInv, [Next]_vars PROVE IInv'
  <2>1. CASE UNCHANGED vars
    <3>1. State(compilers', scopes', taken') <=> State(compilers, scopes, taken)
      BY <2>1 DEF vars
    <3>2. EmittedOK'
      <4>1. EmittedOK /\ emitted' = emitted /\ scopes' = scopes
        BY <2>1, <1>2 DEF IInv, vars
      <4>2. current' = current
        BY <2>1 DEF vars, current, Last
      <4>3. Loops' = Loops
        BY <4>2 DEF Loops
      <4>4. ASSUME NEW x PROVE Binding(x)' = Binding(x) /\ Meant(x)' = Meant(x)
        <5>1. /\ Binding(x) = Found(scopes, x) /\ Meant(x) = Chosen(scopes, x)
              /\ Binding(x)' = Found(scopes', x) /\ Meant(x)' = Chosen(scopes', x)
          BY DEF Binding, Meant, Found, Chosen
        <5> QED BY <5>1, <4>1
      <4>5. ResolvesLexically'
        <5> SUFFICES ASSUME NEW k \in DOMAIN emitted
                     PROVE  LET e == emitted[k]
                            IN  /\ e.op = "OP_GET_LOCAL" => Binding(e.name)' # {}
                                     /\ current.locals[e.arg].decl = Meant(e.name)'
                                /\ e.op = "OP_GET_UPVALUE" => Binding(e.name)' # {}
                                     /\ current.upvalues[e.arg].decl = Meant(e.name)'
                                /\ e.op = "OP_GET_GLOBAL" => Binding(e.name)' = {}
          BY <4>1, <4>2 DEF ResolvesLexically
        <5> HIDE DEF current
        <5> QED BY <4>1, <4>4 DEF EmittedOK, ResolvesLexically
      <4>6. CapturedLocalsAreClosed'
        BY <4>1 DEF EmittedOK, CapturedLocalsAreClosed
      <4>7. LoopsAreLeftClean'
        BY <4>1, <4>2, <4>3 DEF EmittedOK, LoopsAreLeftClean, Last
      <4> QED BY <4>5, <4>6, <4>7 DEF EmittedOK
    <3> QED BY <3>1, <3>2, <1>2 DEF IInv
  <2>2. CASE Next
    BY <2>2, <1>2, StepHolds DEF IInv
  <2> QED BY <2>1, <2>2, <1>2
<1> QED BY <1>1, <1>2, PTL DEF Spec

(* Every name is resolved to the declaration that the source means.        *)
THEOREM NamesResolveLexically == Spec => []ResolvesLexically
<1>1. IInv => ResolvesLexically
  BY DEF IInv, EmittedOK
<1> QED BY <1>1, InvariantHolds, PTL

(* Captured locals are closed when they leave the stack, and no others.    *)
THEOREM CapturedAreClosed == Spec => []CapturedLocalsAreClosed
<1>1. IInv => CapturedLocalsAreClosed
  BY DEF IInv, EmittedOK
<1> QED BY <1>1, InvariantHolds, PTL

(* next and break leave the stack as the loop found it.                    *)
THEOREM LoopsLeaveClean == Spec => []LoopsAreLeftClean
<1>1. IInv => LoopsAreLeftClean
  BY DEF IInv, EmittedOK
<1> QED BY <1>1, InvariantHolds, PTL

(* The operands of OP_CLOSURE find what they stand for.                    *)
THEOREM UpvaluesAreFound == Spec => []UpvaluesResolve
<1>1. ASSUME IInv PROVE UpvaluesResolve
  <2>1. Chained(compilers, taken)
    BY <1>1 DEF IInv, State
  <2> SUFFICES ASSUME NEW n \in DOMAIN compilers, NEW k \in DOMAIN compilers[n].upvalues
               PROVE  LET ups == compilers[n].upvalues
                          from == IF ups[k].is_local THEN compilers[n - 1].locals
                                                     ELSE compilers[n - 1].upvalues
                      IN  /\ ups[k].index \in DOMAIN from
                          /\ from[ups[k].index].decl = ups[k].decl
                          /\ \A l \in DOMAIN ups : ups[k].decl = ups[l].decl => k = l
    BY DEF UpvaluesResolve
  <2> DEFINE ups == compilers[n].upvalues
             u == ups[k]
  <2>2. /\ Resolved(compilers, n, u)
        /\ \A l \in DOMAIN ups : ups[k].decl = ups[l].decl => k = l
    BY <2>1 DEF Chained, UpvaluesOK
  <2>3. u \in UpvalueSet
    <3>1. CompOK(compilers[n])
      BY <2>1 DEF Chained
    <3> QED BY <3>1, CompIs
  <2>4. u.is_local <=> OfLocal(u)
    BY <2>3, UpvalueIs
  <2>5. CASE OfLocal(u)
    <3>1. u.index \in DOMAIN compilers[n - 1].locals
          /\ compilers[n - 1].locals[u.index].decl = u.decl
      BY <2>2, <2>5 DEF Resolved
    <3> QED BY <3>1, <2>2, <2>4, <2>5
  <2>6. CASE ~OfLocal(u)
    <3>1. u.index \in DOMAIN compilers[n - 1].upvalues
          /\ compilers[n - 1].upvalues[u.index].decl = u.decl
      BY <2>2, <2>6 DEF Resolved
    <3> QED BY <3>1, <2>2, <2>4, <2>6
  <2> QED BY <2>5, <2>6
<1> QED BY <1>1, InvariantHolds, PTL

(* The types, and depths never fall towards the top of the stack.          *)
THEOREM LocalsStaySorted == Spec => []LocalsSorted
<1>1. ASSUME IInv PROVE LocalsSorted
  <2>1. Chained(compilers, taken)
    BY <1>1 DEF IInv, State
  <2>2. compilers # <<>> /\ taken \subseteq UsedDecls
    BY <2>1 DEF Chained, Used, UsedDecls
  <2>3. ASSUME NEW n \in DOMAIN compilers
        PROVE  /\ compilers[n].type \in {"script", "function", "method"}
               /\ compilers[n].scope_depth \in Nat
               /\ compilers[n].locals \in Seq(LocalSet)
               /\ compilers[n].upvalues \in Seq(UpvalueSet)
               /\ compilers[n].loops \in Seq(LoopSet)
               /\ Sorted(compilers[n].locals)
    <3>1. CompOK(compilers[n])
      BY <2>1 DEF Chained
    <3> QED BY <3>1, CompIs DEF CompOK
  <2>4. TypeOK
    BY <2>2, <2>3 DEF TypeOK, LocalSet, UpvalueSet, LoopSet, Names
  <2> QED BY <2>3, <2>4 DEF LocalsSorted, Sorted
<1> QED BY <1>1, InvariantHolds, PTL
-----------------------------------------------------------------------------
(* The globals of the REPL, ValpConstants: what vm.constants knows of      *)
(* consts is right, although it is never cleaned and is no root of the     *)
(* collector.                                                              *)
(* The consts that have run: their names are keys of the globals.          *)
DefinedStay ==
  \A e \in defined : strings[e.at] = e.name /\ e.at \in globals /\ Con!Found(e.at, e.name)

(* The consts of the line are known, and those of them that have run are   *)
(* recorded as such.                                                       *)
LineKnown ==
  \A k \in DOMAIN line :
    line[k].kind = "const" =>
      /\ Con!Found(line[k].at, strings[line[k].at])
      /\ k <= ran => Con!Key(line[k].at) \in defined

(* As long as no line with a const has failed, every entry is where its    *)
(* name is, and is that of a const that has run or is in the line.         *)
EntriesJustified ==
  ~failed =>
    \A e \in constants :
      /\ strings[e.at] = e.name
      /\ \/ e \in defined
         \/ \E k \in DOMAIN line : line[k] = [kind |-> "const", at |-> e.at]

ConstantsInv == Con!TypeOK /\ DefinedStay /\ LineKnown /\ EntriesJustified
-----------------------------------------------------------------------------
LEMMA ConstantsInit == Con!Init => ConstantsInv
<1> SUFFICES ASSUME Con!Init PROVE ConstantsInv
  OBVIOUS
<1>1. Con!TypeOK
  <2>1. line = <<>> /\ line \in Seq(Con!Statement) /\ ran \in 0 .. Len(line) /\ DOMAIN line = {}
    BY DEF Con!Init
  <2> QED BY <2>1 DEF Con!Init, Con!TypeOK, Con!held
<1>2. DefinedStay /\ LineKnown /\ EntriesJustified
  <2>1. DOMAIN line = {}
    BY DEF Con!Init
  <2> QED BY <2>1 DEF Con!Init, DefinedStay, LineKnown, EntriesJustified
<1> QED BY <1>1, <1>2 DEF ConstantsInv

(* What the line refers to has an address, and a name is there.            *)
LEMMA LineTypes ==
  ASSUME Con!TypeOK
  PROVE  /\ Len(line) \in Nat /\ DOMAIN line = 1 .. Len(line) /\ ran \in Nat /\ ran <= Len(line)
         /\ \A k \in DOMAIN line :
              /\ line[k] \in Con!Statement /\ line[k].kind \in Con!Kind /\ line[k].at \in Address
              /\ strings[line[k].at] \in Global
<1>1. line \in Seq(Con!Statement) /\ Len(line) \in Nat /\ DOMAIN line = 1 .. Len(line)
  BY DEF Con!TypeOK
<1>2. ASSUME NEW k \in DOMAIN line
      PROVE  /\ line[k] \in Con!Statement /\ line[k].kind \in Con!Kind /\ line[k].at \in Address
             /\ strings[line[k].at] \in Global
  <2>1. line[k] \in Con!Statement
    BY <1>1, ElementOfSeq
  <2>2. line[k].at \in Con!held
    BY DEF Con!held
  <2> QED BY <2>1, <2>2 DEF Con!TypeOK, Con!Statement
<1> QED BY <1>1, <1>2 DEF Con!TypeOK

LEMMA StatementCompiled ==
  ASSUME ConstantsAssumption, ConstantsInv,
         NEW kind \in Con!Kind, NEW n \in Global, NEW a \in Address, Con!Compile(kind, n, a)
  PROVE  ConstantsInv'
<1> DEFINE statement == [kind |-> kind, at |-> a]
<1>1. /\ Len(line) \in Nat /\ DOMAIN line = 1 .. Len(line) /\ ran \in Nat /\ ran <= Len(line)
      /\ line \in Seq(Con!Statement) /\ statement \in Con!Statement
  BY LineTypes DEF ConstantsInv, Con!TypeOK, Con!Statement
<1>2. /\ line' = Append(line, statement)
      /\ line' \in Seq(Con!Statement) /\ Len(line') = Len(line) + 1
      /\ DOMAIN line' = 1 .. Len(line) + 1
      /\ \A k \in DOMAIN line : line'[k] = line[k]
      /\ line'[Len(line) + 1] = statement
  BY <1>1 DEF Con!Compile
<1>3. strings' = [strings EXCEPT ![a] = n] /\ strings[a] \in {n, Free} /\ strings'[a] = n
  BY DEF Con!Compile, Con!copy_string, ConstantsInv, Con!TypeOK
<1>4. \A b \in Address : strings[b] # Free => strings'[b] = strings[b]
  BY <1>3 DEF ConstantsInv, Con!TypeOK
<1>5. \A b, d \in Address : strings'[b] = strings'[d] /\ strings'[b] # Free => b = d
  <2> SUFFICES ASSUME NEW b \in Address, NEW d \in Address,
                      strings'[b] = strings'[d], strings'[b] # Free, b # d
               PROVE  FALSE
    OBVIOUS
  <2>1. strings[a] = n \/ \A x \in Address : strings[x] # n
    BY DEF Con!Compile, Con!copy_string
  <2> QED BY <2>1, <1>3 DEF ConstantsInv, Con!TypeOK
<1>6. constants \subseteq constants' /\ constants' \subseteq constants \cup {[at |-> a, name |-> n]}
  BY DEF Con!Compile
<1>7. /\ \A k \in DOMAIN line : line[k].at \in Address /\ strings[line[k].at] # Free
      /\ UNCHANGED <<globals, ran, state, defined, failed>>
  BY LineTypes, ConstantsAssumption
  DEF ConstantsAssumption, Con!FreeAssumption, ConstantsInv, Con!Compile
<1>8. Con!TypeOK'
  <2>1. strings' \in [Address -> Global \cup {Free}]
    BY <1>3 DEF ConstantsInv, Con!TypeOK
  <2>2. Con!held' \subseteq {x \in Address : strings'[x] # Free}
    <3> SUFFICES ASSUME NEW k \in DOMAIN line'
                 PROVE  line'[k].at \in Address /\ strings'[line'[k].at] # Free
      BY DEF Con!held
    <3>1. CASE k = Len(line) + 1
      BY <3>1, <1>2, <1>3, ConstantsAssumption DEF ConstantsAssumption, Con!FreeAssumption
    <3>2. CASE k \in DOMAIN line
      BY <3>2, <1>2, <1>4, <1>7
    <3> QED BY <3>1, <3>2, <1>1, <1>2
  <2>3. constants' \subseteq [at : Address, name : Global]
    BY <1>6 DEF ConstantsInv, Con!TypeOK
  <2>4. had_error' \in BOOLEAN
    BY DEF Con!Compile, ConstantsInv, Con!TypeOK
  <2>5. ran' \in 0 .. Len(line')
    BY <1>1, <1>2, <1>7
  <2> QED BY <2>1, <2>2, <2>3, <2>4, <2>5, <1>2, <1>5, <1>7 DEF ConstantsInv, Con!TypeOK
<1>9. DefinedStay'
  BY <1>4, <1>6, <1>7, ConstantsAssumption
  DEF ConstantsAssumption, Con!FreeAssumption, ConstantsInv, DefinedStay, Con!TypeOK, Con!Found
<1>10. LineKnown'
  <2> SUFFICES ASSUME NEW k \in DOMAIN line', line'[k].kind = "const"
               PROVE  /\ Con!Found(line[k].at, strings[line[k].at])'
                      /\ k <= ran => Con!Key(line[k].at)' \in defined
    BY <1>7 DEF LineKnown
  <2>1. CASE k = Len(line) + 1
    <3>1. Con!Constant(kind) /\ line'[k].at = a
      BY <2>1, <1>2 DEF Con!Constant
    <3>2. Con!Found(a, n)'
      <4>1. CASE Con!Found(a, n)
        BY <4>1, <1>6 DEF Con!Found
      <4>2. CASE ~Con!Found(a, n)
        <5> DEFINE entry == [at |-> a, name |-> n]
        <5>1. entry \in constants' /\ entry.at = a /\ entry.name = n
          BY <4>2, <3>1 DEF Con!Compile
        <5>2. Meets[<<n, entry.name>>]
          BY <5>1, ConstantsAssumption DEF ConstantsAssumption, Con!NamesAssumption
        <5> QED BY <5>1, <5>2 DEF Con!Found
      <4> QED BY <4>1, <4>2
    <3>3. line'[k].at = a /\ strings'[a] = n /\ ~(k <= ran)
      BY <2>1, <3>1, <1>1, <1>3
    <3> QED BY <3>2, <3>3 DEF Con!Found
  <2>2. CASE k \in DOMAIN line
    <3>1. strings'[line[k].at] = strings[line[k].at] /\ line'[k] = line[k]
      BY <2>2, <1>2, <1>4, <1>7
    <3> QED BY <2>2, <3>1, <1>6, <1>7 DEF ConstantsInv, LineKnown, Con!Found, Con!Key
  <2> QED BY <2>1, <2>2, <1>1, <1>2
<1>11. EntriesJustified'
  <2> SUFFICES ASSUME ~failed, NEW e \in constants'
               PROVE  /\ strings'[e.at] = e.name
                      /\ \/ e \in defined
                         \/ \E k \in DOMAIN line' : line'[k] = [kind |-> "const", at |-> e.at]
    BY <1>7 DEF EntriesJustified
  <2>1. CASE e \in constants
    <3>1. strings[e.at] = e.name /\ e.at \in Address /\ e.name \in Global
      BY <2>1 DEF ConstantsInv, EntriesJustified, Con!TypeOK
    <3>2. strings'[e.at] = e.name
      BY <3>1, <1>4, ConstantsAssumption DEF ConstantsAssumption, Con!FreeAssumption
    <3>3. CASE e \in defined
      BY <3>2, <3>3
    <3>4. CASE \E k \in DOMAIN line : line[k] = [kind |-> "const", at |-> e.at]
      BY <3>2, <3>4, <1>1, <1>2
    <3> QED BY <2>1, <3>3, <3>4 DEF ConstantsInv, EntriesJustified
  <2>2. CASE e \notin constants
    <3>1. e = [at |-> a, name |-> n] /\ kind = "const"
      BY <2>2, <1>6 DEF Con!Compile, Con!Constant
    <3>2. Len(line) + 1 \in DOMAIN line'
      BY <1>1, <1>2
    <3> QED BY <3>1, <3>2, <1>2, <1>3
  <2> QED BY <2>1, <2>2
<1> QED BY <1>8, <1>9, <1>10, <1>11 DEF ConstantsInv

(* However a line ends, its function goes and its names may be forgotten.  *)
LEMMA LineLeft ==
  ASSUME ConstantsInv, Con!Leave, UNCHANGED <<globals, defined>>
  PROVE  ConstantsInv'
<1>1. line' = <<>> /\ line' \in Seq(Con!Statement) /\ DOMAIN line' = {} /\ ran' \in 0 .. Len(line')
  BY DEF Con!Leave
<1>2. Con!TypeOK'
  BY <1>1 DEF Con!Leave, ConstantsInv, Con!TypeOK, Con!held
<1>3. DefinedStay' /\ LineKnown'
  BY <1>1 DEF Con!Leave, ConstantsInv, DefinedStay, LineKnown, Con!Found
<1>4. EntriesJustified'
  <2> SUFFICES ASSUME ~failed', NEW e \in constants
               PROVE  strings[e.at] = e.name /\ e \in defined
    BY DEF Con!Leave, EntriesJustified
  <2>1. ~failed /\ strings[e.at] = e.name /\ e.at \in Address /\ e.name \in Global
        /\ e = [at |-> e.at, name |-> e.name]
    BY DEF Con!Leave, ConstantsInv, EntriesJustified, Con!TypeOK
  <2>2. ASSUME NEW k \in DOMAIN line, line[k] = [kind |-> "const", at |-> e.at]
        PROVE  e \in defined
    <3>1. k <= ran
      <4>1. ~\E j \in ran + 1 .. Len(line) : line[j].kind = "const"
        BY Zenon DEF Con!Leave
      <4>2. line[k].kind = "const"
        BY <2>2
      <4> QED BY <4>1, <4>2, LineTypes DEF ConstantsInv
    <3> QED BY <3>1, <2>1, <2>2 DEF ConstantsInv, LineKnown, Con!Key
  <2> QED BY <2>1, <2>2 DEF ConstantsInv, EntriesJustified
<1> QED BY <1>2, <1>3, <1>4 DEF ConstantsInv

(* A declaration has run: its name is a global now.                        *)
LEMMA GlobalDefined ==
  ASSUME ConstantsInv, Con!Define
  PROVE  ConstantsInv'
<1> DEFINE at == Con!Statement_next.at
<1>1. /\ Len(line) \in Nat /\ DOMAIN line = 1 .. Len(line) /\ ran \in Nat
      /\ ran < Len(line) /\ ran' = ran + 1 /\ ran + 1 \in DOMAIN line
      /\ UNCHANGED <<strings, constants, line, state, had_error, failed>>
      /\ globals' = globals \cup {at}
  BY LineTypes DEF ConstantsInv, Con!Define, Con!Running, Con!Pass
<1>2. line[ran + 1] = Con!Statement_next /\ at \in Address /\ strings[at] \in Global
  BY <1>1, LineTypes DEF ConstantsInv, Con!Statement_next
<1>3. \/ Con!Statement_next.kind = "var" /\ defined' = defined
      \/ Con!Statement_next.kind = "const" /\ defined' = defined \cup {Con!Key(at)}
  BY DEF Con!Define, Con!Running
<1> HIDE DEF at
<1>4. Con!TypeOK'
  <2>1. Con!held' = Con!held /\ ran' \in 0 .. Len(line')
    BY <1>1 DEF Con!held
  <2>2. defined' \subseteq [at : Address, name : Global] /\ globals' \subseteq Address
    BY <1>1, <1>2, <1>3 DEF ConstantsInv, Con!TypeOK, Con!Key
  <2> QED BY <2>1, <2>2, <1>1 DEF ConstantsInv, Con!TypeOK
<1>5. DefinedStay'
  <2> SUFFICES ASSUME NEW e \in defined'
               PROVE  strings[e.at] = e.name /\ e.at \in globals' /\ Con!Found(e.at, e.name)
    BY <1>1 DEF DefinedStay, Con!Found
  <2>1. CASE e \in defined
    BY <2>1, <1>1 DEF ConstantsInv, DefinedStay
  <2>2. CASE e = Con!Key(at) /\ Con!Statement_next.kind = "const"
    <3>1. e.at = at /\ e.name = strings[at]
      BY <2>2 DEF Con!Key
    <3> QED BY <3>1, <2>2, <1>1, <1>2 DEF ConstantsInv, LineKnown, at
  <2> QED BY <2>1, <2>2, <1>3
<1>6. LineKnown'
  <2> SUFFICES ASSUME NEW k \in DOMAIN line, line[k].kind = "const"
               PROVE  /\ Con!Found(line[k].at, strings[line[k].at])
                      /\ k <= ran + 1 => Con!Key(line[k].at) \in defined'
    BY <1>1 DEF LineKnown, Con!Found, Con!Key
  <2>1. k <= ran => Con!Key(line[k].at) \in defined'
    BY <1>3 DEF ConstantsInv, LineKnown
  <2>2. k = ran + 1 => Con!Key(line[k].at) \in defined'
    BY <1>2, <1>3 DEF at
  <2> QED BY <2>1, <2>2, <1>1 DEF ConstantsInv, LineKnown
<1>7. EntriesJustified'
  BY <1>1, <1>3 DEF ConstantsInv, EntriesJustified
<1> QED BY <1>4, <1>5, <1>6, <1>7 DEF ConstantsInv

(* What the collector takes is neither a global nor in the line.           *)
LEMMA NamesCollected ==
  ASSUME ConstantsInv, Con!Collect
  PROVE  ConstantsInv'
<1>1. PICK gone \in SUBSET {a \in Address \ Con!Reachable : strings[a] # Free} :
        strings' = [a \in Address |-> IF a \in gone THEN Free ELSE strings[a]]
  BY DEF Con!Collect
<1>2. UNCHANGED <<globals, constants, line, ran, state, had_error, defined, failed>>
  BY DEF Con!Collect
<1>3. \A a \in Con!held \cup globals : a \in Address /\ strings'[a] = strings[a]
  BY <1>1 DEF Con!Reachable, ConstantsInv, Con!TypeOK
<1>4. Con!TypeOK'
  <2>1. strings' \in [Address -> Global \cup {Free}]
    BY <1>1 DEF ConstantsInv, Con!TypeOK
  <2>2. \A a, b \in Address : strings'[a] = strings'[b] /\ strings'[a] # Free => a = b
    BY <1>1 DEF ConstantsInv, Con!TypeOK
  <2>3. Con!held' = Con!held /\ Con!held \subseteq {a \in Address : strings'[a] # Free}
    BY <1>2, <1>3 DEF Con!held, ConstantsInv, Con!TypeOK
  <2> QED BY <2>1, <2>2, <2>3, <1>2 DEF ConstantsInv, Con!TypeOK
<1>5. DefinedStay'
  BY <1>2, <1>3 DEF ConstantsInv, DefinedStay, Con!Found
<1>6. \A k \in DOMAIN line : line[k].at \in Con!held
  BY DEF Con!held
<1>7. LineKnown'
  BY <1>2, <1>3, <1>6 DEF ConstantsInv, LineKnown, Con!Found, Con!Key
<1>8. EntriesJustified'
  <2> SUFFICES ASSUME ~failed, NEW e \in constants
               PROVE  e.at \in Con!held \cup globals
    BY <1>2, <1>3 DEF ConstantsInv, EntriesJustified
  <2>1. e \in defined => e.at \in globals
    BY DEF ConstantsInv, DefinedStay
  <2> QED BY <2>1, <1>6 DEF ConstantsInv, EntriesJustified
<1> QED BY <1>4, <1>5, <1>7, <1>8 DEF ConstantsInv

LEMMA ConstantsNext ==
  ASSUME ConstantsAssumption, ConstantsInv, [Con!Next]_(Con!vars)
  PROVE  ConstantsInv'
<1>1. ASSUME UNCHANGED <<strings, globals, constants, line, ran, defined, failed>>,
             state' \in {"compile", "run"}, had_error' \in BOOLEAN
      PROVE  ConstantsInv'
  <2>1. Con!TypeOK'
    BY <1>1 DEF ConstantsInv, Con!TypeOK, Con!held
  <2>2. DefinedStay' /\ LineKnown' /\ EntriesJustified'
    BY <1>1 DEF ConstantsInv, DefinedStay, LineKnown, EntriesJustified, Con!Found, Con!Key
  <2> QED BY <2>1, <2>2 DEF ConstantsInv
<1>2. CASE \E kind \in Con!Kind, n \in Global, a \in Address : Con!Compile(kind, n, a)
  BY <1>2, StatementCompiled
<1>3. CASE Con!SyntaxError
  BY <1>1, <1>3 DEF Con!SyntaxError, ConstantsInv, Con!TypeOK
<1>4. CASE Con!EndLine
  <2>1. CASE had_error
    BY <2>1, <1>4, LineLeft DEF Con!EndLine
  <2>2. CASE ~had_error
    BY <2>2, <1>1, <1>4 DEF Con!EndLine, ConstantsInv, Con!TypeOK
  <2> QED BY <2>1, <2>2
<1>5. CASE Con!Define
  BY <1>5, GlobalDefined
<1>6. CASE Con!Assign
  <2>1. UNCHANGED <<globals, defined>>
    BY <1>6 DEF Con!Assign
  <2>2. CASE Con!Leave
    BY <2>1, <2>2, LineLeft
  <2>3. CASE Con!Pass
    <3>1. /\ ran + 1 \in DOMAIN line /\ line[ran + 1].kind = "assign" /\ ran' = ran + 1
          /\ DOMAIN line = 1 .. Len(line) /\ Len(line) \in Nat /\ ran \in Nat
          /\ UNCHANGED <<strings, constants, line, state, had_error, failed>>
      BY <1>6, <2>3, LineTypes DEF Con!Assign, Con!Running, Con!Statement_next, Con!Pass, ConstantsInv
    <3>2. Con!TypeOK'
      BY <2>1, <3>1 DEF ConstantsInv, Con!TypeOK, Con!held
    <3>3. LineKnown'
      <4> SUFFICES ASSUME NEW k \in DOMAIN line, line[k].kind = "const", k <= ran + 1
                   PROVE  k <= ran
        BY <2>1, <3>1 DEF ConstantsInv, LineKnown, Con!Found, Con!Key
      <4> QED BY <3>1
    <3> QED BY <2>1, <3>1, <3>2, <3>3 DEF ConstantsInv, DefinedStay, EntriesJustified, Con!Found
  <2> QED BY <1>6, <2>2, <2>3 DEF Con!Assign
<1>7. CASE Con!EndRun
  BY <1>7, LineLeft DEF Con!EndRun
<1>8. CASE Con!Collect
  BY <1>8, NamesCollected
<1>9. CASE UNCHANGED Con!vars
  BY <1>1, <1>9 DEF Con!vars, ConstantsInv, Con!TypeOK
<1> QED BY <1>2, <1>3, <1>4, <1>5, <1>6, <1>7, <1>8, <1>9 DEF Con!Next

LEMMA ConstantsInvHolds ==
  ASSUME ConstantsAssumption
  PROVE  Con!Spec => []ConstantsInv
<1>1. ConstantsInv /\ [Con!Next]_(Con!vars) => ConstantsInv'
  BY ConstantsNext
<1> QED BY <1>1, ConstantsInit, PTL DEF Con!Spec

(* A const whose declaration has run keeps its place in memory and is      *)
(* refused by every line compiled from then on, although vm.constants is   *)
(* no root: being a key of the globals, its name is never collected.       *)
THEOREM ConstsAreRefusedHolds ==
  ASSUME ConstantsAssumption
  PROVE  GlobalsSpec => []ConstsAreRefused
<1>1. ConstantsInv => ConstsAreRefused
  BY DEF ConstantsInv, DefinedStay, ConstsAreRefused, Con!ConstsAreRefused
<1> QED BY <1>1, ConstantsInvHolds, PTL DEF GlobalsSpec

(* While no line with a const has failed, no entry of vm.constants outlives*)
(* its name: no other name is refused in its place, whatever is collected  *)
(* and wherever new names are put.                                         *)
THEOREM OnlyConstsAreRefusedHolds ==
  ASSUME ConstantsAssumption
  PROVE  GlobalsSpec => []OnlyConstsAreRefused
<1>1. ConstantsInv => OnlyConstsAreRefused
  <2> SUFFICES ASSUME ConstantsInv, ~failed, NEW a \in Address, Con!Found(a, strings[a])
               PROVE  \/ Con!Key(a) \in defined
                      \/ \E k \in DOMAIN line : line[k] = [kind |-> "const", at |-> a]
    BY DEF OnlyConstsAreRefused, Con!OnlyConstsAreRefused
  <2>1. PICK e \in constants : e.at = a
    BY DEF Con!Found
  <2>2. e = Con!Key(a)
    BY <2>1 DEF ConstantsInv, EntriesJustified, Con!TypeOK, Con!Key
  <2> QED BY <2>1, <2>2 DEF ConstantsInv, EntriesJustified
<1> QED BY <1>1, ConstantsInvHolds, PTL DEF GlobalsSpec
=============================================================================
