-------------------------- MODULE ValpDispatchProofs --------------------------
(***************************************************************************)
(* Proofs about ValpDispatch, for any classes, objects and calls: self is  *)
(* an object of a class below the one whose method runs, and method tables *)
(* and windows on the operand stack implement Objects.                     *)
(***************************************************************************)
EXTENDS ValpDispatch, SequenceTheorems, WellFoundedInduction, TLAPS

Code == {Function(h, n) : h \in Nat, n \in Name}
Val ==
  {Class(c) : c \in Nat} \cup {Instance(i) : i \in Nat}
    \cup {Function(0, n) : n \in Name \cup {"script"}}
    \cup {Bound(Instance(i), code) : i \in Nat, code \in Code}
ClassSet == [super : Nat, methods : UNION {[D -> Code] : D \in SUBSET Name}]
InstanceSet == [klass : Nat, fields : UNION {[D -> Val] : D \in SUBSET Name}]
FrameSet == [code : {Function(h, n) : h \in Nat, n \in Name \cup {"script"}}, slots : Nat]

(* Above, of the classes cs.                                               *)
AboveIn(cs, c) ==
  {h \in DOMAIN cs : \A S \in SUBSET DOMAIN cs :
     c \in S /\ (\A d \in S : cs[d].super \in S \cup {0}) => h \in S}

(* Each method of class c is declared there or the superclass's, all of    *)
(* which c has.                                                            *)
ClassOK(cs, c) ==
  /\ cs[c].super \in 0 .. c - 1
  /\ \A n \in DOMAIN cs[c].methods :
       LET code == cs[c].methods[n]
       IN  /\ code = Function(code.home, n) /\ code.home \in AboveIn(cs, c)
           /\ \/ code.home = c
              \/ /\ cs[c].super # 0 /\ n \in DOMAIN cs[cs[c].super].methods
                 /\ code = cs[cs[c].super].methods[n]
  /\ cs[c].super # 0 => DOMAIN cs[cs[c].super].methods \subseteq DOMAIN cs[c].methods

(* Code that may run with object i as its self.                            *)
MethodOf(cs, is, i, code) == code \in Code /\ code.home \in AboveIn(cs, is[i].klass)

ValueOK(cs, is, v) ==
  \/ \E c \in DOMAIN cs : v = Class(c)
  \/ \E i \in DOMAIN is : v = Instance(i)
  \/ \E n \in Functions : v = Function(0, n)
  \/ \E i \in DOMAIN is : \E code \in Code :
       v = Bound(Instance(i), code) /\ MethodOf(cs, is, i, code)

InstanceOK(cs, is, i) ==
  /\ is[i].klass \in DOMAIN cs
  /\ \A n \in DOMAIN is[i].fields : ValueOK(cs, is, is[i].fields[n])

HeapOK(cs, is) ==
  /\ cs \in Seq(ClassSet) /\ \A c \in DOMAIN cs : ClassOK(cs, c)
  /\ is \in Seq(InstanceSet) /\ \A i \in DOMAIN is : InstanceOK(cs, is, i)

StackOK(cs, is, st) ==
  /\ st \in Seq(Val) /\ st # <<>> /\ st[1] = Function(0, "script")
  /\ \A i \in 2 .. Len(st) : ValueOK(cs, is, st[i])

(* The last slot of the function of frame k.                               *)
Base(fs, k) == fs[k].slots + IF k = 1 THEN 0 ELSE Arity[fs[k].code.name]

(* A function that is running finds its self in slot 0.                    *)
FrameOK(cs, is, st, f) ==
  \/ f.code.home = 0 /\ f.code.name \in Functions
  \/ f.code.home # 0 /\ \E i \in DOMAIN is :
       st[f.slots] = Instance(i) /\ MethodOf(cs, is, i, f.code)

FramesOK(cs, is, st, fs) ==
  /\ fs \in Seq(FrameSet) /\ Len(fs) \in 1 .. FRAMES_MAX
  /\ fs[1] = [code |-> Function(0, "script"), slots |-> 1]
  /\ \A k \in 2 .. Len(fs) : FrameOK(cs, is, st, fs[k])
  /\ \A j, k \in DOMAIN fs : j < k => Base(fs, j) < fs[k].slots
  /\ Base(fs, Len(fs)) <= Len(st)

DeclaringOK(cs, st, fs, decl) ==
  decl # 0 => /\ decl = Len(cs) /\ decl \in DOMAIN cs
              /\ Len(fs) = 1 /\ Len(st) > 1 /\ st[Len(st)] = Class(decl)

State(cs, is, st, fs, decl) ==
  /\ HeapOK(cs, is) /\ StackOK(cs, is, st) /\ FramesOK(cs, is, st, fs)
  /\ DeclaringOK(cs, st, fs, decl)

IInv == State(classes, instances, stack, frames, declaring) /\ failed \in BOOLEAN
-----------------------------------------------------------------------------
(* Sequences.                                                              *)

LEMMA SeqIs ==
  ASSUME NEW S, NEW s \in Seq(S)
  PROVE  /\ Len(s) \in Nat /\ DOMAIN s = 1 .. Len(s) /\ \A i \in 1 .. Len(s) : s[i] \in S
         /\ s # <<>> => Len(s) > 0
<1>1. Len(s) \in Nat /\ DOMAIN s = 1 .. Len(s) /\ \A i \in 1 .. Len(s) : s[i] \in S
  BY LenProperties, ElementOfSeq
<1>2. s # <<>> => Len(s) > 0
  BY EmptySeq
<1> QED BY <1>1, <1>2

LEMMA Appended ==
  ASSUME NEW S, NEW s \in Seq(S), NEW v \in S
  PROVE  /\ Append(s, v) \in Seq(S) /\ Len(Append(s, v)) = Len(s) + 1
         /\ DOMAIN Append(s, v) = 1 .. Len(s) + 1 /\ Append(s, v) # <<>>
         /\ Append(s, v)[Len(s) + 1] = v
         /\ \A i \in 1 .. Len(s) : Append(s, v)[i] = s[i]
<1>1. /\ Append(s, v) \in Seq(S) /\ Len(Append(s, v)) = Len(s) + 1
      /\ \A i \in 1 .. Len(s) : Append(s, v)[i] = s[i]
      /\ Append(s, v)[Len(s) + 1] = v
  BY AppendProperties
<1>2. DOMAIN Append(s, v) = 1 .. Len(s) + 1
  BY <1>1, LenProperties
<1>3. Append(s, v) # <<>>
  BY AppendProperties
<1> QED BY <1>1, <1>2, <1>3

LEMMA CutTo ==
  ASSUME NEW S, NEW s \in Seq(S), NEW n \in Nat, n <= Len(s)
  PROVE  /\ SubSeq(s, 1, n) \in Seq(S) /\ Len(SubSeq(s, 1, n)) = n
         /\ DOMAIN SubSeq(s, 1, n) = 1 .. n
         /\ \A i \in 1 .. n : SubSeq(s, 1, n)[i] = s[i]
<1>1. \A i \in 1 .. n : s[i] \in S
  BY SeqIs
<1>2. /\ SubSeq(s, 1, n) \in Seq(S)
      /\ Len(SubSeq(s, 1, n)) = IF 1 <= n THEN n - 1 + 1 ELSE 0
      /\ \A i \in 1 .. n - 1 + 1 : SubSeq(s, 1, n)[i] = s[1 + i - 1]
  BY <1>1, SubSeqProperties
<1>3. \A i \in 1 .. n : i \in 1 .. n - 1 + 1 /\ 1 + i - 1 = i
  OBVIOUS
<1>4. Len(SubSeq(s, 1, n)) = n
  BY <1>2
<1>5. DOMAIN SubSeq(s, 1, n) = 1 .. n
  BY <1>2, <1>4, LenProperties
<1> QED BY <1>2, <1>3, <1>4, <1>5

Sub(s, i, v) == [s EXCEPT ![i] = v]

LEMMA Replaced ==
  ASSUME NEW S, NEW s \in Seq(S), NEW v \in S, NEW i \in 1 .. Len(s)
  PROVE  /\ Sub(s, i, v) \in Seq(S) /\ Len(Sub(s, i, v)) = Len(s)
         /\ DOMAIN Sub(s, i, v) = 1 .. Len(s) /\ Sub(s, i, v)[i] = v
         /\ \A j \in 1 .. Len(s) : j # i => Sub(s, i, v)[j] = s[j]
<1>1. /\ Sub(s, i, v) \in Seq(S) /\ Len(Sub(s, i, v)) = Len(s)
      /\ \A j \in 1 .. Len(s) : Sub(s, i, v)[j] = IF j = i THEN v ELSE s[j]
  BY ExceptSeq DEF Sub
<1>2. DOMAIN Sub(s, i, v) = 1 .. Len(s)
  BY <1>1, LenProperties
<1> QED BY <1>1, <1>2
-----------------------------------------------------------------------------
(* What a class inherits from.                                             *)

LEMMA AboveSelf ==
  ASSUME NEW cs, NEW c \in DOMAIN cs
  PROVE  c \in AboveIn(cs, c)
BY DEF AboveIn

LEMMA AboveTrans ==
  ASSUME NEW cs, NEW c, NEW d \in AboveIn(cs, c), NEW h \in AboveIn(cs, d)
  PROVE  h \in AboveIn(cs, c)
<1>1. h \in DOMAIN cs
  BY DEF AboveIn
<1>2. ASSUME NEW S \in SUBSET DOMAIN cs, c \in S, \A e \in S : cs[e].super \in S \cup {0}
      PROVE  h \in S
  <2>1. d \in S
    BY <1>2 DEF AboveIn
  <2> QED BY <2>1, <1>2 DEF AboveIn
<1> QED BY <1>1, <1>2 DEF AboveIn

LEMMA SuperAbove ==
  ASSUME NEW cs, NEW c, cs[c].super # 0, cs[c].super \in DOMAIN cs
  PROVE  cs[c].super \in AboveIn(cs, c)
BY DEF AboveIn

Ordered(cs) == \A c \in DOMAIN cs : cs[c].super \in 0 .. c - 1

LEMMA AboveBelow ==
  ASSUME NEW cs, NEW n \in Nat, DOMAIN cs = 1 .. n, Ordered(cs), NEW c \in DOMAIN cs,
         NEW h \in AboveIn(cs, c)
  PROVE  h \in 1 .. c
<1> DEFINE S == 1 .. c
<1>1. S \in SUBSET DOMAIN cs /\ c \in S
  OBVIOUS
<1>2. ASSUME NEW e \in S PROVE cs[e].super \in S \cup {0}
  BY DEF Ordered
<1> QED BY <1>1, <1>2 DEF AboveIn

(* A superclass once given stays.                                          *)
Supers(cs, ds) ==
  /\ DOMAIN cs \subseteq DOMAIN ds
  /\ \A c \in DOMAIN cs : cs[c].super # 0 => ds[c].super = cs[c].super

LEMMA AboveStays ==
  ASSUME NEW cs, NEW ds, NEW n \in Nat, DOMAIN cs = 1 .. n, Ordered(cs), Supers(cs, ds),
         NEW c \in DOMAIN cs, NEW h \in AboveIn(cs, c)
  PROVE  h \in AboveIn(ds, c)
<1>1. h \in DOMAIN ds
  BY DEF AboveIn, Supers
<1>2. ASSUME NEW S \in SUBSET DOMAIN ds, c \in S, \A e \in S : ds[e].super \in S \cup {0}
      PROVE  h \in S
  <2> DEFINE T == S \cap DOMAIN cs
  <2>1. T \in SUBSET DOMAIN cs /\ c \in T
    BY <1>2
  <2>2. ASSUME NEW e \in T PROVE cs[e].super \in T \cup {0}
    <3>1. cs[e].super \in 0 .. e - 1 /\ e \in 1 .. n
      BY DEF Ordered
    <3>2. cs[e].super # 0 => cs[e].super \in DOMAIN cs /\ cs[e].super \in S
      BY <3>1, <1>2 DEF Supers
    <3> QED BY <3>2
  <2>3. h \in T
    BY <2>1, <2>2 DEF AboveIn
  <2> QED BY <2>3
<1> QED BY <1>1, <1>2 DEF AboveIn
-----------------------------------------------------------------------------
(* Values stay what they are when classes and objects are made.            *)

Kept(cs, is, ds, js) ==
  /\ Supers(cs, ds) /\ DOMAIN is \subseteq DOMAIN js
  /\ \A i \in DOMAIN is : js[i].klass = is[i].klass

LEMMA HeapIs ==
  ASSUME NEW cs, NEW is, HeapOK(cs, is)
  PROVE  /\ Len(cs) \in Nat /\ DOMAIN cs = 1 .. Len(cs) /\ Ordered(cs)
         /\ Len(is) \in Nat /\ DOMAIN is = 1 .. Len(is)
         /\ \A i \in DOMAIN is : is[i].klass \in DOMAIN cs
<1>1. cs \in Seq(ClassSet) /\ is \in Seq(InstanceSet)
  BY DEF HeapOK
<1>2. Ordered(cs) /\ \A i \in DOMAIN is : is[i].klass \in DOMAIN cs
  BY DEF HeapOK, ClassOK, InstanceOK, Ordered
<1> QED BY <1>1, <1>2, SeqIs

LEMMA MethodStays ==
  ASSUME NEW cs, NEW is, HeapOK(cs, is), NEW ds, NEW js, Kept(cs, is, ds, js),
         NEW i \in DOMAIN is, NEW code, MethodOf(cs, is, i, code)
  PROVE  MethodOf(ds, js, i, code)
<1>1. code.home \in AboveIn(cs, is[i].klass) /\ code \in Code
  BY DEF MethodOf
<1>2. is[i].klass \in DOMAIN cs /\ js[i].klass = is[i].klass /\ Supers(cs, ds)
  BY HeapIs DEF Kept
<1>3. code.home \in AboveIn(ds, is[i].klass)
  BY <1>1, <1>2, HeapIs, AboveStays
<1> QED BY <1>1, <1>2, <1>3 DEF MethodOf

LEMMA ValueStays ==
  ASSUME NEW cs, NEW is, HeapOK(cs, is), NEW ds, NEW js, Kept(cs, is, ds, js),
         NEW v, ValueOK(cs, is, v)
  PROVE  ValueOK(ds, js, v)
<1>1. DOMAIN cs \subseteq DOMAIN ds /\ DOMAIN is \subseteq DOMAIN js
  BY DEF Kept, Supers
<1>2. CASE \E c \in DOMAIN cs : v = Class(c)
  BY <1>1, <1>2 DEF ValueOK
<1>3. CASE \E i \in DOMAIN is : v = Instance(i)
  BY <1>1, <1>3 DEF ValueOK
<1>4. CASE \E n \in Functions : v = Function(0, n)
  BY <1>4 DEF ValueOK
<1>5. CASE \E i \in DOMAIN is : \E code \in Code :
             v = Bound(Instance(i), code) /\ MethodOf(cs, is, i, code)
  <2>1. PICK i \in DOMAIN is, code \in Code : v = Bound(Instance(i), code) /\ MethodOf(cs, is, i, code)
    BY <1>5
  <2>2. MethodOf(ds, js, i, code)
    BY <2>1, MethodStays
  <2> QED BY <1>1, <2>1, <2>2 DEF ValueOK
<1> QED BY <1>2, <1>3, <1>4, <1>5 DEF ValueOK
-----------------------------------------------------------------------------
(* Only the last class changes.                                            *)
LEMMA ClassStays ==
  ASSUME NEW cs, NEW is, HeapOK(cs, is), NEW ds, Supers(cs, ds), NEW c \in DOMAIN cs,
         \A d \in 1 .. c : ds[d] = cs[d]
  PROVE  ClassOK(ds, c)
<1>1. /\ Len(cs) \in Nat /\ DOMAIN cs = 1 .. Len(cs) /\ Ordered(cs) /\ ClassOK(cs, c)
      /\ c \in 1 .. c
  BY HeapIs DEF HeapOK
<1>2. ds[c] = cs[c] /\ cs[c].super \in 0 .. c - 1
  BY <1>1 DEF Ordered
<1>3. cs[c].super # 0 => ds[cs[c].super] = cs[cs[c].super]
  BY <1>1, <1>2
<1>4. \A h \in AboveIn(cs, c) : h \in AboveIn(ds, c)
  BY <1>1, AboveStays
<1> QED BY <1>1, <1>2, <1>3, <1>4 DEF ClassOK

LEMMA ClassesStep ==
  ASSUME NEW cs, NEW is, HeapOK(cs, is), NEW ds \in Seq(ClassSet), ds # <<>>, Supers(cs, ds),
         \A c \in 1 .. Len(ds) - 1 : c \in DOMAIN cs /\ ds[c] = cs[c], ClassOK(ds, Len(ds))
  PROVE  HeapOK(ds, is) /\ Kept(cs, is, ds, is)
<1>1. Len(ds) \in Nat /\ DOMAIN ds = 1 .. Len(ds)
  BY SeqIs
<1>2. ASSUME NEW c \in DOMAIN ds PROVE ClassOK(ds, c)
  <2>1. CASE c = Len(ds)
    BY <2>1
  <2>2. CASE c # Len(ds)
    <3>1. c \in DOMAIN cs /\ \A d \in 1 .. c : ds[d] = cs[d]
      BY <2>2, <1>1
    <3> QED BY <3>1, ClassStays
  <2> QED BY <2>1, <2>2
<1>3. Kept(cs, is, ds, is)
  BY DEF Kept
<1>4. ASSUME NEW i \in DOMAIN is PROVE InstanceOK(ds, is, i)
  <2>1. InstanceOK(cs, is, i) /\ DOMAIN cs \subseteq DOMAIN ds
    BY DEF HeapOK, Supers
  <2>2. \A n \in DOMAIN is[i].fields : ValueOK(ds, is, is[i].fields[n])
    BY <2>1, <1>3, ValueStays DEF InstanceOK
  <2> QED BY <2>1, <2>2 DEF InstanceOK
<1> QED BY <1>2, <1>3, <1>4 DEF HeapOK

Blank == [super |-> 0, methods |-> <<>>]

LEMMA EmptyTable ==
  /\ <<>> \in UNION {[D -> Code] : D \in SUBSET Name} /\ <<>> \in UNION {[D -> Val] : D \in SUBSET Name}
  /\ DOMAIN <<>> = {}
<1>1. DOMAIN <<>> = {} /\ <<>> = [n \in {} |-> 0]
  OBVIOUS
<1>2. <<>> \in [{} -> Code] /\ <<>> \in [{} -> Val]
  BY <1>1
<1>3. {} \in SUBSET Name
  OBVIOUS
<1> QED BY <1>1, <1>2, <1>3

LEMMA ClassMade ==
  ASSUME NEW cs, NEW is, HeapOK(cs, is), NEW ds, ds = Append(cs, Blank)
  PROVE  HeapOK(ds, is) /\ Kept(cs, is, ds, is) /\ Len(ds) = Len(cs) + 1 /\ Len(ds) \in DOMAIN ds
<1>1. Blank \in ClassSet /\ cs \in Seq(ClassSet)
  BY EmptyTable DEF Blank, ClassSet, HeapOK
<1>2. /\ ds \in Seq(ClassSet) /\ Len(ds) = Len(cs) + 1 /\ DOMAIN ds = 1 .. Len(cs) + 1
      /\ ds # <<>> /\ ds[Len(cs) + 1] = Blank /\ \A i \in 1 .. Len(cs) : ds[i] = cs[i]
  BY <1>1, Appended
<1>3. Len(cs) \in Nat /\ DOMAIN cs = 1 .. Len(cs)
  BY HeapIs
<1>4. Supers(cs, ds)
  BY <1>2, <1>3 DEF Supers
<1>5. ClassOK(ds, Len(ds))
  BY <1>2, <1>3, EmptyTable DEF ClassOK, Blank
<1>6. \A c \in 1 .. Len(ds) - 1 : c \in DOMAIN cs /\ ds[c] = cs[c]
  BY <1>2, <1>3
<1>7. HeapOK(ds, is) /\ Kept(cs, is, ds, is)
  BY <1>2, <1>4, <1>5, <1>6, ClassesStep
<1> QED BY <1>2, <1>3, <1>7

LEMMA Inherited ==
  ASSUME NEW cs, NEW is, HeapOK(cs, is), NEW L, L = Len(cs), L \in DOMAIN cs, cs[L] = Blank,
         NEW s \in DOMAIN cs, s # L, NEW ds,
         ds = Sub(cs, L, [super |-> s, methods |-> hash_add_all(cs[s].methods, cs[L].methods)])
  PROVE  HeapOK(ds, is) /\ Kept(cs, is, ds, is) /\ Len(ds) = L
<1> DEFINE r == [super |-> s, methods |-> hash_add_all(cs[s].methods, cs[L].methods)]
<1>1. cs \in Seq(ClassSet) /\ Len(cs) \in Nat /\ DOMAIN cs = 1 .. Len(cs) /\ ClassOK(cs, s)
  BY HeapIs DEF HeapOK
<1>2. cs[s] \in ClassSet
  BY <1>1, SeqIs
<1>3. cs[s].methods \in UNION {[D -> Code] : D \in SUBSET Name}
  BY <1>2 DEF ClassSet
<1>4. cs[L].methods = <<>>
  BY DEF Blank
<1>5. hash_add_all(cs[s].methods, cs[L].methods) = cs[s].methods
  <2>1. \A D : cs[s].methods \in [D -> Code] => cs[s].methods = [n \in DOMAIN cs[s].methods |-> cs[s].methods[n]]
    OBVIOUS
  <2> QED BY <1>3, <1>4, <2>1, EmptyTable DEF hash_add_all
<1>6. r = [super |-> s, methods |-> cs[s].methods] /\ s \in Nat
  BY <1>1, <1>5
<1>7. r \in ClassSet
  BY <1>3, <1>6 DEF ClassSet
<1>8. r.super = s /\ r.methods = cs[s].methods
  BY <1>6
<1> HIDE DEF r
<1>9. /\ ds \in Seq(ClassSet) /\ Len(ds) = L /\ DOMAIN ds = 1 .. L /\ ds[L] = r
      /\ \A j \in 1 .. L : j # L => ds[j] = cs[j]
  BY <1>1, <1>7, Replaced DEF r
<1>10. Supers(cs, ds)
  BY <1>1, <1>9 DEF Supers, Blank
<1>11. s \in AboveIn(ds, L)
  BY <1>1, <1>8, <1>9, SuperAbove
<1>12. ASSUME NEW n \in DOMAIN cs[s].methods
       PROVE  /\ cs[s].methods[n] = Function(cs[s].methods[n].home, n)
              /\ cs[s].methods[n].home \in AboveIn(ds, L)
  <2>1. cs[s].methods[n] = Function(cs[s].methods[n].home, n) /\ cs[s].methods[n].home \in AboveIn(cs, s)
    BY <1>1 DEF ClassOK
  <2>2. cs[s].methods[n].home \in AboveIn(ds, s)
    BY <2>1, <1>1, <1>10, HeapIs, AboveStays
  <2> QED BY <2>1, <2>2, <1>11, AboveTrans
<1>13. ds[s] = cs[s] /\ s \in 0 .. L - 1 /\ s # 0 /\ ds # <<>>
  <2>1. ds[s] = cs[s] /\ s \in 0 .. L - 1 /\ s # 0
    BY <1>1, <1>9
  <2> QED BY <2>1, <1>9, <1>1, EmptySeq
<1>14. ClassOK(ds, L)
  BY <1>8, <1>9, <1>12, <1>13 DEF ClassOK
<1>15. \A c \in 1 .. Len(ds) - 1 : c \in DOMAIN cs /\ ds[c] = cs[c]
  BY <1>1, <1>9
<1> QED BY <1>9, <1>10, <1>13, <1>14, <1>15, ClassesStep

Defined(cs, L, name) ==
  [cs EXCEPT ![L].methods = hash_add_all([n \in {name} |-> Function(L, name)], @)]

LEMMA MethodDefined ==
  ASSUME NEW cs, NEW is, HeapOK(cs, is), NEW L, L = Len(cs), L \in DOMAIN cs, NEW name \in Name, NEW ds,
         ds = Defined(cs, L, name)
  PROVE  HeapOK(ds, is) /\ Kept(cs, is, ds, is) /\ Len(ds) = L
<1> DEFINE m == hash_add_all([n \in {name} |-> Function(L, name)], cs[L].methods)
           r == [super |-> cs[L].super, methods |-> m]
<1>1. cs \in Seq(ClassSet) /\ Len(cs) \in Nat /\ DOMAIN cs = 1 .. Len(cs) /\ ClassOK(cs, L)
  BY HeapIs DEF HeapOK
<1>2. cs[L] \in ClassSet
  BY <1>1, SeqIs
<1>3. ds = Sub(cs, L, r)
  <2> HIDE DEF m
  <2>1. [cs[L] EXCEPT !.methods = m] = r
    BY <1>2 DEF ClassSet
  <2>2. ds = [cs EXCEPT ![L] = [cs[L] EXCEPT !.methods = m]]
    BY DEF m, Defined
  <2> QED BY <2>1, <2>2 DEF Sub
<1>4. PICK D \in SUBSET Name : cs[L].methods \in [D -> Code]
  BY <1>2 DEF ClassSet
<1>5. Function(L, name) \in Code
  BY <1>1 DEF Code
<1>6. /\ DOMAIN m = D \cup {name} /\ m[name] = Function(L, name)
      /\ \A n \in D : n # name => m[n] = cs[L].methods[n]
  BY <1>4 DEF hash_add_all
<1>7. m \in [D \cup {name} -> Code]
  <2>1. \A n \in D \cup {name} : m[n] \in Code
    BY <1>4, <1>5, <1>6
  <2>2. m = [n \in D \cup {name} |-> m[n]]
    BY <1>4 DEF hash_add_all
  <2> HIDE DEF m
  <2> QED BY <2>1, <2>2
<1>8. r.super = cs[L].super /\ r.methods = m
  OBVIOUS
<1>9. r \in ClassSet
  <2>1. D \cup {name} \in SUBSET Name /\ cs[L].super \in Nat
    BY <1>2 DEF ClassSet
  <2> HIDE DEF m
  <2> QED BY <2>1, <1>7 DEF ClassSet
<1> HIDE DEF m, r
<1>10. /\ ds \in Seq(ClassSet) /\ Len(ds) = L /\ DOMAIN ds = 1 .. L /\ ds[L] = r
       /\ \A j \in 1 .. L : j # L => ds[j] = cs[j]
  <2>1. L \in 1 .. Len(cs)
    BY <1>1
  <2>2. /\ Sub(cs, L, r) \in Seq(ClassSet) /\ Len(Sub(cs, L, r)) = Len(cs)
        /\ DOMAIN Sub(cs, L, r) = 1 .. Len(cs) /\ Sub(cs, L, r)[L] = r
        /\ \A j \in 1 .. Len(cs) : j # L => Sub(cs, L, r)[j] = cs[j]
    BY <1>1, <1>9, <2>1, Replaced
  <2> QED BY <2>2, <1>3
<1>11. Supers(cs, ds)
  BY <1>1, <1>8, <1>10 DEF Supers
<1>12. ds # <<>> /\ L \in AboveIn(ds, L)
  <2>1. L \in DOMAIN ds /\ L # 0
    BY <1>1, <1>10
  <2> QED BY <2>1, <1>10, EmptySeq, AboveSelf
<1>13. ASSUME NEW n \in DOMAIN m
       PROVE  /\ m[n] = Function(m[n].home, n) /\ m[n].home \in AboveIn(ds, L)
              /\ \/ m[n].home = L
                 \/ /\ cs[L].super # 0 /\ n \in DOMAIN ds[cs[L].super].methods
                    /\ m[n] = ds[cs[L].super].methods[n]
  <2>1. CASE n = name
    <3>1. m[n].home = L
      BY <2>1, <1>6 DEF Function
    <3> QED BY <2>1, <3>1, <1>6, <1>12
  <2>2. CASE n # name
    <3>1. n \in DOMAIN cs[L].methods /\ m[n] = cs[L].methods[n]
      BY <2>2, <1>4, <1>6
    <3>2. m[n] = Function(m[n].home, n) /\ m[n].home \in AboveIn(cs, L)
      BY <3>1, <1>1 DEF ClassOK
    <3>3. m[n].home \in AboveIn(ds, L)
      BY <3>2, <1>1, <1>11, HeapIs, AboveStays
    <3>4. cs[L].super \in 0 .. L - 1
      BY <1>1 DEF ClassOK
    <3>5. cs[L].super # 0 => ds[cs[L].super] = cs[cs[L].super]
      BY <3>4, <1>1, <1>10
    <3>6. \/ m[n].home = L
          \/ /\ cs[L].super # 0 /\ n \in DOMAIN cs[cs[L].super].methods
             /\ m[n] = cs[cs[L].super].methods[n]
      BY <3>1, <1>1 DEF ClassOK
    <3> QED BY <3>2, <3>3, <3>5, <3>6
  <2> QED BY <2>1, <2>2
<1>14. cs[L].super # 0 => DOMAIN ds[cs[L].super].methods \subseteq DOMAIN m
  <2>1. cs[L].super \in 0 .. L - 1 /\ DOMAIN cs[L].methods = D
    BY <1>1, <1>4 DEF ClassOK
  <2>2. cs[L].super # 0 => ds[cs[L].super] = cs[cs[L].super]
    BY <2>1, <1>1, <1>10
  <2>3. cs[L].super # 0 => DOMAIN cs[cs[L].super].methods \subseteq D
    BY <2>1, <1>1 DEF ClassOK
  <2> QED BY <2>2, <2>3, <1>6
<1>15. ClassOK(ds, L)
  <2>1. cs[L].super \in 0 .. L - 1
    BY <1>1 DEF ClassOK
  <2>2. ds[L].super = cs[L].super /\ ds[L].methods = m
    BY <1>8, <1>10
  <2> QED BY <2>1, <2>2, <1>13, <1>14 DEF ClassOK
<1>16. \A c \in 1 .. Len(ds) - 1 : c \in DOMAIN cs /\ ds[c] = cs[c]
  BY <1>1, <1>10
<1> QED BY <1>10, <1>11, <1>12, <1>15, <1>16, ClassesStep
-----------------------------------------------------------------------------
(* Objects.                                                                *)
LEMMA ValueIs ==
  ASSUME NEW cs, NEW is, HeapOK(cs, is), NEW v, ValueOK(cs, is, v)
  PROVE  v \in Val
<1>1. DOMAIN cs \subseteq Nat /\ DOMAIN is \subseteq Nat
  BY HeapIs
<1>2. CASE \E c \in DOMAIN cs : v = Class(c)
  BY <1>1, <1>2 DEF Val
<1>3. CASE \E i \in DOMAIN is : v = Instance(i)
  BY <1>1, <1>3 DEF Val
<1>4. CASE \E n \in Functions : v = Function(0, n)
  BY <1>4, DispatchAssumption DEF Val, Name
<1>5. CASE \E i \in DOMAIN is : \E code \in Code :
             v = Bound(Instance(i), code) /\ MethodOf(cs, is, i, code)
  BY <1>1, <1>5 DEF Val
<1> QED BY <1>2, <1>3, <1>4, <1>5 DEF ValueOK

(* What object i holds, others do not change.                              *)
LEMMA ObjectsStep ==
  ASSUME NEW cs, NEW is, HeapOK(cs, is), NEW js \in Seq(InstanceSet), NEW i,
         DOMAIN is \subseteq DOMAIN js, DOMAIN js \subseteq DOMAIN is \cup {i},
         \A j \in DOMAIN is : js[j].klass = is[j].klass /\ (j # i => js[j] = is[j]),
         js[i].klass \in DOMAIN cs,
         \A n \in DOMAIN js[i].fields :
           \/ ValueOK(cs, is, js[i].fields[n])
           \/ i \in DOMAIN is /\ n \in DOMAIN is[i].fields /\ js[i].fields[n] = is[i].fields[n]
  PROVE  HeapOK(cs, js) /\ Kept(cs, is, cs, js)
<1>1. Kept(cs, is, cs, js)
  BY DEF Kept, Supers
<1>2. cs \in Seq(ClassSet) /\ \A c \in DOMAIN cs : ClassOK(cs, c)
  BY DEF HeapOK
<1>3. \A j \in DOMAIN is : InstanceOK(cs, is, j)
  BY DEF HeapOK
<1>4. ASSUME NEW j \in DOMAIN js PROVE InstanceOK(cs, js, j)
  <2>1. ASSUME NEW n \in DOMAIN js[j].fields PROVE ValueOK(cs, is, js[j].fields[n])
    <3>1. CASE j = i
      BY <3>1, <1>3 DEF InstanceOK
    <3>2. CASE j # i
      <4>1. j \in DOMAIN is /\ js[j] = is[j]
        BY <3>2
      <4> QED BY <4>1, <1>3 DEF InstanceOK
    <3> QED BY <3>1, <3>2
  <2>2. \A n \in DOMAIN js[j].fields : ValueOK(cs, js, js[j].fields[n])
    BY <2>1, <1>1, ValueStays
  <2>3. js[j].klass \in DOMAIN cs
    BY <1>3 DEF InstanceOK
  <2> QED BY <2>2, <2>3 DEF InstanceOK
<1> QED BY <1>1, <1>2, <1>4 DEF HeapOK

NewObject(c) == [klass |-> c, fields |-> <<>>]

Made(cs, is, c, js) ==
  /\ HeapOK(cs, js) /\ Kept(cs, is, cs, js) /\ Len(is) + 1 \in DOMAIN js
  /\ js[Len(is) + 1].klass = c

LEMMA ObjectMade ==
  ASSUME NEW cs, NEW is, HeapOK(cs, is), NEW c \in DOMAIN cs, NEW js,
         js = Append(is, NewObject(c))
  PROVE  Made(cs, is, c, js)
<1> DEFINE r == NewObject(c)
<1>1. is \in Seq(InstanceSet) /\ Len(is) \in Nat /\ DOMAIN is = 1 .. Len(is) /\ c \in Nat
  BY HeapIs DEF HeapOK
<1>2. r \in InstanceSet
  BY <1>1, EmptyTable DEF InstanceSet, NewObject
<1>3. r.klass = c /\ r.fields = <<>>
  BY DEF NewObject
<1> HIDE DEF r
<1>4. /\ js \in Seq(InstanceSet) /\ DOMAIN js = 1 .. Len(is) + 1 /\ js[Len(is) + 1] = r
      /\ \A j \in 1 .. Len(is) : js[j] = is[j]
  BY <1>1, <1>2, Appended DEF r
<1>5. js[Len(is) + 1].klass = c /\ DOMAIN js[Len(is) + 1].fields = {}
  BY <1>3, <1>4, EmptyTable
<1>6. DOMAIN is \subseteq DOMAIN js /\ DOMAIN js \subseteq DOMAIN is \cup {Len(is) + 1}
  BY <1>1, <1>4
<1>7. HeapOK(cs, js) /\ Kept(cs, is, cs, js)
  BY <1>1, <1>4, <1>5, <1>6, ObjectsStep
<1> QED BY <1>1, <1>4, <1>5, <1>7 DEF Made

Assigned(is, i, name, value) ==
  [is EXCEPT ![i].fields = [n \in DOMAIN @ \cup {name} |-> IF n = name THEN value ELSE @[n]]]

LEMMA FieldSet ==
  ASSUME NEW cs, NEW is, HeapOK(cs, is), NEW i \in DOMAIN is, NEW name \in Name,
         NEW value, ValueOK(cs, is, value), NEW js, js = Assigned(is, i, name, value)
  PROVE  HeapOK(cs, js) /\ Kept(cs, is, cs, js)
<1> DEFINE m == [n \in DOMAIN is[i].fields \cup {name} |-> IF n = name THEN value ELSE is[i].fields[n]]
           r == [klass |-> is[i].klass, fields |-> m]
<1>1. /\ is \in Seq(InstanceSet) /\ Len(is) \in Nat /\ DOMAIN is = 1 .. Len(is) /\ i \in 1 .. Len(is)
      /\ is[i].klass \in DOMAIN cs
  BY HeapIs DEF HeapOK
<1>2. is[i] \in InstanceSet
  BY <1>1, SeqIs
<1>3. js = Sub(is, i, r)
  <2> HIDE DEF m
  <2>1. [is[i] EXCEPT !.fields = m] = r
    BY <1>2 DEF InstanceSet
  <2>2. js = [is EXCEPT ![i] = [is[i] EXCEPT !.fields = m]]
    BY DEF m, Assigned
  <2> QED BY <2>1, <2>2 DEF Sub
<1>4. PICK D \in SUBSET Name : is[i].fields \in [D -> Val]
  BY <1>2 DEF InstanceSet
<1>5. m \in [D \cup {name} -> Val]
  <2>1. value \in Val
    BY ValueIs
  <2> QED BY <2>1, <1>4
<1>6. r \in InstanceSet
  <2>1. D \cup {name} \in SUBSET Name /\ is[i].klass \in Nat
    BY <1>2 DEF InstanceSet
  <2> HIDE DEF m
  <2> QED BY <2>1, <1>5 DEF InstanceSet
<1>7. r.klass = is[i].klass /\ r.fields = m
  OBVIOUS
<1>8. \A n \in DOMAIN m : m[n] = value \/ (n \in DOMAIN is[i].fields /\ m[n] = is[i].fields[n])
  OBVIOUS
<1> HIDE DEF m, r
<1>9. /\ js \in Seq(InstanceSet) /\ DOMAIN js = 1 .. Len(is) /\ js[i] = r
      /\ \A j \in 1 .. Len(is) : j # i => js[j] = is[j]
  <2>1. /\ Sub(is, i, r) \in Seq(InstanceSet) /\ DOMAIN Sub(is, i, r) = 1 .. Len(is)
        /\ Sub(is, i, r)[i] = r
        /\ \A j \in 1 .. Len(is) : j # i => Sub(is, i, r)[j] = is[j]
    BY <1>1, <1>6, Replaced
  <2> QED BY <2>1, <1>3
<1>10. js[i].klass = is[i].klass /\ js[i].fields = m
  BY <1>7, <1>9
<1>11. \A j \in DOMAIN is : js[j].klass = is[j].klass /\ (j # i => js[j] = is[j])
  BY <1>1, <1>9, <1>10
<1>12. \A n \in DOMAIN js[i].fields :
         \/ ValueOK(cs, is, js[i].fields[n])
         \/ i \in DOMAIN is /\ n \in DOMAIN is[i].fields /\ js[i].fields[n] = is[i].fields[n]
  BY <1>8, <1>10
<1>13. DOMAIN is \subseteq DOMAIN js /\ DOMAIN js \subseteq DOMAIN is \cup {i}
  BY <1>1, <1>9
<1> QED BY <1>1, <1>9, <1>10, <1>11, <1>12, <1>13, ObjectsStep
-----------------------------------------------------------------------------
(* The operand stack.                                                      *)
LEMMA StackIs ==
  ASSUME NEW cs, NEW is, NEW st, StackOK(cs, is, st)
  PROVE  /\ st \in Seq(Val) /\ Len(st) \in Nat /\ Len(st) > 0 /\ DOMAIN st = 1 .. Len(st)
         /\ \A i \in 1 .. Len(st) : st[i] \in Val
BY SeqIs DEF StackOK

LEMMA StackStays ==
  ASSUME NEW cs, NEW is, HeapOK(cs, is), NEW ds, NEW js, Kept(cs, is, ds, js),
         NEW st, StackOK(cs, is, st)
  PROVE  StackOK(ds, js, st)
BY ValueStays DEF StackOK

IsPushed(cs, is, st, v, s) ==
  /\ StackOK(cs, is, s) /\ Len(s) = Len(st) + 1 /\ s[Len(s)] = v
  /\ \A i \in 1 .. Len(st) : s[i] = st[i]

IsCut(cs, is, st, n, s) ==
  StackOK(cs, is, s) /\ Len(s) = n /\ \A i \in 1 .. n : s[i] = st[i]

LEMMA StackPushed ==
  ASSUME NEW cs, NEW is, HeapOK(cs, is), NEW st, StackOK(cs, is, st), NEW v, ValueOK(cs, is, v),
         NEW s, s = Append(st, v)
  PROVE  IsPushed(cs, is, st, v, s)
<1>1. st \in Seq(Val) /\ v \in Val /\ Len(st) \in Nat /\ Len(st) > 0
  BY StackIs, ValueIs
<1>2. /\ s \in Seq(Val) /\ Len(s) = Len(st) + 1 /\ s # <<>> /\ s[Len(st) + 1] = v
      /\ \A i \in 1 .. Len(st) : s[i] = st[i]
  BY <1>1, Appended
<1>3. \A i \in 2 .. Len(s) : i = Len(st) + 1 \/ i \in 2 .. Len(st)
  BY <1>1, <1>2
<1>4. 1 \in 1 .. Len(st) /\ \A i \in 2 .. Len(st) : i \in 1 .. Len(st)
  BY <1>1
<1>5. \A i \in 2 .. Len(s) : ValueOK(cs, is, s[i])
  BY <1>2, <1>3, <1>4 DEF StackOK
<1> QED BY <1>2, <1>4, <1>5 DEF StackOK, IsPushed

LEMMA StackCut ==
  ASSUME NEW cs, NEW is, NEW st, StackOK(cs, is, st), NEW n \in Nat, 0 < n, n <= Len(st),
         NEW s, s = SubSeq(st, 1, n)
  PROVE  IsCut(cs, is, st, n, s)
<1>1. s \in Seq(Val) /\ Len(s) = n /\ \A i \in 1 .. n : s[i] = st[i]
  BY StackIs, CutTo
<1>2. s # <<>> /\ 1 \in 1 .. n
  BY <1>1, EmptySeq
<1>3. \A i \in 2 .. Len(s) : i \in 1 .. n /\ i \in 2 .. Len(st)
  BY <1>1, StackIs
<1>4. \A i \in 2 .. Len(s) : ValueOK(cs, is, s[i])
  BY <1>1, <1>3 DEF StackOK
<1> QED BY <1>1, <1>2, <1>4 DEF StackOK, IsCut

LEMMA StackReplaced ==
  ASSUME NEW cs, NEW is, HeapOK(cs, is), NEW st, StackOK(cs, is, st), NEW v, ValueOK(cs, is, v),
         NEW k \in 2 .. Len(st), NEW s, s = Sub(st, k, v)
  PROVE  /\ StackOK(cs, is, s) /\ Len(s) = Len(st) /\ s[k] = v
         /\ \A i \in 1 .. Len(st) : i # k => s[i] = st[i]
<1>1. st \in Seq(Val) /\ v \in Val /\ Len(st) \in Nat /\ k \in 1 .. Len(st)
  BY StackIs, ValueIs
<1>2. /\ s \in Seq(Val) /\ Len(s) = Len(st) /\ s[k] = v
      /\ \A i \in 1 .. Len(st) : i # k => s[i] = st[i]
  BY <1>1, Replaced
<1>3. s # <<>> /\ 1 \in 1 .. Len(st) /\ 1 # k
  BY <1>1, <1>2, EmptySeq
<1>4. \A i \in 2 .. Len(s) : ValueOK(cs, is, s[i])
  BY <1>1, <1>2 DEF StackOK
<1> QED BY <1>2, <1>3, <1>4 DEF StackOK
-----------------------------------------------------------------------------
(* The frames.                                                             *)
LEMMA FunctionIs ==
  ASSUME NEW cs, NEW is, NEW st, NEW f, FrameOK(cs, is, st, f)
  PROVE  f.code.name \in Name /\ Arity[f.code.name] \in Nat
<1>1. Functions \subseteq Name /\ \A n \in Name : Arity[n] \in Nat
  BY DispatchAssumption DEF Name
<1>2. f.code \in Code => f.code.name \in Name
  BY DEF Code, Function
<1> QED BY <1>1, <1>2 DEF FrameOK, MethodOf

LEMMA FramesAre ==
  ASSUME NEW cs, NEW is, NEW st, NEW fs, FramesOK(cs, is, st, fs)
  PROVE  /\ fs \in Seq(FrameSet) /\ Len(fs) \in Nat /\ Len(fs) > 0 /\ DOMAIN fs = 1 .. Len(fs)
         /\ \A k \in DOMAIN fs :
              /\ fs[k].slots \in Nat /\ fs[k].slots > 0 /\ Base(fs, k) \in Nat
              /\ fs[k].slots <= Base(fs, k) /\ Base(fs, k) <= Base(fs, Len(fs))
<1>1. fs \in Seq(FrameSet) /\ Len(fs) \in Nat /\ Len(fs) > 0 /\ DOMAIN fs = 1 .. Len(fs)
  BY SeqIs DEF FramesOK
<1>2. ASSUME NEW k \in DOMAIN fs
      PROVE  fs[k].slots \in Nat /\ Base(fs, k) \in Nat /\ fs[k].slots <= Base(fs, k)
  <2> fs[k] \in FrameSet
    BY <1>1, SeqIs
  <2>1. fs[k].slots \in Nat
    BY DEF FrameSet
  <2>2. CASE k = 1
    BY <2>1, <2>2 DEF Base
  <2>3. CASE k # 1
    <3>1. k \in 2 .. Len(fs)
      BY <1>1, <2>3
    <3>2. FrameOK(cs, is, st, fs[k])
      BY <3>1 DEF FramesOK
    <3>3. Arity[fs[k].code.name] \in Nat
      BY <3>2, FunctionIs
    <3> QED BY <2>1, <2>3, <3>3 DEF Base
  <2> QED BY <2>1, <2>2, <2>3
<1>3. ASSUME NEW k \in DOMAIN fs PROVE fs[k].slots > 0
  <2>1. 1 \in DOMAIN fs /\ fs[1].slots = 1
    BY <1>1 DEF FramesOK
  <2>2. k # 1 => Base(fs, 1) < fs[k].slots
    BY <1>1, <2>1 DEF FramesOK
  <2> QED BY <1>2, <2>1, <2>2
<1>4. ASSUME NEW k \in DOMAIN fs PROVE Base(fs, k) <= Base(fs, Len(fs))
  <2>1. CASE k = Len(fs)
    BY <2>1, <1>2
  <2>2. CASE k # Len(fs)
    <3>1. Len(fs) \in DOMAIN fs /\ k < Len(fs)
      BY <2>2, <1>1
    <3>2. Base(fs, k) < fs[Len(fs)].slots
      BY <3>1 DEF FramesOK
    <3> QED BY <3>1, <3>2, <1>2
  <2> QED BY <2>1, <2>2
<1> QED BY <1>1, <1>2, <1>3, <1>4

LEMMA FrameStays ==
  ASSUME NEW cs, NEW is, HeapOK(cs, is), NEW ds, NEW js, Kept(cs, is, ds, js),
         NEW st, NEW f, FrameOK(cs, is, st, f), NEW s, s[f.slots] = st[f.slots]
  PROVE  FrameOK(ds, js, s, f)
<1>1. DOMAIN is \subseteq DOMAIN js
  BY DEF Kept
<1>2. CASE f.code.home = 0 /\ f.code.name \in Functions
  BY <1>2 DEF FrameOK
<1>3. CASE f.code.home # 0 /\ \E i \in DOMAIN is :
             st[f.slots] = Instance(i) /\ MethodOf(cs, is, i, f.code)
  BY <1>1, <1>3, MethodStays DEF FrameOK
<1> QED BY <1>2, <1>3 DEF FrameOK

Agrees(s, st, n) == n <= Len(s) /\ \A i \in 1 .. n : s[i] = st[i]

LEMMA FramesStay ==
  ASSUME NEW cs, NEW is, HeapOK(cs, is), NEW ds, NEW js, Kept(cs, is, ds, js),
         NEW st, NEW fs, FramesOK(cs, is, st, fs),
         NEW s, Agrees(s, st, Base(fs, Len(fs)))
  PROVE  FramesOK(ds, js, s, fs)
<1>1. ASSUME NEW k \in 2 .. Len(fs) PROVE FrameOK(ds, js, s, fs[k])
  <2>1. k \in DOMAIN fs /\ FrameOK(cs, is, st, fs[k])
    BY FramesAre DEF FramesOK
  <2>2. s[fs[k].slots] = st[fs[k].slots]
    <3>1. /\ fs[k].slots \in Nat /\ fs[k].slots > 0 /\ fs[k].slots <= Base(fs, k)
          /\ Base(fs, k) \in Nat /\ Base(fs, k) <= Base(fs, Len(fs))
      BY <2>1, FramesAre
    <3>2. Base(fs, Len(fs)) \in Nat
      BY FramesAre
    <3>3. fs[k].slots \in 1 .. Base(fs, Len(fs))
      BY <3>1, <3>2
    <3> QED BY <3>3 DEF Agrees
  <2> QED BY <2>1, <2>2, FrameStays
<1> QED BY <1>1 DEF FramesOK, Agrees

LEMMA FramesCalled ==
  ASSUME NEW cs, NEW is, NEW st, NEW fs, FramesOK(cs, is, st, fs), Len(fs) < FRAMES_MAX,
         NEW f \in FrameSet, Base(fs, Len(fs)) < f.slots, FrameOK(cs, is, st, f),
         f.slots + Arity[f.code.name] <= Len(st), NEW gs, gs = Append(fs, f)
  PROVE  FramesOK(cs, is, st, gs)
<1> DEFINE n == Len(fs)
<1>1. fs \in Seq(FrameSet) /\ n \in Nat /\ n > 0 /\ DOMAIN fs = 1 .. n
  BY FramesAre
<1>2. /\ gs \in Seq(FrameSet) /\ Len(gs) = n + 1 /\ DOMAIN gs = 1 .. n + 1 /\ gs[n + 1] = f
      /\ \A i \in 1 .. n : gs[i] = fs[i]
  BY <1>1, Appended
<1>3. \A k \in 1 .. n : Base(gs, k) = Base(fs, k) /\ gs[k].slots = fs[k].slots
  BY <1>2 DEF Base
<1>4. Base(gs, n + 1) = f.slots + Arity[f.code.name] /\ gs[n + 1].slots = f.slots
  BY <1>1, <1>2 DEF Base
<1>5. ASSUME NEW k \in 2 .. Len(gs) PROVE FrameOK(cs, is, st, gs[k])
  <2>1. k = n + 1 \/ k \in 2 .. n
    BY <1>1, <1>2
  <2> QED BY <2>1, <1>2 DEF FramesOK
<1>6. ASSUME NEW j \in DOMAIN gs, NEW k \in DOMAIN gs, j < k PROVE Base(gs, j) < gs[k].slots
  <2>1. j \in 1 .. n
    BY <1>1, <1>2, <1>6
  <2>2. CASE k \in 1 .. n
    BY <2>1, <2>2, <1>1, <1>3, <1>6 DEF FramesOK
  <2>3. CASE k = n + 1
    <3>1. j \in DOMAIN fs /\ n \in DOMAIN fs /\ n \in 1 .. n
      BY <2>1, <1>1
    <3>2. Base(fs, j) <= Base(fs, n) /\ Base(fs, j) \in Nat /\ Base(fs, n) \in Nat
      BY <3>1, FramesAre
    <3>3. f.slots \in Nat
      BY DEF FrameSet
    <3> HIDE DEF n
    <3> QED BY <2>1, <2>3, <3>1, <3>2, <3>3, <1>3, <1>4 DEF n
  <2> QED BY <2>2, <2>3, <1>2
<1>7. Len(gs) \in 1 .. FRAMES_MAX
  BY <1>1, <1>2, DispatchAssumption
<1>8. gs[1] = fs[1]
  BY <1>1, <1>2
<1> QED BY <1>2, <1>4, <1>5, <1>6, <1>7, <1>8 DEF FramesOK

LEMMA FramesReturned ==
  ASSUME NEW cs, NEW is, NEW st, NEW fs, FramesOK(cs, is, st, fs), Len(fs) > 1,
         Len(st) \in Nat, NEW gs, gs = SubSeq(fs, 1, Len(fs) - 1)
  PROVE  FramesOK(cs, is, st, gs) /\ Base(gs, Len(gs)) < fs[Len(fs)].slots
<1> DEFINE n == Len(fs) - 1
<1>1. fs \in Seq(FrameSet) /\ n \in Nat /\ n > 0 /\ DOMAIN fs = 1 .. n + 1 /\ Len(fs) = n + 1
  BY FramesAre
<1>2. /\ gs \in Seq(FrameSet) /\ Len(gs) = n /\ DOMAIN gs = 1 .. n
      /\ \A i \in 1 .. n : gs[i] = fs[i]
  BY <1>1, CutTo
<1>3. \A k \in 1 .. n : Base(gs, k) = Base(fs, k) /\ gs[k].slots = fs[k].slots /\ gs[k] = fs[k]
  BY <1>2 DEF Base
<1>4. \A k \in 1 .. n : k \in DOMAIN fs
  BY <1>1
<1>5. \A k \in 2 .. n : k \in 2 .. Len(fs) /\ k \in 1 .. n
  BY <1>1
<1>6. n + 1 \in DOMAIN fs /\ n \in 1 .. n /\ n < n + 1 /\ 1 \in 1 .. n
  BY <1>1
<1> HIDE DEF n
<1>7. Base(gs, n) < fs[Len(fs)].slots
  BY <1>1, <1>3, <1>4, <1>6 DEF FramesOK
<1>8. Base(gs, n) <= Len(st)
  <2>1. /\ Base(gs, n) \in Nat /\ fs[Len(fs)].slots \in Nat /\ Base(fs, Len(fs)) \in Nat
        /\ fs[Len(fs)].slots <= Base(fs, Len(fs))
    BY <1>1, <1>3, <1>4, <1>6, FramesAre
  <2>2. Base(fs, Len(fs)) <= Len(st)
    BY DEF FramesOK
  <2> QED BY <2>1, <2>2, <1>7
<1>9. \A k \in 2 .. Len(gs) : FrameOK(cs, is, st, gs[k])
  BY <1>2, <1>3, <1>5 DEF FramesOK
<1>10. \A j, k \in DOMAIN gs : j < k => Base(gs, j) < gs[k].slots
  BY <1>2, <1>3, <1>4 DEF FramesOK
<1>11. Len(gs) \in 1 .. FRAMES_MAX
  BY <1>1, <1>2, DispatchAssumption DEF FramesOK
<1> QED BY <1>2, <1>3, <1>6, <1>7, <1>8, <1>9, <1>10, <1>11 DEF FramesOK
-----------------------------------------------------------------------------
(* Steps.                                                                  *)
LEMMA LocalsAre ==
  ASSUME IInv
  PROVE  /\ HeapOK(classes, instances) /\ StackOK(classes, instances, stack)
         /\ FramesOK(classes, instances, stack, frames) /\ failed \in BOOLEAN
         /\ frame = frames[Len(frames)] /\ Locals = Base(frames, Len(frames))
         /\ Locals \in Nat /\ Locals > 0 /\ frame.slots \in 1 .. Locals /\ Locals <= Len(stack)
         /\ stack \in Seq(Val) /\ Len(stack) \in Nat /\ DOMAIN stack = 1 .. Len(stack)
         /\ Len(frames) \in Nat /\ Len(frames) \in 1 .. FRAMES_MAX
<1>1. /\ HeapOK(classes, instances) /\ StackOK(classes, instances, stack)
      /\ FramesOK(classes, instances, stack, frames) /\ failed \in BOOLEAN
  BY DEF IInv, State
<1>2. frame = frames[Len(frames)] /\ Locals = Base(frames, Len(frames))
  BY DEF frame, Last, Locals, Base
<1>3. Len(frames) \in DOMAIN frames /\ Len(frames) \in Nat
  BY <1>1, FramesAre
<1>4. /\ frames[Len(frames)].slots \in Nat /\ frames[Len(frames)].slots > 0
      /\ Base(frames, Len(frames)) \in Nat
      /\ frames[Len(frames)].slots <= Base(frames, Len(frames))
  BY <1>1, <1>3, FramesAre
<1>5. Locals \in Nat /\ Locals > 0 /\ frame.slots \in 1 .. Locals
  BY <1>2, <1>4
<1>6. stack \in Seq(Val) /\ Len(stack) \in Nat /\ DOMAIN stack = 1 .. Len(stack)
  BY <1>1, StackIs
<1>7. Locals <= Len(stack) /\ Len(frames) \in 1 .. FRAMES_MAX
  BY <1>1, <1>2 DEF FramesOK
<1> QED BY <1>1, <1>2, <1>3, <1>5, <1>6, <1>7

(* What is there for an instruction that needs n temporaries.              *)
LEMMA TemporariesAre ==
  ASSUME IInv, NEW n \in Nat, Temporaries(n)
  PROVE  /\ failed = FALSE /\ declaring = 0 /\ Len(stack) - n >= Locals
         /\ Len(stack) - n \in Nat /\ Len(stack) - n > 0
         /\ \A d \in 0 .. n - 1 :
              /\ Len(stack) - d \in 2 .. Len(stack) /\ Len(stack) - d > Locals
              /\ peek(d) = stack[Len(stack) - d] /\ ValueOK(classes, instances, peek(d))
<1>1. failed = FALSE /\ declaring = 0 /\ Len(stack) - n >= Locals
  BY LocalsAre DEF Temporaries
<1>2. ASSUME NEW d \in 0 .. n - 1
      PROVE  /\ Len(stack) - d \in 2 .. Len(stack) /\ Len(stack) - d > Locals
             /\ peek(d) = stack[Len(stack) - d] /\ ValueOK(classes, instances, peek(d))
  <2>1. Len(stack) - d \in 2 .. Len(stack) /\ Len(stack) - d > Locals
    BY <1>1, LocalsAre
  <2>2. ValueOK(classes, instances, stack[Len(stack) - d])
    BY <2>1, LocalsAre DEF StackOK
  <2> QED BY <2>1, <2>2 DEF peek
<1> QED BY SMTT(30), <1>1, <1>2, LocalsAre

LEMMA FailureStep ==
  ASSUME IInv, runtime_error
  PROVE  IInv'
BY DEF IInv, runtime_error

(* The stack changes above the slots of the functions that run.            *)
LEMMA StackStep ==
  ASSUME IInv, failed' \in BOOLEAN, classes' = classes, frames' = frames, declaring' = 0,
         HeapOK(classes, instances'), Kept(classes, instances, classes, instances'),
         StackOK(classes, instances', stack'),
         \A i \in 1 .. Locals : stack'[i] = stack[i], Locals <= Len(stack')
  PROVE  IInv'
<1> Agrees(stack', stack, Base(frames, Len(frames)))
  BY LocalsAre DEF Agrees
<1>1. FramesOK(classes, instances', stack', frames)
  BY LocalsAre, FramesStay
<1>2. DeclaringOK(classes', stack', frames', declaring')
  BY DEF DeclaringOK
<1> QED BY <1>1, <1>2 DEF IInv, State

LEMMA Same ==
  ASSUME NEW cs, NEW is
  PROVE  Kept(cs, is, cs, is)
BY DEF Kept, Supers

FunctionCode == {Function(h, m) : h \in Nat, m \in Name \cup {"script"}}

LEMMA PlainFunction ==
  ASSUME NEW g \in Functions
  PROVE  Function(0, g) \in FunctionCode
<1>1. g \in Name \cup {"script"} /\ 0 \in Nat
  BY DispatchAssumption DEF Name
<1> DEFINE z == 0
<1>2. z \in Nat
  OBVIOUS
<1> HIDE DEF z
<1>3. Function(z, g) \in FunctionCode
  BY <1>1, <1>2 DEF FunctionCode
<1> QED BY <1>3 DEF z

(* A call with the function or its self in place of what was called.       *)
LEMMA CallStep ==
  ASSUME IInv, NEW n \in Nat, Temporaries(1 + n), NEW code, NEW s, call(code, n, s),
         NEW js, HeapOK(classes, js), Kept(classes, instances, classes, js),
         runtime_error \/ instances' = js, StackOK(classes, js, s), Len(s) = Len(stack),
         \A i \in 1 .. Locals : s[i] = stack[i],
         code \in FunctionCode,
         FrameOK(classes, js, s, [code |-> code, slots |-> Len(s) - n])
  PROVE  IInv'
<1> DEFINE f == [code |-> code, slots |-> Len(s) - n]
<1>1. CASE runtime_error
  BY <1>1, FailureStep
<1>2. CASE ~runtime_error
  <2>1. /\ n = Arity[code.name] /\ Len(frames) # FRAMES_MAX /\ frames' = Append(frames, f)
        /\ stack' = s /\ classes' = classes /\ declaring' = declaring /\ failed' = failed
        /\ instances' = js
    BY <1>2 DEF call
  <2>2. /\ Len(stack) - n > Locals /\ Len(stack) - n \in Nat /\ declaring = 0
        /\ Len(stack) \in Nat
    <3>1. 1 + n \in Nat
      OBVIOUS
    <3>2. Len(stack) - (1 + n) >= Locals /\ declaring = 0 /\ Len(stack) \in Nat /\ Locals \in Nat
      BY <3>1, TemporariesAre, LocalsAre
    <3> QED BY <3>2
  <2>3. f \in FrameSet /\ f.slots = Len(s) - n /\ f.code = code
    <3>1. Len(s) - n \in Nat
      BY <2>2
    <3> QED BY <3>1 DEF FrameSet, FunctionCode
  <2> HIDE DEF f
  <2> Agrees(s, stack, Base(frames, Len(frames)))
    BY LocalsAre DEF Agrees
  <2>4. FramesOK(classes, js, s, frames)
    BY LocalsAre, FramesStay
  <2>5. FrameOK(classes, js, s, f)
    BY DEF f
  <2>6. Len(frames) < FRAMES_MAX
    BY <2>1, LocalsAre, DispatchAssumption
  <2>7. f.slots + Arity[f.code.name] <= Len(s) /\ Base(frames, Len(frames)) < f.slots
    BY <2>1, <2>2, <2>3, LocalsAre
  <2>8. FramesOK(classes, js, s, Append(frames, f))
    BY <2>3, <2>4, <2>5, <2>6, <2>7, FramesCalled
  <2>9. DeclaringOK(classes', stack', frames', declaring')
    BY <2>1, <2>2 DEF DeclaringOK
  <2> QED BY <2>1, <2>8, <2>9, LocalsAre DEF IInv, State
<1> QED BY <1>1, <1>2

LEMMA MethodIs ==
  ASSUME NEW cs, NEW is, HeapOK(cs, is), NEW c \in DOMAIN cs, NEW name \in DOMAIN cs[c].methods,
         NEW m, m = cs[c].methods[name]
  PROVE  m \in Code /\ m = Function(m.home, name) /\ m.home \in AboveIn(cs, c) /\ name \in Name
<1>1. cs \in Seq(ClassSet) /\ ClassOK(cs, c)
  BY DEF HeapOK
<1>2. cs[c] \in ClassSet
  BY <1>1, SeqIs
<1>3. PICK D \in SUBSET Name : cs[c].methods \in [D -> Code]
  BY <1>2 DEF ClassSet
<1> QED BY <1>1, <1>3 DEF ClassOK

LEMMA MethodFrame ==
  ASSUME NEW cs, NEW is, HeapOK(cs, is), NEW i \in DOMAIN is, NEW code, MethodOf(cs, is, i, code),
         NEW s, NEW k, s[k] = Instance(i)
  PROVE  FrameOK(cs, is, s, [code |-> code, slots |-> k]) /\ code \in FunctionCode
<1>1. code \in Code /\ code.home \in DOMAIN cs
  BY DEF MethodOf, AboveIn
<1>2. code.home # 0
  BY <1>1, HeapIs
<1>3. code \in FunctionCode
  BY <1>1 DEF Code, FunctionCode
<1> QED BY <1>2, <1>3 DEF FrameOK

(* A call with a new self.                                                 *)
LEMMA SelfCall ==
  ASSUME IInv, NEW n \in Nat, Temporaries(1 + n), NEW code, NEW i,
         call(code, n, Callee(n, Instance(i))),
         NEW js, HeapOK(classes, js), Kept(classes, instances, classes, js),
         runtime_error \/ instances' = js, i \in DOMAIN js, MethodOf(classes, js, i, code)
  PROVE  IInv'
<1> DEFINE k == Len(stack) - n
           s == Sub(stack, k, Instance(i))
<1>1. 1 + n \in Nat /\ n \in 0 .. (1 + n) - 1
  OBVIOUS
<1>2. k \in 2 .. Len(stack) /\ k > Locals
  BY <1>1, TemporariesAre
<1>3. s = Callee(n, Instance(i))
  BY DEF Sub, Callee
<1>4. HeapOK(classes, instances) /\ StackOK(classes, instances, stack)
  BY LocalsAre
<1>5. StackOK(classes, js, stack)
  BY <1>4, StackStays
<1>6. ValueOK(classes, js, Instance(i))
  BY DEF ValueOK
<1> HIDE DEF s
<1>7. /\ StackOK(classes, js, s) /\ Len(s) = Len(stack) /\ s[k] = Instance(i)
      /\ \A j \in 1 .. Len(stack) : j # k => s[j] = stack[j]
  <2> HIDE DEF k
  <2> QED BY <1>2, <1>5, <1>6, StackReplaced DEF s
<1>8. \A j \in 1 .. Locals : s[j] = stack[j]
  BY <1>2, <1>7, LocalsAre
<1>9. FrameOK(classes, js, s, [code |-> code, slots |-> Len(s) - n]) /\ code \in FunctionCode
  BY <1>7, MethodFrame
<1>10. call(code, n, s)
  BY <1>3
<1> QED BY <1>7, <1>8, <1>9, <1>10, CallStep

LEMMA ClassCalled ==
  ASSUME IInv, NEW n \in Nat, Temporaries(1 + n), NEW c \in DOMAIN classes, call_class(c, n)
  PROVE  IInv'
<1> DEFINE i == Len(instances) + 1
           js == Append(instances, [klass |-> c, fields |-> <<>>])
           k == Len(stack) - n
           s == Sub(stack, k, Instance(i))
<1>1. /\ HeapOK(classes, js) /\ Kept(classes, instances, classes, js) /\ i \in DOMAIN js
      /\ js[i].klass = c
  <2>1. HeapOK(classes, instances) /\ js = Append(instances, NewObject(c))
    BY LocalsAre DEF NewObject
  <2> HIDE DEF js, i, k, s
  <2>2. Made(classes, instances, c, js)
    BY Zenon, <2>1, ObjectMade
  <2> QED BY <2>2 DEF i, Made
<1>2. 1 + n \in Nat /\ n \in 0 .. (1 + n) - 1
  OBVIOUS
<1>3. failed = FALSE /\ declaring = 0 /\ k \in 2 .. Len(stack) /\ k > Locals
  BY <1>2, TemporariesAre
<1>4. CASE init_string \in DOMAIN classes[c].methods
  <2> DEFINE m == classes[c].methods[init_string]
  <2>1. call(m, n, Callee(n, Instance(i))) /\ (~failed' => instances' = js)
    BY <1>4 DEF call_class
  <2>2. m \in Code /\ m.home \in AboveIn(classes, c)
    BY <1>4, LocalsAre, MethodIs
  <2> HIDE DEF m, i, js
  <2>3. MethodOf(classes, js, i, m)
    BY <2>2, <1>1 DEF MethodOf
  <2>4. runtime_error \/ failed' = failed
    BY <2>1 DEF call
  <2>5. runtime_error \/ instances' = js
    BY <2>1, <2>4, <1>3
  <2> QED BY <2>1, <2>3, <2>5, <1>1, SelfCall
<1>5. CASE init_string \notin DOMAIN classes[c].methods /\ n # 0
  BY <1>5, FailureStep DEF call_class
<1>6. CASE init_string \notin DOMAIN classes[c].methods /\ n = 0
  <2>1. /\ instances' = js /\ stack' = Callee(n, Instance(i)) /\ classes' = classes
        /\ frames' = frames /\ declaring' = declaring /\ failed' = failed
    BY <1>6 DEF call_class, Gives
  <2>2. stack' = s
    BY <2>1 DEF Sub, Callee
  <2> HIDE DEF js, s
  <2>3. StackOK(classes, js, stack) /\ ValueOK(classes, js, Instance(i))
    BY <1>1, LocalsAre, StackStays DEF ValueOK
  <2>4. /\ StackOK(classes, js, s) /\ Len(s) = Len(stack)
        /\ \A j \in 1 .. Len(stack) : j # k => s[j] = stack[j]
    <3> HIDE DEF k, i
    <3> QED BY <1>1, <1>3, <2>3, StackReplaced DEF s
  <2>5. \A j \in 1 .. Locals : s[j] = stack[j]
    BY <1>3, <2>4, LocalsAre
  <2>6. failed' \in BOOLEAN /\ declaring' = 0 /\ Locals <= Len(stack')
    BY <1>3, <2>1, <2>2, <2>4, LocalsAre
  <2> QED BY <1>1, <2>1, <2>2, <2>4, <2>5, <2>6, StackStep
<1> QED BY <1>4, <1>5, <1>6

(* call_value, with what was called in its place or the field it was in.   *)
LEMMA ValueCalled ==
  ASSUME IInv, NEW n \in Nat, Temporaries(1 + n), NEW v, ValueOK(classes, instances, v),
         NEW s, StackOK(classes, instances, s), Len(s) = Len(stack),
         \A i \in 1 .. Locals : s[i] = stack[i], call_value(v, n, s)
  PROVE  IInv'
<1>1. HeapOK(classes, instances) /\ Kept(classes, instances, classes, instances)
  BY LocalsAre, Same
<1>2. ASSUME NEW c \in DOMAIN classes, v = Class(c) PROVE IInv'
  <2>1. v.type = "class" /\ v.class = c
    BY <1>2 DEF Class
  <2>2. call_class(c, n)
    BY <2>1 DEF call_value
  <2> QED BY <2>2, ClassCalled
<1>3. ASSUME NEW i \in DOMAIN instances, v = Instance(i) PROVE IInv'
  <2>1. v.type = "instance"
    BY <1>3 DEF Instance
  <2>2. runtime_error
    BY <2>1 DEF call_value
  <2> QED BY <2>2, FailureStep
<1>4. ASSUME NEW g \in Functions, v = Function(0, g) PROVE IInv'
  <2>1. v.type = "function" /\ v.home = 0 /\ v.name = g
    BY <1>4 DEF Function
  <2>2. call(v, n, s) /\ instances' = instances
    BY <2>1 DEF call_value
  <2>3. v \in FunctionCode
    BY <1>4, PlainFunction
  <2>4. FrameOK(classes, instances, s, [code |-> v, slots |-> Len(s) - n])
    <3> DEFINE f == [code |-> v, slots |-> Len(s) - n]
    <3>1. f.code = v
      OBVIOUS
    <3> HIDE DEF f
    <3>2. FrameOK(classes, instances, s, f)
      BY <2>1, <3>1 DEF FrameOK
    <3> QED BY <3>2 DEF f
  <2> QED BY <1>1, <2>2, <2>3, <2>4, CallStep
<1>5. ASSUME NEW i \in DOMAIN instances, NEW code \in Code, v = Bound(Instance(i), code),
             MethodOf(classes, instances, i, code)
      PROVE  IInv'
  <2>1. v.type = "bound" /\ v.self = Instance(i) /\ v.code = code
    BY <1>5 DEF Bound
  <2>2. call(code, n, Callee(n, Instance(i))) /\ instances' = instances
    BY <2>1 DEF call_value
  <2> QED BY <1>1, <1>5, <2>2, SelfCall
<1> QED BY <1>2, <1>3, <1>4, <1>5 DEF ValueOK
-----------------------------------------------------------------------------
(* The instructions that call.                                             *)
LEMMA ObjectIs ==
  ASSUME NEW cs, NEW is, HeapOK(cs, is), NEW v, ValueOK(cs, is, v), v.type = "instance"
  PROVE  /\ v.instance \in DOMAIN is /\ v = Instance(v.instance)
         /\ is[v.instance].klass \in DOMAIN cs
         /\ \A n \in DOMAIN is[v.instance].fields : ValueOK(cs, is, is[v.instance].fields[n])
<1>1. \E i \in DOMAIN is : v = Instance(i)
  BY DEF ValueOK, Class, Function, Bound
<1>2. PICK i \in DOMAIN is : v = Instance(i)
  BY <1>1
<1>3. v.instance = i
  BY <1>2 DEF Instance
<1>4. InstanceOK(cs, is, i)
  BY DEF HeapOK
<1> QED BY <1>2, <1>3, <1>4 DEF InstanceOK

LEMMA ValueInPlace ==
  ASSUME IInv, NEW n \in Nat, Temporaries(1 + n), NEW v, ValueOK(classes, instances, v)
  PROVE  /\ StackOK(classes, instances, Callee(n, v)) /\ Len(Callee(n, v)) = Len(stack)
         /\ \A i \in 1 .. Locals : Callee(n, v)[i] = stack[i]
<1> DEFINE k == Len(stack) - n
           s == Sub(stack, k, v)
<1>1. 1 + n \in Nat /\ n \in 0 .. (1 + n) - 1
  OBVIOUS
<1>2. k \in 2 .. Len(stack) /\ k > Locals
  BY <1>1, TemporariesAre
<1>3. s = Callee(n, v)
  BY DEF Sub, Callee
<1>4. HeapOK(classes, instances) /\ StackOK(classes, instances, stack)
  BY LocalsAre
<1> HIDE DEF s, k
<1>5. /\ StackOK(classes, instances, s) /\ Len(s) = Len(stack)
      /\ \A j \in 1 .. Len(stack) : j # k => s[j] = stack[j]
  BY <1>2, <1>4, StackReplaced DEF s
<1>6. \A j \in 1 .. Locals : s[j] = stack[j]
  BY <1>2, <1>5, LocalsAre
<1> QED BY <1>3, <1>5, <1>6

(* A method of what object i inherits from.                                *)
LEMMA InheritedMethod ==
  ASSUME NEW cs, NEW is, HeapOK(cs, is), NEW i \in DOMAIN is, NEW c \in AboveIn(cs, is[i].klass),
         NEW name \in DOMAIN cs[c].methods
  PROVE  MethodOf(cs, is, i, cs[c].methods[name])
<1>1. c \in DOMAIN cs
  BY DEF AboveIn
<1>2. cs[c].methods[name] \in Code /\ cs[c].methods[name].home \in AboveIn(cs, c)
  BY <1>1, MethodIs
<1>3. cs[c].methods[name].home \in AboveIn(cs, is[i].klass)
  BY <1>2, AboveTrans
<1> QED BY <1>2, <1>3 DEF MethodOf

LEMMA InvokedFromClass ==
  ASSUME IInv, NEW n \in Nat, Temporaries(1 + n), NEW i \in DOMAIN instances, peek(n) = Instance(i),
         NEW c \in AboveIn(classes, instances[i].klass), NEW name, invoke_from_class(c, name, n)
  PROVE  IInv'
<1>1. CASE name \notin DOMAIN classes[c].methods
  BY <1>1, FailureStep DEF invoke_from_class
<1>2. CASE name \in DOMAIN classes[c].methods
  <2> DEFINE m == classes[c].methods[name]
  <2>1. call(m, n, stack) /\ instances' = instances
    BY <1>2 DEF invoke_from_class
  <2>2. HeapOK(classes, instances) /\ StackOK(classes, instances, stack)
    BY LocalsAre
  <2>3. MethodOf(classes, instances, i, m)
    BY <1>2, <2>2, InheritedMethod
  <2>4. stack[Len(stack) - n] = Instance(i)
    BY DEF peek
  <2> HIDE DEF m
  <2>5. FrameOK(classes, instances, stack, [code |-> m, slots |-> Len(stack) - n]) /\ m \in FunctionCode
    BY <2>2, <2>3, <2>4, MethodFrame
  <2>6. Kept(classes, instances, classes, instances)
    BY Same
  <2> QED BY <2>1, <2>2, <2>5, <2>6, CallStep
<1> QED BY <1>1, <1>2

LEMMA InvokeStep ==
  ASSUME IInv, NEW n \in Nat, Temporaries(1 + n), NEW name, invoke(name, n)
  PROVE  IInv'
<1> DEFINE v == peek(n)
           i == v.instance
<1>1. 1 + n \in Nat /\ n \in 0 .. (1 + n) - 1
  OBVIOUS
<1>2. HeapOK(classes, instances) /\ ValueOK(classes, instances, v)
  BY <1>1, LocalsAre, TemporariesAre
<1>3. CASE v.type # "instance"
  BY <1>3, FailureStep DEF invoke
<1>4. CASE v.type = "instance"
  <2>1. /\ i \in DOMAIN instances /\ v = Instance(i) /\ instances[i].klass \in DOMAIN classes
        /\ \A m \in DOMAIN instances[i].fields : ValueOK(classes, instances, instances[i].fields[m])
    BY <1>2, <1>4, ObjectIs
  <2>2. CASE name \in DOMAIN instances[i].fields
    <3> DEFINE f == instances[i].fields[name]
    <3>1. call_value(f, n, Callee(n, f)) /\ ValueOK(classes, instances, f)
      BY <1>4, <2>1, <2>2 DEF invoke
    <3> HIDE DEF f
    <3>2. /\ StackOK(classes, instances, Callee(n, f)) /\ Len(Callee(n, f)) = Len(stack)
          /\ \A j \in 1 .. Locals : Callee(n, f)[j] = stack[j]
      BY <3>1, ValueInPlace
    <3> QED BY <3>1, <3>2, ValueCalled
  <2>3. CASE name \notin DOMAIN instances[i].fields
    <3>1. invoke_from_class(instances[i].klass, name, n)
      BY <1>4, <2>3 DEF invoke
    <3>2. instances[i].klass \in AboveIn(classes, instances[i].klass)
      BY <2>1, AboveSelf
    <3> HIDE DEF i
    <3> QED BY <2>1, <3>1, <3>2, InvokedFromClass
  <2> QED BY <2>2, <2>3
<1> QED BY <1>3, <1>4

LEMMA FrameSelf ==
  ASSUME IInv, IsMethod
  PROVE  \E i \in DOMAIN instances : Self = Instance(i) /\ MethodOf(classes, instances, i, frame.code)
<1>1. /\ FramesOK(classes, instances, stack, frames) /\ frame = frames[Len(frames)]
      /\ Len(frames) \in Nat /\ Len(frames) \in 1 .. FRAMES_MAX
  BY LocalsAre
<1>2. Len(frames) # 1
  BY <1>1 DEF FramesOK, IsMethod, Function
<1>3. Len(frames) \in 2 .. Len(frames)
  BY <1>1, <1>2
<1>4. FrameOK(classes, instances, stack, frame)
  BY <1>1, <1>3 DEF FramesOK
<1> QED BY <1>4 DEF FrameOK, IsMethod, Self

LEMMA SuperOfSelf ==
  ASSUME IInv, HasSuper, NEW i \in DOMAIN instances, Self = Instance(i)
  PROVE  classes[frame.code.home].super \in AboveIn(classes, instances[i].klass)
<1> DEFINE h == frame.code.home
           s == classes[h].super
<1>1. PICK j \in DOMAIN instances : Self = Instance(j) /\ MethodOf(classes, instances, j, frame.code)
  BY FrameSelf DEF HasSuper
<1>2. j = i
  BY <1>1 DEF Instance
<1>3. h \in AboveIn(classes, instances[i].klass)
  BY <1>1, <1>2 DEF MethodOf
<1>4. h \in DOMAIN classes /\ s # 0
  BY <1>3 DEF AboveIn, HasSuper
<1>5. HeapOK(classes, instances) /\ Len(classes) \in Nat /\ DOMAIN classes = 1 .. Len(classes)
      /\ Ordered(classes)
  BY LocalsAre, HeapIs
<1>6. s \in 0 .. h - 1
  BY <1>4, <1>5 DEF Ordered
<1>7. s \in DOMAIN classes
  BY <1>4, <1>5, <1>6
<1>8. s \in AboveIn(classes, h)
  BY <1>4, <1>7, SuperAbove
<1> QED BY <1>3, <1>8, AboveTrans

LEMMA SuperInvoked ==
  ASSUME IInv, NEW name, NEW n \in Nat, op_super_invoke(name, n)
  PROVE  IInv'
<1>1. /\ Temporaries(1 + n) /\ HasSuper /\ IsMethod /\ peek(n) = Self
      /\ invoke_from_class(classes[frame.code.home].super, name, n)
  BY DEF op_super_invoke, HasSuper
<1>2. PICK i \in DOMAIN instances : Self = Instance(i)
  BY <1>1, FrameSelf
<1>3. classes[frame.code.home].super \in AboveIn(classes, instances[i].klass)
  BY <1>1, <1>2, SuperOfSelf
<1> QED BY <1>1, <1>2, <1>3, InvokedFromClass
-----------------------------------------------------------------------------
(* The instructions that do not.                                           *)

(* What is left of the stack, with the slots of the functions that run.    *)
Rest(s) ==
  /\ StackOK(classes, instances, s) /\ Locals <= Len(s)
  /\ \A i \in 1 .. Locals : s[i] = stack[i]

LEMMA PoppedIs ==
  ASSUME IInv, NEW n \in Nat, Temporaries(n)
  PROVE  Rest(Popped(n))
<1> DEFINE k == Len(stack) - n
<1>1. k \in Nat /\ 0 < k /\ k >= Locals /\ k <= Len(stack)
  <2>1. Len(stack) - n >= Locals /\ Len(stack) - n \in Nat /\ Len(stack) - n > 0
    BY TemporariesAre
  <2>2. Len(stack) \in Nat /\ Locals \in Nat
    BY LocalsAre
  <2> QED BY <2>1, <2>2
<1>2. StackOK(classes, instances, stack) /\ Popped(n) = SubSeq(stack, 1, k)
  BY LocalsAre DEF Popped
<1> HIDE DEF k
<1>3. /\ StackOK(classes, instances, Popped(n)) /\ Len(Popped(n)) = k
      /\ \A i \in 1 .. k : Popped(n)[i] = stack[i]
  <2>1. IsCut(classes, instances, stack, k, Popped(n))
    BY Zenon, <1>1, <1>2, StackCut
  <2> QED BY <2>1 DEF IsCut
<1>4. \A i \in 1 .. Locals : i \in 1 .. k
  BY <1>1, LocalsAre
<1> QED BY <1>1, <1>3, <1>4 DEF Rest

LEMMA PushStep ==
  ASSUME IInv, failed' \in BOOLEAN, classes' = classes, frames' = frames, declaring' = 0,
         HeapOK(classes, instances'), Kept(classes, instances, classes, instances'),
         NEW s, Rest(s), NEW v, ValueOK(classes, instances, v), stack' = Append(s, v)
  PROVE  IInv'
<1> DEFINE t == Append(s, v)
<1>1. HeapOK(classes, instances) /\ StackOK(classes, instances, s) /\ Locals <= Len(s)
      /\ Locals \in Nat /\ t = Append(s, v)
  BY LocalsAre DEF Rest
<1> HIDE DEF t
<1>2. Len(s) \in Nat
  BY <1>1, StackIs
<1>3. /\ StackOK(classes, instances, t) /\ Len(t) = Len(s) + 1
      /\ \A i \in 1 .. Len(s) : t[i] = s[i]
  <2>1. IsPushed(classes, instances, s, v, t)
    BY Zenon, <1>1, StackPushed
  <2> QED BY <2>1 DEF IsPushed
<1>4. StackOK(classes, instances', t)
  BY <1>1, <1>3, StackStays
<1>5. \A i \in 1 .. Locals : t[i] = stack[i]
  BY <1>1, <1>2, <1>3 DEF Rest
<1>6. Locals <= Len(t) /\ stack' = t
  BY <1>1, <1>2, <1>3 DEF t
<1> QED BY <1>4, <1>5, <1>6, StackStep

LEMMA Whole ==
  ASSUME IInv
  PROVE  Rest(stack)
BY LocalsAre DEF Rest

LEMMA PropertyBound ==
  ASSUME IInv, Temporaries(1), NEW i \in DOMAIN instances, peek(0) = Instance(i),
         NEW c \in AboveIn(classes, instances[i].klass), NEW name, bind_method(c, name)
  PROVE  IInv'
<1>1. CASE name \notin DOMAIN classes[c].methods
  BY <1>1, FailureStep DEF bind_method
<1>2. CASE name \in DOMAIN classes[c].methods
  <2> DEFINE m == classes[c].methods[name]
             v == Bound(Instance(i), m)
  <2>1. /\ stack' = Append(Popped(1), v) /\ classes' = classes /\ frames' = frames
        /\ declaring' = declaring /\ failed' = failed /\ instances' = instances
    BY <1>2 DEF bind_method, Gives
  <2>2. HeapOK(classes, instances) /\ Kept(classes, instances, classes, instances)
    BY LocalsAre, Same
  <2>3. MethodOf(classes, instances, i, m) /\ m \in Code
    BY <1>2, <2>2, InheritedMethod DEF MethodOf
  <2>4. ValueOK(classes, instances, v)
    BY <2>3 DEF ValueOK
  <2>5. Rest(Popped(1)) /\ declaring' = 0 /\ failed' \in BOOLEAN
    BY <2>1, PoppedIs, TemporariesAre, LocalsAre
  <2> HIDE DEF m, v
  <2> QED BY <2>1, <2>2, <2>4, <2>5, PushStep
<1> QED BY <1>1, <1>2

LEMMA PropertyGot ==
  ASSUME IInv, NEW name, NEW below, Rest(below), Gets(name, below)
  PROVE  IInv'
<1> DEFINE v == peek(0)
           i == v.instance
<1>1. Temporaries(1) /\ 1 \in Nat /\ 0 \in 0 .. 1 - 1
  BY DEF Gets
<1>2. /\ HeapOK(classes, instances) /\ ValueOK(classes, instances, v) /\ declaring = 0
      /\ failed \in BOOLEAN /\ Kept(classes, instances, classes, instances)
  BY <1>1, LocalsAre, TemporariesAre, Same
<1>3. CASE v.type # "instance"
  BY <1>3, FailureStep DEF Gets
<1>4. CASE v.type = "instance"
  <2>1. /\ i \in DOMAIN instances /\ v = Instance(i) /\ instances[i].klass \in DOMAIN classes
        /\ \A m \in DOMAIN instances[i].fields : ValueOK(classes, instances, instances[i].fields[m])
    BY <1>2, <1>4, ObjectIs
  <2>2. CASE name \in DOMAIN instances[i].fields
    <3> DEFINE f == instances[i].fields[name]
    <3>1. /\ stack' = Append(below, f) /\ classes' = classes /\ frames' = frames
          /\ declaring' = declaring /\ failed' = failed /\ instances' = instances
      BY <1>4, <2>2 DEF Gets, Gives
    <3>2. ValueOK(classes, instances, f)
      BY <2>1, <2>2
    <3> HIDE DEF f
    <3> QED BY <3>1, <3>2, <1>2, PushStep
  <2>3. CASE name \notin DOMAIN instances[i].fields
    <3>1. bind_method(instances[i].klass, name)
      BY <1>4, <2>3 DEF Gets
    <3>2. instances[i].klass \in AboveIn(classes, instances[i].klass)
      BY <2>1, AboveSelf
    <3> HIDE DEF i
    <3> QED BY <1>1, <2>1, <3>1, <3>2, PropertyBound
  <2> QED BY <2>2, <2>3
<1> QED BY <1>3, <1>4

LEMMA PropertySet ==
  ASSUME IInv, NEW name \in Name, op_set_property(name)
  PROVE  IInv'
<1> DEFINE v == peek(1)
           i == v.instance
           w == peek(0)
<1>1. Temporaries(2) /\ 2 \in Nat /\ 0 \in 0 .. 2 - 1 /\ 1 \in 0 .. 2 - 1
  BY DEF op_set_property
<1>2. /\ HeapOK(classes, instances) /\ ValueOK(classes, instances, v)
      /\ ValueOK(classes, instances, w) /\ declaring = 0 /\ failed \in BOOLEAN
  BY <1>1, LocalsAre, TemporariesAre
<1>3. CASE v.type # "instance"
  BY <1>3, FailureStep DEF op_set_property
<1>4. CASE v.type = "instance"
  <2>1. i \in DOMAIN instances
    BY <1>2, <1>4, ObjectIs
  <2>2. /\ instances' = Assigned(instances, i, name, w) /\ stack' = Append(Popped(2), w)
        /\ classes' = classes /\ frames' = frames /\ declaring' = declaring /\ failed' = failed
    BY <1>4 DEF op_set_property, Gives, Assigned
  <2> HIDE DEF v, i, w
  <2>3. HeapOK(classes, instances') /\ Kept(classes, instances, classes, instances')
    BY <1>2, <2>1, <2>2, FieldSet
  <2>4. Rest(Popped(2))
    BY <1>1, PoppedIs
  <2> QED BY <1>2, <2>2, <2>3, <2>4, PushStep
<1> QED BY <1>3, <1>4

LEMMA SuperGot ==
  ASSUME IInv, NEW name, op_get_super(name)
  PROVE  IInv'
<1>1. /\ Temporaries(1) /\ HasSuper /\ IsMethod /\ peek(0) = Self
      /\ bind_method(classes[frame.code.home].super, name)
  BY DEF op_get_super, HasSuper
<1>2. PICK i \in DOMAIN instances : Self = Instance(i)
  BY <1>1, FrameSelf
<1>3. classes[frame.code.home].super \in AboveIn(classes, instances[i].klass)
  BY <1>1, <1>2, SuperOfSelf
<1> QED BY <1>1, <1>2, <1>3, PropertyBound

LEMMA VariableGot ==
  ASSUME IInv, NEW v \in Variables, op_get_global(v)
  PROVE  IInv'
<1>1. /\ Temporaries(0) /\ stack' = Append(stack, v) /\ classes' = classes /\ frames' = frames
      /\ declaring' = declaring /\ failed' = failed /\ instances' = instances
  BY DEF op_get_global, Silent
<1>2. /\ HeapOK(classes, instances) /\ Kept(classes, instances, classes, instances)
      /\ declaring = 0 /\ failed \in BOOLEAN /\ Rest(stack)
  BY <1>1, LocalsAre, TemporariesAre, Same, Whole
<1>3. ValueOK(classes, instances, v)
  BY DEF Variables, ValueOK
<1> QED BY <1>1, <1>2, <1>3, PushStep

LEMMA LocalGot ==
  ASSUME IInv, NEW i \in DOMAIN stack, op_get_local(i)
  PROVE  IInv'
<1>1. /\ Temporaries(0) /\ stack' = Append(stack, stack[i]) /\ classes' = classes /\ frames' = frames
      /\ declaring' = declaring /\ failed' = failed /\ instances' = instances
      /\ (i = frame.slots => IsMethod) /\ (i # frame.slots => i \in frame.slots .. Locals)
  BY DEF op_get_local, Silent
<1>2. /\ HeapOK(classes, instances) /\ Kept(classes, instances, classes, instances)
      /\ declaring = 0 /\ failed \in BOOLEAN /\ Rest(stack)
      /\ StackOK(classes, instances, stack) /\ FramesOK(classes, instances, stack, frames)
      /\ frame = frames[Len(frames)] /\ DOMAIN stack = 1 .. Len(stack) /\ Len(stack) \in Nat
      /\ frame.slots \in 1 .. Locals /\ Locals \in Nat
  BY <1>1, LocalsAre, TemporariesAre, Same, Whole
<1>3. ValueOK(classes, instances, stack[i])
  <2>1. CASE i = frame.slots
    <3>1. \E j \in DOMAIN instances : Self = Instance(j)
      BY <1>1, <2>1, FrameSelf
    <3> QED BY <2>1, <3>1 DEF Self, ValueOK
  <2>2. CASE i # frame.slots
    <3>1. i \in 2 .. Len(stack)
      BY <1>1, <1>2, <2>2
    <3> QED BY <3>1, <1>2 DEF StackOK
  <2> QED BY <2>1, <2>2
<1> QED BY <1>1, <1>2, <1>3, PushStep

LEMMA PopStep ==
  ASSUME IInv, op_pop
  PROVE  IInv'
<1>1. /\ Temporaries(1) /\ stack' = Popped(1) /\ classes' = classes /\ frames' = frames
      /\ declaring' = declaring /\ failed' = failed /\ instances' = instances
  BY DEF op_pop, Silent
<1>2. /\ HeapOK(classes, instances) /\ Kept(classes, instances, classes, instances)
      /\ declaring = 0 /\ failed \in BOOLEAN /\ Rest(Popped(1))
  BY <1>1, LocalsAre, TemporariesAre, Same, PoppedIs
<1> QED BY <1>1, <1>2, StackStep DEF Rest

LEMMA DeclaringIs ==
  ASSUME IInv, declaring # 0
  PROVE  /\ declaring = Len(classes) /\ declaring \in DOMAIN classes /\ Len(frames) = 1
         /\ Len(stack) > 1 /\ stack[Len(stack)] = Class(declaring)
         /\ HeapOK(classes, instances) /\ StackOK(classes, instances, stack)
         /\ stack[1] = Function(0, "script") /\ Len(stack) \in Nat
BY LocalsAre DEF IInv, State, DeclaringOK, StackOK

LEMMA ReturnStep ==
  ASSUME IInv, op_return
  PROVE  IInv'
<1> DEFINE value == IF IsInitializer THEN Self ELSE peek(0)
           k == frame.slots - 1
           gs == SubSeq(frames, 1, Len(frames) - 1)
           cut == SubSeq(stack, 1, k)
           s == Append(cut, value)
<1>1. /\ Len(frames) > 1 /\ Len(stack) = (IF IsInitializer THEN Locals ELSE Locals + 1)
      /\ frames' = gs /\ stack' = s /\ classes' = classes /\ instances' = instances
      /\ declaring' = declaring /\ failed' = failed
  BY DEF op_return, Front
<1>2. /\ HeapOK(classes, instances) /\ StackOK(classes, instances, stack)
      /\ FramesOK(classes, instances, stack, frames) /\ failed \in BOOLEAN
      /\ frame = frames[Len(frames)] /\ frame.slots \in 1 .. Locals /\ Locals \in Nat
      /\ Locals <= Len(stack) /\ Len(stack) \in Nat
  BY LocalsAre
<1>3. ValueOK(classes, instances, value)
  <2>1. CASE IsInitializer
    <3>1. \E i \in DOMAIN instances : Self = Instance(i)
      BY <2>1, FrameSelf DEF IsInitializer
    <3> QED BY <2>1, <3>1 DEF ValueOK
  <2>2. CASE ~IsInitializer
    <3>1. Len(stack) = Locals + 1
      BY <1>1, <2>2
    <3>2. Len(stack) \in 2 .. Len(stack) /\ Len(stack) - 0 = Len(stack)
      BY <1>2, <3>1
    <3>3. ValueOK(classes, instances, stack[Len(stack)])
      BY <1>2, <3>2 DEF StackOK
    <3>4. value = stack[Len(stack)]
      BY <2>2, <3>2 DEF peek
    <3> QED BY <3>3, <3>4
  <2> QED BY <2>1, <2>2
<1> HIDE DEF value, gs, s
<1>4. FramesOK(classes, instances, stack, gs) /\ Base(gs, Len(gs)) < frame.slots
  BY <1>1, <1>2, FramesReturned DEF gs
<1>5. Base(gs, Len(gs)) \in Nat /\ Base(gs, Len(gs)) > 0
  <2>1. Len(gs) \in DOMAIN gs
    BY <1>4, FramesAre
  <2>2. gs[Len(gs)].slots \in Nat /\ gs[Len(gs)].slots > 0 /\ gs[Len(gs)].slots <= Base(gs, Len(gs))
        /\ Base(gs, Len(gs)) \in Nat
    BY <1>4, <2>1, FramesAre
  <2> QED BY <2>2
<1>6. k \in Nat /\ 0 < k /\ k <= Len(stack) /\ Base(gs, Len(gs)) <= k
  BY <1>2, <1>4, <1>5
<1>7. cut = SubSeq(stack, 1, k) /\ s = Append(cut, value)
  BY DEF s
<1> HIDE DEF cut, k
<1>8. IsCut(classes, instances, stack, k, cut)
  BY Zenon, <1>2, <1>6, <1>7, StackCut
<1>9. StackOK(classes, instances, cut)
  BY <1>8 DEF IsCut
<1>10. IsPushed(classes, instances, cut, value, s)
  BY Zenon, <1>2, <1>3, <1>7, <1>9, StackPushed
<1>11. /\ StackOK(classes, instances, s) /\ Len(s) = k + 1
       /\ \A i \in 1 .. k : s[i] = stack[i]
  BY <1>8, <1>10 DEF IsCut, IsPushed
<1>12. Agrees(s, stack, Base(gs, Len(gs)))
  BY <1>5, <1>6, <1>11 DEF Agrees
<1>13. FramesOK(classes, instances, s, gs)
  <2>1. Kept(classes, instances, classes, instances)
    BY Same
  <2> QED BY <2>1, <1>2, <1>4, <1>12, FramesStay
<1>14. declaring = 0
  <2>1. Len(frames) # 1
    BY <1>1, LocalsAre
  <2> QED BY <2>1, DeclaringIs
<1> QED BY <1>1, <1>2, <1>11, <1>13, <1>14 DEF IInv, State, DeclaringOK
-----------------------------------------------------------------------------
(* Declarations of classes.                                                *)
LEMMA ClassStep ==
  ASSUME IInv, Len(frames) = 1, HeapOK(classes', instances), Kept(classes, instances, classes', instances),
         instances' = instances, frames' = frames, failed' = failed, StackOK(classes', instances, stack'),
         \/ declaring' = 0
         \/ /\ declaring' = Len(classes') /\ declaring' \in DOMAIN classes'
            /\ Len(stack') > 1 /\ stack'[Len(stack')] = Class(declaring')
  PROVE  IInv'
<1>1. /\ HeapOK(classes, instances) /\ FramesOK(classes, instances, stack, frames)
      /\ stack[1] = Function(0, "script") /\ stack'[1] = Function(0, "script")
      /\ failed \in BOOLEAN
  BY LocalsAre DEF StackOK
<1>2. Base(frames, Len(frames)) = 1
  BY <1>1 DEF Base, FramesOK
<1>3. Len(stack') \in Nat /\ Len(stack') > 0
  BY StackIs
<1>4. \A i \in 1 .. Base(frames, Len(frames)) : stack'[i] = stack[i]
  BY <1>1, <1>2
<1>5. Agrees(stack', stack, Base(frames, Len(frames)))
  BY <1>2, <1>3, <1>4 DEF Agrees
<1>6. FramesOK(classes', instances, stack', frames)
  BY <1>1, <1>5, FramesStay
<1>7. DeclaringOK(classes', stack', frames', declaring')
  BY DEF DeclaringOK
<1> QED BY <1>1, <1>6, <1>7 DEF IInv, State

LEMMA ClassDeclared ==
  ASSUME IInv, op_class
  PROVE  IInv'
<1>1. /\ Len(stack) = 1 /\ classes' = Append(classes, Blank) /\ declaring' = Len(classes')
      /\ stack' = Append(stack, Class(declaring')) /\ instances' = instances /\ frames' = frames
      /\ failed' = failed
  BY DEF op_class, Declares, Blank
<1>2. /\ HeapOK(classes, instances) /\ StackOK(classes, instances, stack)
      /\ FramesOK(classes, instances, stack, frames) /\ Locals = Base(frames, Len(frames))
      /\ Locals <= Len(stack) /\ Len(frames) \in Nat /\ Len(frames) > 0 /\ Locals \in Nat
  BY LocalsAre
<1>3. /\ HeapOK(classes', instances) /\ Kept(classes, instances, classes', instances)
      /\ Len(classes') \in DOMAIN classes'
  BY <1>1, <1>2, ClassMade
<1>4. Len(frames) = 1
  <2>1. SUFFICES ASSUME Len(frames) # 1 PROVE FALSE
    OBVIOUS
  <2>2. 1 \in DOMAIN frames /\ Len(frames) \in DOMAIN frames /\ 1 < Len(frames)
    <3>1. DOMAIN frames = 1 .. Len(frames)
      BY <1>2, FramesAre
    <3> QED BY <1>2, <2>1, <3>1
  <2>3. Base(frames, 1) < frames[Len(frames)].slots /\ Base(frames, 1) = 1
    BY <1>2, <2>2 DEF FramesOK, Base
  <2>4. /\ frames[Len(frames)].slots \in Nat
        /\ frames[Len(frames)].slots <= Base(frames, Len(frames))
    BY <1>2, <2>2, FramesAre
  <2> QED BY <1>1, <1>2, <2>3, <2>4
<1>5. StackOK(classes', instances, stack) /\ ValueOK(classes', instances, Class(declaring'))
  BY <1>1, <1>2, <1>3, StackStays DEF ValueOK
<1>6. IsPushed(classes', instances, stack, Class(declaring'), stack')
  BY Zenon, <1>1, <1>3, <1>5, StackPushed
<1>7. StackOK(classes', instances, stack') /\ Len(stack') = 2 /\ stack'[Len(stack')] = Class(declaring')
  BY <1>1, <1>6 DEF IsPushed
<1>8. /\ declaring' = Len(classes') /\ declaring' \in DOMAIN classes'
      /\ Len(stack') > 1 /\ stack'[Len(stack')] = Class(declaring')
  BY <1>1, <1>3, <1>7
<1> QED BY <1>1, <1>3, <1>4, <1>7, <1>8, ClassStep

LEMMA ClassInherited ==
  ASSUME IInv, NEW v \in Variables, op_inherit(v)
  PROVE  IInv'
<1> DEFINE L == declaring
<1>1. L # 0 /\ classes[L] = Blank /\ v # Class(L)
  BY DEF op_inherit, Blank
<1>2. CASE v.type # "class"
  BY <1>2, FailureStep DEF op_inherit
<1>3. CASE v.type = "class"
  <2>1. PICK c \in DOMAIN classes : v = Class(c)
    BY <1>3 DEF Variables, Instance, Function
  <2>2. v.class = c /\ c # L
    BY <1>1, <2>1 DEF Class
  <2>3. /\ classes' = Sub(classes, L, [super |-> c, methods |-> hash_add_all(classes[c].methods, classes[L].methods)])
        /\ stack' = <<stack[1], v, Class(L)>> /\ declaring' = L /\ instances' = instances
        /\ frames' = frames /\ failed' = failed
    BY <1>3, <2>2 DEF op_inherit, Declares, Sub
  <2>4. /\ L = Len(classes) /\ L \in DOMAIN classes /\ Len(frames) = 1
        /\ HeapOK(classes, instances) /\ stack[1] = Function(0, "script")
    BY <1>1, DeclaringIs
  <2> HIDE DEF L
  <2>5. /\ HeapOK(classes', instances) /\ Kept(classes, instances, classes', instances)
        /\ Len(classes') = L
    BY <1>1, <2>2, <2>3, <2>4, Inherited
  <2>6. DOMAIN classes \subseteq DOMAIN classes'
    BY <2>5 DEF Kept, Supers
  <2>7. ValueOK(classes', instances, v) /\ ValueOK(classes', instances, Class(L))
    BY <2>1, <2>4, <2>6 DEF ValueOK
  <2>8. StackOK(classes', instances, stack') /\ Len(stack') = 3 /\ stack'[3] = Class(L)
    <3>1. v \in Val /\ Class(L) \in Val /\ stack[1] \in Val
      BY <2>4, <2>5, <2>7, ValueIs DEF Val
    <3>2. /\ stack' \in Seq(Val) /\ Len(stack') = 3 /\ stack'[1] = stack[1] /\ stack'[2] = v
          /\ stack'[3] = Class(L)
      BY <2>3, <3>1
    <3>3. stack' # <<>> /\ \A i \in 2 .. Len(stack') : i = 2 \/ i = 3
      BY <3>2, EmptySeq
    <3> QED BY <3>2, <3>3, <2>4, <2>7 DEF StackOK
  <2>9. /\ declaring' = Len(classes') /\ declaring' \in DOMAIN classes'
        /\ Len(stack') > 1 /\ stack'[Len(stack')] = Class(declaring')
    BY <2>3, <2>4, <2>5, <2>6, <2>8
  <2> QED BY <2>3, <2>4, <2>5, <2>8, <2>9, ClassStep
<1> QED BY <1>2, <1>3

LEMMA ClassMethod ==
  ASSUME IInv, NEW name \in Name, op_method(name)
  PROVE  IInv'
<1> DEFINE L == declaring
<1>1. /\ L # 0 /\ stack' = stack /\ declaring' = L /\ instances' = instances
      /\ frames' = frames /\ failed' = failed
      /\ classes' = [classes EXCEPT ![peek(0).class].methods =
                       hash_add_all([n \in {name} |-> Function(L, name)], @)]
  BY DEF op_method, define_method, Declares
<1>2. /\ L = Len(classes) /\ L \in DOMAIN classes /\ Len(frames) = 1
      /\ Len(stack) > 1 /\ stack[Len(stack)] = Class(L) /\ Len(stack) \in Nat
      /\ HeapOK(classes, instances) /\ StackOK(classes, instances, stack)
  BY <1>1, DeclaringIs
<1>3. peek(0).class = L
  <2>1. Len(stack) - 0 = Len(stack)
    BY <1>2
  <2> QED BY <1>2, <2>1 DEF peek, Class
<1>4. classes' = Defined(classes, L, name)
  BY <1>1, <1>3 DEF Defined
<1> HIDE DEF L
<1>5. /\ HeapOK(classes', instances) /\ Kept(classes, instances, classes', instances)
      /\ Len(classes') = L
  BY <1>2, <1>4, MethodDefined
<1>6. StackOK(classes', instances, stack') /\ DOMAIN classes \subseteq DOMAIN classes'
  BY <1>1, <1>2, <1>5, StackStays DEF Kept, Supers
<1>7. /\ declaring' = Len(classes') /\ declaring' \in DOMAIN classes'
      /\ Len(stack') > 1 /\ stack'[Len(stack')] = Class(declaring')
  BY <1>1, <1>2, <1>5, <1>6
<1> QED BY <1>1, <1>2, <1>5, <1>6, <1>7, ClassStep

LEMMA ClassEnded ==
  ASSUME IInv, end_class
  PROVE  IInv'
<1>1. /\ declaring # 0 /\ declaring' = 0 /\ stack' = <<stack[1]>> /\ classes' = classes
      /\ instances' = instances /\ frames' = frames /\ failed' = failed
  BY DEF end_class
<1>2. /\ Len(frames) = 1 /\ HeapOK(classes, instances) /\ stack[1] = Function(0, "script")
  BY <1>1, DeclaringIs
<1>3. StackOK(classes', instances, stack')
  <2>1. stack[1] \in Val
    BY <1>2 DEF Val
  <2>2. stack' \in Seq(Val) /\ Len(stack') = 1 /\ stack'[1] = stack[1]
    BY <1>1, <2>1
  <2>3. stack' # <<>>
    BY <1>1
  <2>4. \A i \in 2 .. Len(stack') : FALSE
    BY <2>2
  <2> QED BY <2>2, <2>3, <2>4, <1>2 DEF StackOK
<1>4. Kept(classes, instances, classes', instances)
  BY <1>1, Same
<1> QED BY <1>1, <1>2, <1>3, <1>4, ClassStep
-----------------------------------------------------------------------------
(* The invariant.                                                          *)
LEMMA InitInv == Init => IInv
<1> SUFFICES ASSUME Init PROVE IInv
  OBVIOUS
<1> DEFINE f == [code |-> Function(0, "script"), slots |-> 1]
<1>1. /\ classes = <<>> /\ instances = <<>> /\ stack = <<Function(0, "script")>>
      /\ frames = <<f>> /\ declaring = 0 /\ failed = FALSE
  BY DEF Init
<1>2. HeapOK(classes, instances)
  <2>1. DOMAIN classes = {} /\ DOMAIN instances = {}
    BY <1>1, EmptyTable
  <2>2. classes \in Seq(ClassSet) /\ instances \in Seq(InstanceSet)
    BY <1>1
  <2> QED BY <2>1, <2>2 DEF HeapOK
<1>3. StackOK(classes, instances, stack)
  <2>1. Function(0, "script") \in Val
    BY DEF Val
  <2>2. /\ stack \in Seq(Val) /\ Len(stack) = 1 /\ stack # <<>>
        /\ stack[1] = Function(0, "script")
    BY <1>1, <2>1
  <2>3. \A i \in 2 .. Len(stack) : FALSE
    BY <2>2
  <2> QED BY <2>2, <2>3 DEF StackOK
<1>4. FramesOK(classes, instances, stack, frames)
  <2>1. Function(0, "script") \in {Function(h, n) : h \in Nat, n \in Name \cup {"script"}}
    OBVIOUS
  <2>2. f \in FrameSet /\ f.slots = 1
    BY <2>1 DEF FrameSet
  <2>3. frames[1] = f
    BY <1>1
  <2> HIDE DEF f
  <2>4. frames \in Seq(FrameSet) /\ Len(frames) = 1 /\ DOMAIN frames = {1}
    BY <1>1, <2>2
  <2>5. \A k \in 2 .. Len(frames) : FALSE
    BY <2>4
  <2>6. Base(frames, Len(frames)) <= Len(stack)
    BY <1>1, <2>2, <2>3, <2>4 DEF Base
  <2>7. \A j, k \in DOMAIN frames : j < k => Base(frames, j) < frames[k].slots
    BY <2>4
  <2> QED BY <2>3, <2>4, <2>5, <2>6, <2>7, DispatchAssumption DEF FramesOK, f
<1> QED BY <1>1, <1>2, <1>3, <1>4 DEF IInv, State, DeclaringOK

LEMMA NextInv == IInv /\ [Next]_vars => IInv'
<1> SUFFICES ASSUME IInv, [Next]_vars PROVE IInv'
  OBVIOUS
<1>1. CASE UNCHANGED vars
  BY <1>1 DEF vars, IInv
<1>2. CASE Next
  <2>1. ASSUME NEW v \in Variables, op_get_global(v) PROVE IInv'
    BY <2>1, VariableGot
  <2>2. ASSUME NEW v \in Variables, op_inherit(v) PROVE IInv'
    BY <2>2, ClassInherited
  <2>3. ASSUME NEW i \in DOMAIN stack, op_get_local(i) PROVE IInv'
    BY <2>3, LocalGot
  <2>4. ASSUME op_pop PROVE IInv'
    BY <2>4, PopStep
  <2>5. ASSUME NEW name \in Name, op_get_property(name) PROVE IInv'
    <3>1. Gets(name, Popped(1)) /\ Temporaries(1) /\ 1 \in Nat
      BY <2>5 DEF op_get_property, Gets
    <3>2. Rest(Popped(1))
      BY <3>1, PoppedIs
    <3> QED BY <3>1, <3>2, PropertyGot
  <2>6. ASSUME NEW name \in Name, op_get_property_no_pop(name) PROVE IInv'
    BY <2>6, Whole, PropertyGot DEF op_get_property_no_pop
  <2>7. ASSUME NEW name \in Name, op_set_property(name) PROVE IInv'
    BY <2>7, PropertySet
  <2>8. ASSUME NEW name \in Name, op_get_super(name) PROVE IInv'
    BY <2>8, SuperGot
  <2>9. ASSUME NEW name \in Name, op_method(name) PROVE IInv'
    BY <2>9, ClassMethod
  <2>10. ASSUME NEW n \in Nat, op_call(n) PROVE IInv'
    <3>1. Temporaries(1 + n) /\ call_value(peek(n), n, stack)
      BY <2>10 DEF op_call
    <3>2. 1 + n \in Nat /\ n \in 0 .. (1 + n) - 1
      OBVIOUS
    <3>3. ValueOK(classes, instances, peek(n)) /\ StackOK(classes, instances, stack)
      BY <3>1, <3>2, TemporariesAre, LocalsAre
    <3> QED BY <3>1, <3>3, ValueCalled
  <2>11. ASSUME NEW n \in Nat, NEW name \in Name, op_invoke(name, n) PROVE IInv'
    BY <2>11, InvokeStep DEF op_invoke
  <2>12. ASSUME NEW n \in Nat, NEW name \in Name, op_super_invoke(name, n) PROVE IInv'
    BY <2>12, SuperInvoked
  <2>13. ASSUME op_return PROVE IInv'
    BY <2>13, ReturnStep
  <2>14. ASSUME op_class PROVE IInv'
    BY <2>14, ClassDeclared
  <2>15. ASSUME end_class PROVE IInv'
    BY <2>15, ClassEnded
  <2>16. ArgCount \subseteq Nat
    BY DispatchAssumption DEF ArgCount
  <2> QED BY <1>2, <2>1, <2>2, <2>3, <2>4, <2>5, <2>6, <2>7, <2>8, <2>9, <2>10, <2>11, <2>12,
             <2>13, <2>14, <2>15, <2>16 DEF Next
<1> QED BY <1>1, <1>2

(* The objects, the stack and the frames are what IInv says.               *)
THEOREM DispatchInvariant == Spec => []IInv
<1>1. Init => IInv
  BY InitInv
<1>2. IInv /\ [Next]_vars => IInv'
  BY NextInv
<1> QED BY <1>1, <1>2, PTL DEF Spec

LEMMA SelfIs == IInv => SelfDescends
<1> SUFFICES ASSUME IInv PROVE SelfDescends
  OBVIOUS
<1>1. /\ HeapOK(classes, instances) /\ FramesOK(classes, instances, stack, frames)
      /\ failed \in BOOLEAN
  BY DEF IInv, State
<1>2. /\ Len(classes) \in Nat /\ DOMAIN classes = 1 .. Len(classes) /\ Ordered(classes)
      /\ \A i \in DOMAIN instances : instances[i].klass \in DOMAIN classes
  BY <1>1, HeapIs
<1>3. ASSUME NEW c \in DOMAIN classes, NEW n \in DOMAIN classes[c].methods
      PROVE  classes[c].methods[n] \in {Function(h, n) : h \in 1 .. c}
  <2>1. classes[c].methods[n] = Function(classes[c].methods[n].home, n)
        /\ classes[c].methods[n].home \in AboveIn(classes, c)
    BY <1>1, MethodIs
  <2>2. classes[c].methods[n].home \in 1 .. c
    BY <1>2, <2>1, AboveBelow
  <2> QED BY <2>1, <2>2
<1>4. declaring \in 0 .. Len(classes)
  <2>1. declaring # 0 => declaring = Len(classes)
    BY DeclaringIs
  <2> QED BY <1>2, <2>1
<1>5. Len(frames) \in 1 .. FRAMES_MAX /\ Len(stack) >= Locals
  BY LocalsAre
<1>6. ASSUME NEW k \in 2 .. Len(frames) PROVE frames[k].slots > frames[k - 1].slots
  <2>1. k \in DOMAIN frames /\ k - 1 \in DOMAIN frames /\ k - 1 < k
    BY <1>1, FramesAre
  <2>2. Base(frames, k - 1) < frames[k].slots
    BY <1>1, <2>1 DEF FramesOK
  <2>3. /\ frames[k - 1].slots \in Nat /\ frames[k].slots \in Nat /\ Base(frames, k - 1) \in Nat
        /\ frames[k - 1].slots <= Base(frames, k - 1)
    BY <1>1, <2>1, FramesAre
  <2> QED BY <2>2, <2>3
<1>7. TypeOK
  BY <1>1, <1>2, <1>3, <1>4, <1>5, <1>6 DEF TypeOK, Ordered
<1>8. ASSUME NEW k \in DOMAIN frames, frames[k].code.home # 0
      PROVE  /\ stack[frames[k].slots].type = "instance"
             /\ frames[k].code.home \in Above(instances[stack[frames[k].slots].instance].klass)
  <2>1. k \in 2 .. Len(frames)
    <3>1. DOMAIN frames = 1 .. Len(frames) /\ Len(frames) \in Nat
      BY <1>1, FramesAre
    <3>2. k # 1
      BY <1>1, <1>8 DEF FramesOK, Function
    <3> QED BY <3>1, <3>2
  <2>2. FrameOK(classes, instances, stack, frames[k])
    BY <1>1, <2>1 DEF FramesOK
  <2>3. PICK i \in DOMAIN instances :
          stack[frames[k].slots] = Instance(i) /\ MethodOf(classes, instances, i, frames[k].code)
    BY <1>8, <2>2 DEF FrameOK
  <2>4. stack[frames[k].slots].type = "instance" /\ stack[frames[k].slots].instance = i
    BY <2>3 DEF Instance
  <2>5. frames[k].code.home \in AboveIn(classes, instances[i].klass)
    BY <2>3 DEF MethodOf
  <2>6. frames[k].code.home \in Above(instances[i].klass)
    BY <2>5 DEF AboveIn, Above, Upwards
  <2> QED BY <2>4, <2>6
<1> QED BY <1>7, <1>8 DEF SelfDescends

(* However a method was reached, by name, through a field, bound before, by*)
(* super or as an initializer, its self is an object of a class below the  *)
(* one that declares it; windows lie one above the other.                  *)
THEOREM SelfIsRight == Spec => []SelfDescends
<1>1. Spec => []IInv
  BY DispatchInvariant
<1>2. IInv => SelfDescends
  BY SelfIs
<1> QED BY <1>1, <1>2, PTL
-----------------------------------------------------------------------------
(* What Objects sees: the method table of a class has, of each name, the   *)
(* method of the nearest class that declares it.                           *)

LEMMA MapIs ==
  ASSUME NEW n \in Nat, NEW f, f = [i \in 1 .. n |-> f[i]]
  PROVE  f \in Seq({f[i] : i \in 1 .. n}) /\ Len(f) = n /\ DOMAIN f = 1 .. n
<1> DEFINE S == {f[i] : i \in 1 .. n}
<1>1. f \in [1 .. n -> S]
  OBVIOUS
<1> HIDE DEF S
<1>2. f \in Seq(S)
  BY <1>1, SeqDef
<1>3. Len(f) = n /\ DOMAIN f = 1 .. n
  BY <1>1, <1>2, LenProperties
<1> QED BY <1>2, <1>3 DEF S

LEMMA ClassesAre ==
  ASSUME NEW cs, NEW is, HeapOK(cs, is)
  PROVE  /\ Len(ClassesOf(cs)) = Len(cs) /\ DOMAIN ClassesOf(cs) = 1 .. Len(cs)
         /\ Len(cs) \in Nat /\ DOMAIN cs = 1 .. Len(cs)
         /\ \A c \in DOMAIN cs :
              ClassesOf(cs)[c] = [super |-> cs[c].super,
                                  declares |-> {n \in DOMAIN cs[c].methods : cs[c].methods[n].home = c}]
<1> DEFINE f == ClassesOf(cs)
<1>1. Len(cs) \in Nat /\ DOMAIN cs = 1 .. Len(cs)
  BY HeapIs
<1>2. \A c \in DOMAIN cs :
        f[c] = [super |-> cs[c].super,
                declares |-> {n \in DOMAIN cs[c].methods : cs[c].methods[n].home = c}]
  BY DEF ClassesOf
<1>3. f = [c \in 1 .. Len(cs) |-> f[c]]
  BY <1>1 DEF ClassesOf
<1> HIDE DEF f
<1>4. Len(f) = Len(cs) /\ DOMAIN f = 1 .. Len(cs)
  BY <1>1, <1>3, MapIs
<1> QED BY <1>1, <1>2, <1>4 DEF f

Nearest(cs, c, name) ==
  IF c # 0 /\ name \in DOMAIN cs[c].methods THEN cs[c].methods[name].home ELSE 0

Declares0(cs, c, name) == c = 0 \/ name \in ClassesOf(cs)[c].declares

(* f is the definition of Declarer.                                        *)
Declarers(cs, name, f) ==
  f = [c \in 0 .. Len(ClassesOf(cs)) |->
         IF Declares0(cs, c, name) THEN c ELSE f[ClassesOf(cs)[c].super]]

LEMMA DeclaresIs ==
  ASSUME NEW cs, NEW is, HeapOK(cs, is), NEW c \in DOMAIN cs, NEW name
  PROVE  /\ ClassesOf(cs)[c].super = cs[c].super /\ c # 0
         /\ Declares0(cs, c, name) <=> name \in DOMAIN cs[c].methods /\ cs[c].methods[name].home = c
<1>1. c # 0
  BY HeapIs
<1>2. ClassesOf(cs)[c] = [super |-> cs[c].super,
                          declares |-> {n \in DOMAIN cs[c].methods : cs[c].methods[n].home = c}]
  BY ClassesAre
<1>3. /\ ClassesOf(cs)[c].super = cs[c].super
      /\ ClassesOf(cs)[c].declares = {n \in DOMAIN cs[c].methods : cs[c].methods[n].home = c}
  BY <1>2
<1> QED BY <1>1, <1>3 DEF Declares0

LEMMA NearestStep ==
  ASSUME NEW cs, NEW is, HeapOK(cs, is), NEW c \in 0 .. Len(cs), NEW name
  PROVE  /\ Declares0(cs, c, name) => Nearest(cs, c, name) = c
         /\ ~Declares0(cs, c, name) =>
              /\ c # 0 /\ ClassesOf(cs)[c].super \in 0 .. c - 1
              /\ Nearest(cs, c, name) = Nearest(cs, ClassesOf(cs)[c].super, name)
<1>1. DOMAIN cs = 1 .. Len(cs) /\ Len(cs) \in Nat
  BY HeapIs
<1>2. CASE c = 0
  BY <1>2 DEF Declares0, Nearest
<1>3. CASE c # 0
  <2>1. c \in DOMAIN cs /\ ClassOK(cs, c)
    BY <1>1, <1>3 DEF HeapOK
  <2>2. /\ ClassesOf(cs)[c].super = cs[c].super
        /\ Declares0(cs, c, name) <=> name \in DOMAIN cs[c].methods /\ cs[c].methods[name].home = c
    BY <2>1, DeclaresIs
  <2>3. CASE Declares0(cs, c, name)
    BY <2>2, <2>3, <1>3 DEF Nearest
  <2>4. CASE ~Declares0(cs, c, name)
    <3> DEFINE s == cs[c].super
    <3>1. s \in 0 .. c - 1
      BY <2>1 DEF ClassOK
    <3>2. CASE name \notin DOMAIN cs[c].methods
      <4>1. s # 0 => name \notin DOMAIN cs[s].methods
        BY <2>1, <3>2 DEF ClassOK
      <4> QED BY <2>2, <3>1, <3>2, <4>1, <1>3, <2>4 DEF Nearest
    <3>3. CASE name \in DOMAIN cs[c].methods
      <4>1. cs[c].methods[name].home # c
        BY <2>2, <2>4, <3>3
      <4>2. /\ s # 0 /\ name \in DOMAIN cs[s].methods
            /\ cs[c].methods[name] = cs[s].methods[name]
        BY <2>1, <3>3, <4>1 DEF ClassOK
      <4> QED BY <2>2, <3>1, <3>3, <4>2, <1>3, <2>4 DEF Nearest
    <3> QED BY <3>2, <3>3
  <2> QED BY <2>3, <2>4
<1> QED BY <1>2, <1>3

LEMMA LeastElement ==
  ASSUME NEW S \in SUBSET Nat, S # {}
  PROVE  \E d \in S : \A e \in S : d <= e
<1> DEFINE R == {ss \in Nat \X Nat : ss[1] < ss[2]}
<1>1. IsWellFoundedOn(R, Nat)
  BY NatLessThanWellFounded DEF OpToRel
<1> HIDE DEF R
<1>2. PICK d \in S : \A e \in S : ~(<<e, d>> \in R)
  BY <1>1, WFMin
<1>3. ASSUME NEW e \in S PROVE d <= e
  <2>1. d \in Nat /\ e \in Nat
    OBVIOUS
  <2>2. e < d => <<e, d>> \in R
    BY <2>1 DEF R
  <2> QED BY <1>2, <2>1, <2>2
<1> QED BY <1>3

(* The recursion has one solution.                                         *)
LEMMA OneDeclarers ==
  ASSUME NEW cs, NEW is, HeapOK(cs, is), NEW name, NEW f, Declarers(cs, name, f), NEW c \in 0 .. Len(cs)
  PROVE  f[c] = Nearest(cs, c, name)
<1> DEFINE Bad == {d \in 0 .. Len(cs) : f[d] # Nearest(cs, d, name)}
<1>1. SUFFICES Bad = {}
  OBVIOUS
<1>2. SUFFICES ASSUME Bad # {} PROVE FALSE
  OBVIOUS
<1>3. Len(cs) \in Nat /\ Len(ClassesOf(cs)) = Len(cs)
  BY ClassesAre
<1>4. Bad \in SUBSET Nat
  BY <1>3
<1> HIDE DEF Bad
<1>5. PICK d \in Bad : \A e \in Bad : d <= e
  BY <1>2, <1>4, LeastElement
<1>6. d \in 0 .. Len(cs) /\ f[d] # Nearest(cs, d, name)
  BY DEF Bad
<1>7. f[d] = IF Declares0(cs, d, name) THEN d ELSE f[ClassesOf(cs)[d].super]
  BY <1>3, <1>6 DEF Declarers
<1>8. ~Declares0(cs, d, name)
  BY <1>6, <1>7, NearestStep
<1> DEFINE s == ClassesOf(cs)[d].super
<1>9. s \in 0 .. d - 1 /\ Nearest(cs, d, name) = Nearest(cs, s, name)
  BY <1>6, <1>8, NearestStep
<1>10. s \in Bad
  BY <1>3, <1>6, <1>7, <1>8, <1>9 DEF Bad
<1>11. d <= s
  BY <1>5, <1>10
<1> QED BY <1>3, <1>6, <1>9, <1>11

LEMMA SomeDeclarers ==
  ASSUME NEW cs, NEW is, HeapOK(cs, is), NEW name
  PROVE  \E f : Declarers(cs, name, f)
<1> DEFINE D == 0 .. Len(ClassesOf(cs))
           f == [c \in D |-> Nearest(cs, c, name)]
           g == [c \in D |-> IF Declares0(cs, c, name) THEN c ELSE f[ClassesOf(cs)[c].super]]
<1>1. Len(cs) \in Nat /\ Len(ClassesOf(cs)) = Len(cs)
  BY ClassesAre
<1>2. ASSUME NEW c \in D
      PROVE  f[c] = IF Declares0(cs, c, name) THEN c ELSE f[ClassesOf(cs)[c].super]
  <2>1. c \in 0 .. Len(cs)
    BY <1>1
  <2>2. CASE Declares0(cs, c, name)
    BY <2>1, <2>2, NearestStep
  <2>3. CASE ~Declares0(cs, c, name)
    <3> DEFINE s == ClassesOf(cs)[c].super
    <3>1. s \in 0 .. c - 1 /\ Nearest(cs, c, name) = Nearest(cs, s, name)
      BY <2>1, <2>3, NearestStep
    <3>2. s \in D
      BY <2>1, <3>1, <1>1
    <3> QED BY <2>3, <3>1, <3>2
  <2> QED BY <2>2, <2>3
<1>3. f = g
  BY <1>2
<1> QED BY <1>3 DEF Declarers

LEMMA DeclarerIs ==
  ASSUME HeapOK(classes, instances), NEW c \in 0 .. Len(classes), NEW name
  PROVE  Objects!Declarer(c, name) = Nearest(classes, c, name)
<1>1. Objects!Declarer(c, name) = (CHOOSE f : Declarers(classes, name, f))[c]
  BY DEF Objects!Declarer, Declarers, Declares0
<1>2. Declarers(classes, name, CHOOSE f : Declarers(classes, name, f))
  BY SomeDeclarers
<1> QED BY <1>1, <1>2, OneDeclarers
-----------------------------------------------------------------------------
(* The running functions.                                                  *)

IsMap(n, f) == f = [i \in 1 .. n |-> f[i]]

LEMMA MapAppended ==
  ASSUME NEW n \in Nat, NEW f, IsMap(n, f), NEW g, IsMap(n + 1, g), \A i \in 1 .. n : g[i] = f[i],
         NEW v, g[n + 1] = v
  PROVE  g = Append(f, v)
<1> DEFINE S == {f[i] : i \in 1 .. n} \cup {v}
<1>1. f \in [1 .. n -> S]
  BY DEF IsMap
<1>2. g \in [1 .. n + 1 -> S]
  <2>1. \A i \in 1 .. n + 1 : i \in 1 .. n \/ i = n + 1
    OBVIOUS
  <2>2. \A i \in 1 .. n + 1 : g[i] \in S
    BY <2>1
  <2> HIDE DEF S
  <2> QED BY <2>2 DEF IsMap
<1>3. v \in S
  OBVIOUS
<1> HIDE DEF S
<1>4. f \in Seq(S) /\ g \in Seq(S) /\ n + 1 \in Nat
  BY <1>1, <1>2, SeqDef
<1>5. Len(f) = n /\ Len(g) = n + 1
  BY <1>1, <1>2, <1>4, LenProperties
<1>6. /\ Append(f, v) \in Seq(S) /\ Len(Append(f, v)) = n + 1 /\ Append(f, v)[n + 1] = v
      /\ \A i \in 1 .. n : Append(f, v)[i] = f[i]
  BY <1>3, <1>4, <1>5, Appended
<1>7. \A i \in 1 .. Len(g) : g[i] = Append(f, v)[i]
  <2>1. \A i \in 1 .. Len(g) : i \in 1 .. n \/ i = n + 1
    BY <1>5
  <2> QED BY <2>1, <1>6
<1> QED BY <1>4, <1>5, <1>6, <1>7, SeqEqual

LEMMA MapCut ==
  ASSUME NEW n \in Nat, NEW f, IsMap(n + 1, f), NEW g, IsMap(n, g), \A i \in 1 .. n : g[i] = f[i]
  PROVE  g = SubSeq(f, 1, n)
<1> DEFINE S == {f[i] : i \in 1 .. n + 1}
<1>1. f \in [1 .. n + 1 -> S]
  BY DEF IsMap
<1>2. g \in [1 .. n -> S]
  <2>1. \A i \in 1 .. n : i \in 1 .. n + 1
    OBVIOUS
  <2>2. \A i \in 1 .. n : g[i] \in S
    BY <2>1
  <2> HIDE DEF S
  <2> QED BY <2>2 DEF IsMap
<1> HIDE DEF S
<1>3. f \in Seq(S) /\ g \in Seq(S) /\ n + 1 \in Nat
  BY <1>1, <1>2, SeqDef
<1>4. Len(f) = n + 1 /\ Len(g) = n
  BY <1>1, <1>2, <1>3, LenProperties
<1>5. n <= Len(f)
  BY <1>4
<1>6. /\ SubSeq(f, 1, n) \in Seq(S) /\ Len(SubSeq(f, 1, n)) = n
      /\ \A i \in 1 .. n : SubSeq(f, 1, n)[i] = f[i]
  BY <1>3, <1>5, CutTo
<1> QED BY <1>3, <1>4, <1>6, SeqEqual

(* Parts of two stacks that agree.                                         *)
LEMMA PartsAgree ==
  ASSUME NEW S, NEW s \in Seq(S), NEW t \in Seq(S), NEW m \in Nat \ {0}, NEW n \in Nat,
         n <= Len(s), n <= Len(t), \A i \in m .. n : s[i] = t[i]
  PROVE  SubSeq(s, m, n) = SubSeq(t, m, n) /\ Len(SubSeq(s, m, n)) = IF m <= n THEN n - m + 1 ELSE 0
<1>1. \A i \in m .. n : i \in 1 .. Len(s) /\ i \in 1 .. Len(t)
  BY SeqIs
<1>2. \A i \in m .. n : s[i] \in S /\ t[i] \in S
  BY <1>1, SeqIs
<1>3. /\ SubSeq(s, m, n) \in Seq(S) /\ Len(SubSeq(s, m, n)) = IF m <= n THEN n - m + 1 ELSE 0
      /\ \A i \in 1 .. n - m + 1 : SubSeq(s, m, n)[i] = s[m + i - 1]
  BY <1>2, SubSeqProperties
<1>4. /\ SubSeq(t, m, n) \in Seq(S) /\ Len(SubSeq(t, m, n)) = IF m <= n THEN n - m + 1 ELSE 0
      /\ \A i \in 1 .. n - m + 1 : SubSeq(t, m, n)[i] = t[m + i - 1]
  BY <1>2, SubSeqProperties
<1>5. \A i \in 1 .. Len(SubSeq(s, m, n)) : SubSeq(s, m, n)[i] = SubSeq(t, m, n)[i]
  <2>1. \A i \in 1 .. Len(SubSeq(s, m, n)) : i \in 1 .. n - m + 1 /\ m + i - 1 \in m .. n
    BY <1>3
  <2> QED BY <2>1, <1>3, <1>4
<1>6. SubSeq(s, m, n) = SubSeq(t, m, n)
  BY <1>3, <1>4, <1>5, SeqEqual
<1> QED BY <1>3, <1>6

View(st, fs, k) ==
  [self |-> st[fs[k].slots], code |-> fs[k].code,
   args |-> IF k = 1 THEN <<>> ELSE SubSeq(st, fs[k].slots + 1, fs[k].slots + Arity[fs[k].code.name])]

LEMMA ActiveIs ==
  ASSUME NEW st, NEW fs, NEW n \in Nat, DOMAIN fs = 1 .. n
  PROVE  /\ IsMap(n, ActiveOf(st, fs)) /\ Len(ActiveOf(st, fs)) = n
         /\ \A k \in 1 .. n : ActiveOf(st, fs)[k] = View(st, fs, k)
<1> DEFINE f == ActiveOf(st, fs)
<1>1. IsMap(n, f) /\ \A k \in 1 .. n : f[k] = View(st, fs, k)
  BY DEF ActiveOf, View, IsMap
<1> HIDE DEF f
<1>2. Len(f) = n
  BY <1>1, MapIs DEF IsMap
<1> QED BY <1>1, <1>2 DEF f

LEMMA ViewStays ==
  ASSUME NEW cs, NEW is, NEW st \in Seq(Val), NEW fs, FramesOK(cs, is, st, fs), NEW k \in DOMAIN fs,
         NEW s \in Seq(Val), Agrees(s, st, Base(fs, k)), NEW gs, gs[k] = fs[k]
  PROVE  View(s, gs, k) = View(st, fs, k)
<1> DEFINE m == fs[k].slots
           a == Arity[fs[k].code.name]
<1>1. /\ m \in Nat /\ m > 0 /\ m <= Base(fs, k) /\ Base(fs, k) \in Nat
      /\ Base(fs, k) <= Base(fs, Len(fs)) /\ Base(fs, Len(fs)) <= Len(st)
  BY FramesAre DEF FramesOK
<1>2. Len(st) \in Nat /\ Len(s) \in Nat /\ Base(fs, Len(fs)) \in Nat
  BY SeqIs, FramesAre
<1>3. m \in 1 .. Base(fs, k)
  BY <1>1
<1>4. s[m] = st[m]
  BY <1>3 DEF Agrees
<1>5. CASE k = 1
  BY <1>4, <1>5 DEF View
<1>6. CASE k # 1
  <2>1. k \in 2 .. Len(fs)
    BY <1>6, FramesAre
  <2>2. a \in Nat
    BY <2>1, FunctionIs DEF FramesOK
  <2>3. Base(fs, k) = m + a
    BY <1>6 DEF Base
  <2>4. m + 1 \in Nat \ {0} /\ m + a \in Nat /\ m + a <= Len(st) /\ m + a <= Len(s)
    BY <1>1, <1>2, <2>2, <2>3 DEF Agrees
  <2>5. \A i \in m + 1 .. m + a : i \in 1 .. Base(fs, k)
    BY <1>1, <2>2, <2>3
  <2>6. \A i \in m + 1 .. m + a : s[i] = st[i]
    BY <2>5 DEF Agrees
  <2> HIDE DEF m, a
  <2>7. SubSeq(s, m + 1, m + a) = SubSeq(st, m + 1, m + a)
    BY <2>4, <2>6, PartsAgree
  <2> QED BY <1>4, <2>7 DEF View, m, a
<1> QED BY <1>5, <1>6

LEMMA AgreesBelow ==
  ASSUME NEW n \in Nat, NEW s, NEW st, Agrees(s, st, n), Len(s) \in Nat, NEW m \in Nat, m <= n
  PROVE  Agrees(s, st, m)
BY DEF Agrees

LEMMA ActiveStays ==
  ASSUME NEW cs, NEW is, NEW st \in Seq(Val), NEW fs, FramesOK(cs, is, st, fs),
         NEW s \in Seq(Val), Agrees(s, st, Base(fs, Len(fs)))
  PROVE  ActiveOf(s, fs) = ActiveOf(st, fs)
<1>1. ASSUME NEW k \in DOMAIN fs PROVE View(s, fs, k) = View(st, fs, k)
  <2>1. /\ Base(fs, k) \in Nat /\ Base(fs, k) <= Base(fs, Len(fs)) /\ Len(fs) \in DOMAIN fs
    BY FramesAre
  <2>2. Base(fs, Len(fs)) \in Nat /\ Len(s) \in Nat
    BY <2>1, FramesAre, SeqIs
  <2>3. Agrees(s, st, Base(fs, k))
    BY <2>1, <2>2, AgreesBelow
  <2> QED BY <2>3, ViewStays
<1>2. Len(fs) \in Nat /\ DOMAIN fs = 1 .. Len(fs)
  BY FramesAre
<1> DEFINE A == ActiveOf(s, fs)
           B == ActiveOf(st, fs)
<1>3. IsMap(Len(fs), A) /\ \A k \in 1 .. Len(fs) : A[k] = View(s, fs, k)
  BY <1>2, ActiveIs
<1>4. IsMap(Len(fs), B) /\ \A k \in 1 .. Len(fs) : B[k] = View(st, fs, k)
  BY <1>2, ActiveIs
<1> HIDE DEF A, B
<1>5. \A k \in 1 .. Len(fs) : A[k] = B[k]
  BY <1>1, <1>2, <1>3, <1>4
<1>6. A = B
  BY <1>3, <1>4, <1>5 DEF IsMap
<1> QED BY <1>6 DEF A, B

SameFrames(gs, fs, n) == \A k \in 1 .. n : gs[k] = fs[k]
SameViews(s, gs, st, fs, n) == \A k \in 1 .. n : View(s, gs, k) = View(st, fs, k)

LEMMA ViewsStay ==
  ASSUME NEW cs, NEW is, NEW st \in Seq(Val), NEW fs, FramesOK(cs, is, st, fs),
         NEW s \in Seq(Val), Agrees(s, st, Base(fs, Len(fs))), NEW gs, SameFrames(gs, fs, Len(fs))
  PROVE  SameViews(s, gs, st, fs, Len(fs))
<1>1. ASSUME NEW k \in 1 .. Len(fs) PROVE View(s, gs, k) = View(st, fs, k)
  <2>1. k \in DOMAIN fs /\ gs[k] = fs[k]
    BY FramesAre DEF SameFrames
  <2>2. /\ Base(fs, k) \in Nat /\ Base(fs, k) <= Base(fs, Len(fs)) /\ Len(fs) \in DOMAIN fs
    BY <2>1, FramesAre
  <2>3. Base(fs, Len(fs)) \in Nat /\ Len(s) \in Nat
    BY <2>2, FramesAre, SeqIs
  <2>4. Agrees(s, st, Base(fs, k))
    BY <2>2, <2>3, AgreesBelow
  <2> QED BY <2>1, <2>4, ViewStays
<1> QED BY <1>1 DEF SameViews

NewView(s, f) ==
  [self |-> s[f.slots], code |-> f.code,
   args |-> SubSeq(s, f.slots + 1, f.slots + Arity[f.code.name])]

Called(st, fs, s, f) == ActiveOf(s, Append(fs, f)) = Append(ActiveOf(st, fs), NewView(s, f))

LEMMA ActiveCalled ==
  ASSUME NEW cs, NEW is, NEW st \in Seq(Val), NEW fs, FramesOK(cs, is, st, fs),
         NEW s \in Seq(Val), Agrees(s, st, Base(fs, Len(fs))), NEW f \in FrameSet
  PROVE  Called(st, fs, s, f)
<1> DEFINE n == Len(fs)
           gs == Append(fs, f)
           v == NewView(s, f)
           A == ActiveOf(s, gs)
           B == ActiveOf(st, fs)
<1>1. fs \in Seq(FrameSet) /\ n \in Nat /\ n > 0 /\ DOMAIN fs = 1 .. n
  BY FramesAre
<1>2. DOMAIN gs = 1 .. n + 1 /\ gs[n + 1] = f /\ (\A i \in 1 .. n : gs[i] = fs[i]) /\ n + 1 \in Nat
  BY <1>1, Appended
<1> HIDE DEF gs
<1>3. IsMap(n + 1, A) /\ \A k \in 1 .. n + 1 : A[k] = View(s, gs, k)
  BY <1>2, ActiveIs
<1>4. IsMap(n, B) /\ \A k \in 1 .. n : B[k] = View(st, fs, k)
  BY <1>1, ActiveIs
<1> HIDE DEF A, B, v
<1>5. SameViews(s, gs, st, fs, n)
  <2>1. SameFrames(gs, fs, n)
    BY <1>2 DEF SameFrames
  <2> QED BY <2>1, ViewsStay
<1>6. View(s, gs, n + 1) = v
  <2>1. n + 1 # 1
    BY <1>1
  <2> HIDE DEF n
  <2> QED BY <2>1, <1>2 DEF View, v, NewView
<1>7. n + 1 \in 1 .. n + 1 /\ \A k \in 1 .. n : k \in 1 .. n + 1
  BY <1>1
<1> HIDE DEF n
<1>8. A[n + 1] = v /\ \A k \in 1 .. n : A[k] = B[k]
  BY <1>3, <1>4, <1>5, <1>6, <1>7 DEF SameViews
<1>9. A = Append(B, v)
  BY <1>1, <1>3, <1>4, <1>8, MapAppended
<1> QED BY <1>9 DEF A, B, v, gs, Called

IsFront(gs, fs) == gs = SubSeq(fs, 1, Len(fs) - 1)
Returned(st, fs, s, gs) == ActiveOf(s, gs) = SubSeq(ActiveOf(st, fs), 1, Len(fs) - 1)

LEMMA ActiveReturned ==
  ASSUME NEW cs, NEW is, NEW st \in Seq(Val), NEW fs, FramesOK(cs, is, st, fs), Len(fs) > 1,
         NEW gs, IsFront(gs, fs), NEW s \in Seq(Val), Agrees(s, st, Base(gs, Len(gs)))
  PROVE  Returned(st, fs, s, gs)
<1> DEFINE n == Len(fs) - 1
           A == ActiveOf(s, gs)
           B == ActiveOf(st, fs)
<1>1. Len(st) \in Nat /\ Len(s) \in Nat
  BY SeqIs
<1>2. FramesOK(cs, is, st, gs)
  <2>1. gs = SubSeq(fs, 1, Len(fs) - 1)
    BY DEF IsFront
  <2> QED BY <1>1, <2>1, FramesReturned
<1>3. fs \in Seq(FrameSet) /\ n \in Nat /\ DOMAIN fs = 1 .. n + 1 /\ n + 1 \in Nat /\ n <= Len(fs)
  BY FramesAre
<1>4. DOMAIN gs = 1 .. n /\ Len(gs) = n /\ \A i \in 1 .. n : gs[i] = fs[i]
  <2>1. gs = SubSeq(fs, 1, n)
    BY DEF IsFront
  <2> HIDE DEF n
  <2> QED BY <1>3, <2>1, CutTo
<1>5. ActiveOf(s, gs) = ActiveOf(st, gs)
  BY <1>2, ActiveStays
<1>6. IsMap(n, ActiveOf(st, gs)) /\ \A k \in 1 .. n : ActiveOf(st, gs)[k] = View(st, gs, k)
  BY <1>3, <1>4, ActiveIs
<1>7. IsMap(n + 1, B) /\ \A k \in 1 .. n + 1 : B[k] = View(st, fs, k)
  BY <1>3, ActiveIs
<1>8. \A k \in 1 .. n : View(st, gs, k) = View(st, fs, k) /\ k \in 1 .. n + 1
  <2>1. SUFFICES ASSUME NEW k \in 1 .. n PROVE View(st, gs, k) = View(st, fs, k) /\ k \in 1 .. n + 1
    OBVIOUS
  <2>2. gs[k] = fs[k]
    BY <1>4
  <2>3. k \in 1 .. n + 1
    BY <1>3
  <2> HIDE DEF n
  <2> QED BY Zenon, <2>2, <2>3 DEF View
<1> HIDE DEF A, B, n
<1>9. IsMap(n, A) /\ \A k \in 1 .. n : A[k] = B[k]
  BY <1>5, <1>6, <1>7, <1>8 DEF A
<1>10. A = SubSeq(B, 1, n)
  BY <1>3, <1>7, <1>9, MapCut
<1> QED BY <1>10 DEF A, B, n, Returned

LEMMA InstancesAre ==
  ASSUME NEW cs, NEW is, HeapOK(cs, is)
  PROVE  /\ Len(is) \in Nat /\ DOMAIN is = 1 .. Len(is)
         /\ IsMap(Len(is), InstancesOf(is)) /\ Len(InstancesOf(is)) = Len(is)
         /\ DOMAIN InstancesOf(is) = DOMAIN is
         /\ \A i \in DOMAIN is : InstancesOf(is)[i] = [class |-> is[i].klass, fields |-> is[i].fields]
<1> DEFINE f == InstancesOf(is)
<1>1. Len(is) \in Nat /\ DOMAIN is = 1 .. Len(is)
  BY HeapIs
<1>2. /\ IsMap(Len(is), f)
      /\ \A i \in DOMAIN is : f[i] = [class |-> is[i].klass, fields |-> is[i].fields]
  BY <1>1 DEF InstancesOf, IsMap
<1> HIDE DEF f
<1>3. Len(f) = Len(is) /\ DOMAIN f = 1 .. Len(is)
  BY <1>1, <1>2, MapIs DEF IsMap
<1> QED BY <1>1, <1>2, <1>3 DEF f

LEMMA InstancesMade ==
  ASSUME NEW cs, NEW is, HeapOK(cs, is), NEW c \in DOMAIN cs, NEW js, js = Append(is, NewObject(c))
  PROVE  InstancesOf(js) = Append(InstancesOf(is), [class |-> c, fields |-> <<>>])
<1> DEFINE n == Len(is)
           A == InstancesOf(js)
           B == InstancesOf(is)
           v == [class |-> c, fields |-> <<>>]
           r == NewObject(c)
<1>1. n \in Nat /\ DOMAIN is = 1 .. n /\ is \in Seq(InstanceSet) /\ c \in Nat
  BY HeapIs DEF HeapOK
<1>2. r \in InstanceSet
  BY <1>1, EmptyTable DEF InstanceSet, NewObject
<1> HIDE DEF r
<1>3. DOMAIN js = 1 .. n + 1 /\ js[n + 1] = r /\ \A i \in 1 .. n : js[i] = is[i]
  BY <1>1, <1>2, Appended DEF r
<1>4. r.klass = c /\ r.fields = <<>>
  BY DEF r, NewObject
<1>5. IsMap(n + 1, A) /\ \A i \in 1 .. n + 1 : A[i] = [class |-> js[i].klass, fields |-> js[i].fields]
  BY <1>3 DEF InstancesOf, IsMap
<1>6. IsMap(n, B) /\ \A i \in 1 .. n : B[i] = [class |-> is[i].klass, fields |-> is[i].fields]
  BY <1>1 DEF InstancesOf, IsMap
<1>7. n + 1 \in 1 .. n + 1 /\ \A i \in 1 .. n : i \in 1 .. n + 1
  BY <1>1
<1> HIDE DEF A, B, n
<1>8. A[n + 1] = v
  BY <1>3, <1>4, <1>5, <1>7
<1>9. \A i \in 1 .. n : A[i] = B[i]
  BY <1>3, <1>5, <1>6, <1>7
<1> HIDE DEF v
<1>10. A = Append(B, v)
  BY <1>1, <1>5, <1>6, <1>8, <1>9, MapAppended
<1> QED BY <1>10 DEF A, B, v

IsSet(is, i, name, value) ==
  InstancesOf(Assigned(is, i, name, value)) =
    [InstancesOf(is) EXCEPT ![i].fields =
       [n \in DOMAIN @ \cup {name} |-> IF n = name THEN value ELSE @[n]]]

LEMMA InstancesSet ==
  ASSUME NEW cs, NEW is, HeapOK(cs, is), NEW i \in DOMAIN is, NEW name, NEW value
  PROVE  IsSet(is, i, name, value)
<1> DEFINE m == [n \in DOMAIN is[i].fields \cup {name} |-> IF n = name THEN value ELSE is[i].fields[n]]
           js == Assigned(is, i, name, value)
           v == [class |-> is[i].klass, fields |-> m]
<1>1. is \in Seq(InstanceSet) /\ DOMAIN is = 1 .. Len(is)
  BY HeapIs DEF HeapOK
<1>2. is[i] \in InstanceSet
  BY <1>1, SeqIs
<1>3. js = [is EXCEPT ![i] = [is[i] EXCEPT !.fields = m]]
  BY DEF Assigned
<1> DEFINE r == [is[i] EXCEPT !.fields = m]
<1>4. r.klass = is[i].klass /\ r.fields = m
  <2> HIDE DEF m
  <2> QED BY <1>2 DEF InstanceSet
<1> HIDE DEF js, r
<1>5. DOMAIN js = DOMAIN is /\ js[i] = r /\ \A j \in DOMAIN is : j # i => js[j] = is[j]
  BY <1>3 DEF r
<1> DEFINE B == InstancesOf(is)
<1>6. \A j \in DOMAIN is : B[j] = [class |-> is[j].klass, fields |-> is[j].fields]
  BY DEF InstancesOf
<1>7. DOMAIN B = DOMAIN is
  BY DEF InstancesOf
<1>8. InstancesOf(js) = [j \in DOMAIN is |-> [class |-> js[j].klass, fields |-> js[j].fields]]
  BY <1>5 DEF InstancesOf
<1>9. B = [j \in DOMAIN is |-> B[j]]
  BY DEF InstancesOf
<1>10. B[i].fields = is[i].fields /\ [B[i] EXCEPT !.fields = m] = v
  <2>1. B[i] = [class |-> is[i].klass, fields |-> is[i].fields]
    BY <1>6
  <2> HIDE DEF m, B
  <2> QED BY <2>1
<1>11. [B EXCEPT ![i].fields = [n \in DOMAIN @ \cup {name} |-> IF n = name THEN value ELSE @[n]]]
         = [B EXCEPT ![i] = v]
  <2>1. [n \in DOMAIN B[i].fields \cup {name} |-> IF n = name THEN value ELSE B[i].fields[n]] = m
    BY <1>10
  <2> HIDE DEF B
  <2>2. [B EXCEPT ![i].fields = [n \in DOMAIN @ \cup {name} |-> IF n = name THEN value ELSE @[n]]]
          = [B EXCEPT ![i] = [B[i] EXCEPT !.fields =
               [n \in DOMAIN B[i].fields \cup {name} |-> IF n = name THEN value ELSE B[i].fields[n]]]]
    OBVIOUS
  <2> QED BY <2>1, <2>2, <1>10
<1> HIDE DEF B, v
<1>12. [B EXCEPT ![i] = v] = [j \in DOMAIN is |-> IF j = i THEN v ELSE B[j]]
  BY <1>7, <1>9
<1>13. \A j \in DOMAIN is : [class |-> js[j].klass, fields |-> js[j].fields] = IF j = i THEN v ELSE B[j]
  BY <1>4, <1>5, <1>6 DEF v
<1>14. InstancesOf(js) = [B EXCEPT ![i] = v]
  BY <1>8, <1>12, <1>13
<1> QED BY <1>11, <1>14 DEF js, B, IsSet
-----------------------------------------------------------------------------
(* Steps are steps of Objects.                                             *)
LEMMA FailureMaps ==
  ASSUME runtime_error
  PROVE  Objects!Fails
BY DEF runtime_error, Objects!Fails

LEMMA PushAgrees ==
  ASSUME IInv, NEW b, Rest(b), NEW w \in Val
  PROVE  Append(b, w) \in Seq(Val) /\ Agrees(Append(b, w), stack, Locals)
<1>1. b \in Seq(Val) /\ Len(b) \in Nat /\ Locals <= Len(b) /\ \A i \in 1 .. Locals : b[i] = stack[i]
  BY StackIs DEF Rest
<1>2. /\ Append(b, w) \in Seq(Val) /\ Len(Append(b, w)) = Len(b) + 1
      /\ \A i \in 1 .. Len(b) : Append(b, w)[i] = b[i]
  BY <1>1, Appended
<1>3. Locals \in Nat
  BY LocalsAre
<1>4. \A i \in 1 .. Locals : i \in 1 .. Len(b)
  BY <1>1, <1>3
<1> QED BY <1>1, <1>2, <1>3, <1>4 DEF Agrees

LEMMA ActiveKept ==
  ASSUME IInv, stack' \in Seq(Val), Agrees(stack', stack, Locals), frames' = frames
  PROVE  ActiveOf(stack', frames') = ActiveOf(stack, frames)
<1>1. /\ FramesOK(classes, instances, stack, frames) /\ stack \in Seq(Val)
      /\ Agrees(stack', stack, Base(frames, Len(frames)))
  BY LocalsAre
<1>2. ActiveOf(stack', frames) = ActiveOf(stack, frames)
  BY <1>1, ActiveStays
<1> QED BY <1>2

LEMMA GivesMaps ==
  ASSUME IInv, NEW b, Rest(b), NEW v, ValueOK(classes, instances, v), Gives(Append(b, v), v),
         instances' = instances
  PROVE  Objects!Gives(v)
<1>1. v # Objects!Nothing
  BY DEF ValueOK, Class, Instance, Function, Bound, Objects!Nothing
<1>2. v \in Val
  BY LocalsAre, ValueIs
<1>3. /\ stack' = Append(b, v) /\ result' = v /\ classes' = classes /\ frames' = frames
      /\ failed' = failed
  BY DEF Gives
<1>4. stack' \in Seq(Val) /\ Agrees(stack', stack, Locals)
  BY <1>2, <1>3, PushAgrees
<1>5. ActiveOf(stack', frames') = ActiveOf(stack, frames)
  BY <1>3, <1>4, ActiveKept
<1> QED BY <1>1, <1>3, <1>5 DEF Objects!Gives

(* A stack that may only have another value in place of what is called.    *)
CallStack(s, n) ==
  /\ s \in Seq(Val) /\ Len(s) = Len(stack)
  /\ \A i \in 1 .. Len(stack) : i # Len(stack) - n => s[i] = stack[i]

LEMMA CalleeIs ==
  ASSUME IInv, NEW n \in Nat, Temporaries(1 + n), NEW v \in Val
  PROVE  CallStack(Callee(n, v), n) /\ Callee(n, v)[Len(stack) - n] = v
<1> DEFINE k == Len(stack) - n
           s == Sub(stack, k, v)
<1>1. 1 + n \in Nat /\ n \in 0 .. (1 + n) - 1
  OBVIOUS
<1>2. k \in 1 .. Len(stack) /\ stack \in Seq(Val)
  <2>1. k \in 2 .. Len(stack)
    BY <1>1, TemporariesAre
  <2>2. stack \in Seq(Val) /\ Len(stack) \in Nat
    BY LocalsAre
  <2> QED BY <2>1, <2>2
<1>3. s = Callee(n, v)
  BY DEF Sub, Callee
<1> HIDE DEF s, k
<1>4. /\ s \in Seq(Val) /\ Len(s) = Len(stack) /\ s[k] = v
      /\ \A j \in 1 .. Len(stack) : j # k => s[j] = stack[j]
  BY <1>2, Replaced DEF s
<1> QED BY <1>3, <1>4 DEF CallStack, k

LEMMA ArgumentsAre ==
  ASSUME IInv, NEW n \in Nat, Temporaries(1 + n), NEW s, CallStack(s, n)
  PROVE  /\ Len(Arguments(n)) = n /\ (Arguments(n) = <<>> <=> n = 0)
         /\ SubSeq(s, Len(stack) - n + 1, Len(stack)) = Arguments(n)
<1> DEFINE k == Len(stack)
           m == k - n + 1
<1>1. 1 + n \in Nat
  OBVIOUS
<1>2. k \in Nat /\ stack \in Seq(Val) /\ k - (1 + n) >= Locals /\ Locals \in Nat
  BY <1>1, TemporariesAre, LocalsAre
<1>3. m \in Nat \ {0} /\ k <= Len(stack) /\ k <= Len(s) /\ s \in Seq(Val)
  BY <1>2 DEF CallStack
<1>4. \A i \in m .. k : i \in 1 .. k /\ i # k - n
  BY <1>2
<1>5. \A i \in m .. k : s[i] = stack[i]
  BY <1>4 DEF CallStack
<1>6. (IF m <= k THEN k - m + 1 ELSE 0) = n
  BY <1>2
<1> HIDE DEF k, m
<1>7. SubSeq(s, m, k) = SubSeq(stack, m, k)
  BY <1>2, <1>3, <1>5, PartsAgree
<1>8. Len(SubSeq(s, m, k)) = n
  <2>1. Len(SubSeq(s, m, k)) = IF m <= k THEN k - m + 1 ELSE 0
    BY <1>2, <1>3, <1>5, PartsAgree
  <2> QED BY <1>6, <2>1
<1>9. Arguments(n) = SubSeq(stack, m, k)
  BY DEF Arguments, k, m
<1>10. Arguments(n) \in Seq(Val)
  <2>1. \A i \in m .. k : stack[i] \in Val
    BY <1>2, <1>4, SeqIs DEF k
  <2> QED BY <1>2, <1>3, <1>9, <2>1, SubSeqProperties
<1>11. Arguments(n) = <<>> <=> n = 0
  BY <1>7, <1>8, <1>9, <1>10, EmptySeq
<1> QED BY <1>7, <1>8, <1>9, <1>11 DEF k, m

LEMMA RunsMaps ==
  ASSUME IInv, NEW n \in Nat, Temporaries(1 + n), NEW code \in FunctionCode, NEW s, CallStack(s, n),
         call(code, n, s), NEW self, self = s[Len(stack) - n]
  PROVE  Objects!Runs(self, code, Arguments(n))
<1> DEFINE f == [code |-> code, slots |-> Len(s) - n]
           A == ActiveOf(stack, frames)
<1>1. Len(Arguments(n)) = n /\ SubSeq(s, Len(stack) - n + 1, Len(stack)) = Arguments(n)
  BY ArgumentsAre
<1>2. 1 + n \in Nat
  OBVIOUS
<1>3. /\ Len(stack) \in Nat /\ Len(stack) - (1 + n) >= Locals /\ Locals \in Nat
      /\ stack \in Seq(Val) /\ FramesOK(classes, instances, stack, frames)
      /\ Locals = Base(frames, Len(frames))
  BY <1>2, TemporariesAre, LocalsAre
<1>4. Len(A) = Len(frames)
  <2>1. Len(frames) \in Nat /\ DOMAIN frames = 1 .. Len(frames)
    BY <1>3, FramesAre
  <2> QED BY <2>1, ActiveIs
<1>5. CASE n # Arity[code.name] \/ Len(frames) = FRAMES_MAX
  <2>1. Objects!Fails
    BY <1>5, FailureMaps DEF call
  <2> HIDE DEF A
  <2> QED BY <1>1, <1>4, <1>5, <2>1 DEF Objects!Runs, A
<1>6. CASE ~(n # Arity[code.name] \/ Len(frames) = FRAMES_MAX)
  <2>1. /\ frames' = Append(frames, f) /\ stack' = s /\ classes' = classes /\ result' = result
        /\ failed' = failed
    BY <1>6 DEF call
  <2>2. s \in Seq(Val) /\ Len(s) = Len(stack)
    BY DEF CallStack
  <2>3. Len(s) - n \in Nat /\ Len(s) - n = Len(stack) - n
    BY <1>3, <2>2
  <2>4. f \in FrameSet
    BY <2>3 DEF FrameSet, FunctionCode
  <2>5. f.slots = Len(stack) - n /\ f.code = code
    BY <2>3
  <2> HIDE DEF f, A
  <2>6. Agrees(s, stack, Base(frames, Len(frames)))
    <3>1. \A i \in 1 .. Locals : i \in 1 .. Len(stack) /\ i # Len(stack) - n
      BY <1>3
    <3> QED BY <3>1, <1>3, <2>2 DEF Agrees, CallStack
  <2>7. Called(stack, frames, s, f)
    BY Zenon, <1>3, <2>2, <2>4, <2>6, ActiveCalled
  <2> DEFINE gs == Append(frames, f)
             v == NewView(s, f)
  <2>8. ActiveOf(s, gs) = Append(ActiveOf(stack, frames), v)
    BY <2>7 DEF Called
  <2> HIDE DEF gs, v
  <2>9. v = [self |-> self, code |-> code, args |-> Arguments(n)]
    <3>1. f.slots + Arity[f.code.name] = Len(stack)
      BY <1>3, <1>6, <2>5
    <3> QED BY <3>1, <2>5, <1>1 DEF NewView, v
  <2>10. ActiveOf(stack', frames') = Append(A, [self |-> self, code |-> code, args |-> Arguments(n)])
    BY <2>1, <2>8, <2>9 DEF A, gs
  <2> QED BY <2>1, <2>10, <1>1, <1>4, <1>6 DEF Objects!Runs, A
<1> QED BY <1>5, <1>6
LEMMA MethodSeen ==
  ASSUME IInv, NEW c \in DOMAIN classes, NEW name \in DOMAIN classes[c].methods, NEW self
  PROVE  /\ Objects!Declarer(c, name) # 0
         /\ classes[c].methods[name] = Function(Objects!Declarer(c, name), name)
         /\ Objects!Method(self, c, name) = Bound(self, classes[c].methods[name])
<1> DEFINE m == classes[c].methods[name]
<1>1. HeapOK(classes, instances)
  BY LocalsAre
<1>2. Len(classes) \in Nat /\ DOMAIN classes = 1 .. Len(classes)
  BY <1>1, HeapIs
<1>3. c # 0 /\ c \in 0 .. Len(classes)
  BY <1>2
<1>4. m = Function(m.home, name) /\ m.home \in DOMAIN classes
  <2> HIDE DEF m
  <2>1. m = Function(m.home, name) /\ m.home \in AboveIn(classes, c)
    BY <1>1, MethodIs DEF m
  <2> QED BY <2>1 DEF AboveIn
<1>5. Objects!Declarer(c, name) = m.home
  <2>1. Objects!Declarer(c, name) = Nearest(classes, c, name)
    BY Zenon, <1>1, <1>3, DeclarerIs
  <2> QED BY <2>1, <1>3 DEF Nearest
<1> HIDE DEF m
<1>6. m.home # 0
  BY <1>2, <1>4
<1>7. Objects!Method(self, c, name) = Bound(self, Function(m.home, name))
  BY <1>5, <1>6 DEF Objects!Method, Objects!Bound, Objects!Function, Bound, Function
<1> QED BY <1>4, <1>5, <1>6, <1>7 DEF m

LEMMA MethodMissing ==
  ASSUME IInv, NEW c \in DOMAIN classes, NEW name, name \notin DOMAIN classes[c].methods, NEW self
  PROVE  Objects!Declarer(c, name) = 0 /\ Objects!Method(self, c, name) = Objects!Nothing
<1>1. HeapOK(classes, instances)
  BY LocalsAre
<1>2. Len(classes) \in Nat /\ DOMAIN classes = 1 .. Len(classes)
  BY <1>1, HeapIs
<1>3. c # 0 /\ c \in 0 .. Len(classes)
  BY <1>2
<1>4. Objects!Declarer(c, name) = 0
  <2>1. Objects!Declarer(c, name) = Nearest(classes, c, name)
    BY Zenon, <1>1, <1>3, DeclarerIs
  <2> QED BY <2>1, <1>3 DEF Nearest
<1> QED BY <1>4 DEF Objects!Method

LEMMA ConstructsMaps ==
  ASSUME IInv, NEW n \in Nat, Temporaries(1 + n), NEW c \in DOMAIN classes, call_class(c, n)
  PROVE  Objects!Constructs(c, Arguments(n))
<1> DEFINE i == Len(instances) + 1
           v == Instance(i)
           js == Append(instances, NewObject(c))
           home == Objects!Declarer(c, init_string)
           A == InstancesOf(instances)
<1>1. HeapOK(classes, instances) /\ failed = FALSE
  <2>1. 1 + n \in Nat
    OBVIOUS
  <2> QED BY <2>1, LocalsAre, TemporariesAre
<1>2. Len(instances) \in Nat /\ Len(A) = Len(instances)
  BY <1>1, InstancesAre
<1>3. InstancesOf(js) = Append(A, [class |-> c, fields |-> <<>>])
  BY <1>1, InstancesMade
<1>4. v \in Val
  BY <1>2 DEF Val
<1>5. Objects!Instance(Len(A) + 1) = v
  BY <1>2 DEF Objects!Instance, Instance
<1>6. ASSUME instances' = js PROVE Objects!New(c)
  <2>1. InstancesOf(instances') = Append(A, [class |-> c, fields |-> <<>>])
    BY <1>3, <1>6
  <2> QED BY <2>1 DEF Objects!New
<1>7. CallStack(Callee(n, v), n) /\ Callee(n, v)[Len(stack) - n] = v
  <2> HIDE DEF v
  <2> QED BY <1>4, CalleeIs
<1>8. CASE init_string \in DOMAIN classes[c].methods
  <2> DEFINE m == classes[c].methods[init_string]
  <2>1. call(m, n, Callee(n, v)) /\ (~failed' => instances' = js)
    BY <1>8 DEF call_class, NewObject
  <2> HIDE DEF v, js, home, A
  <2>2. home # 0 /\ m = Function(home, init_string)
    BY <1>8, MethodSeen DEF home
  <2>3. m \in FunctionCode
    <3>1. m \in Code
      BY <1>1, <1>8, MethodIs
    <3> QED BY <3>1 DEF Code, FunctionCode
  <2> HIDE DEF m
  <2>4. Objects!Runs(v, m, Arguments(n))
    BY <2>1, <2>3, <1>7, RunsMaps
  <2>5. ~failed' => Objects!New(c)
    BY <2>1, <1>6
  <2>6. m = Objects!Function(home, init_string)
    BY <2>2 DEF Function, Objects!Function
  <2> QED BY <2>2, <2>4, <2>5, <2>6, <1>5 DEF Objects!Constructs, home, A
<1>9. CASE init_string \notin DOMAIN classes[c].methods
  <2> HIDE DEF v, js, home, A
  <2>1. home = 0
    BY <1>9, MethodMissing DEF home
  <2>2. Arguments(n) = <<>> <=> n = 0
    BY Zenon, <1>7, ArgumentsAre
  <2>3. CASE n # 0
    <3>1. Objects!Fails
      BY <1>9, <2>3, FailureMaps DEF call_class
    <3> QED BY <2>1, <2>2, <2>3, <3>1 DEF Objects!Constructs, home
  <2>4. CASE n = 0
    <3>1. /\ instances' = js /\ stack' = Callee(n, v) /\ classes' = classes /\ result' = v
          /\ frames' = frames /\ failed' = failed
      BY <1>9, <2>4 DEF call_class, Gives, NewObject, v, js
    <3>2. stack' \in Seq(Val) /\ Agrees(stack', stack, Locals)
      <4>1. /\ Len(stack) \in Nat /\ Locals \in Nat /\ Len(stack) - (1 + n) >= Locals
        <5>1. 1 + n \in Nat
          OBVIOUS
        <5> QED BY <5>1, LocalsAre, TemporariesAre
      <4>2. \A j \in 1 .. Locals : j \in 1 .. Len(stack) /\ j # Len(stack) - n
        BY <4>1
      <4> QED BY <3>1, <4>1, <4>2, <1>7 DEF CallStack, Agrees
    <3>3. ActiveOf(stack', frames') = ActiveOf(stack, frames)
      BY <3>1, <3>2, ActiveKept
    <3>4. Objects!New(c)
      BY <3>1, <1>6
    <3> QED BY <2>1, <2>2, <2>4, <3>1, <3>3, <3>4, <1>5 DEF Objects!Constructs, home, A
  <2> QED BY <2>3, <2>4
<1> QED BY <1>8, <1>9

(* What calls and reads are.                                               *)
LEMMA NothingIs ==
  ASSUME Objects!Fails, NEW args
  PROVE  Objects!Calls(Objects!Nothing, args) /\ Objects!Gives(Objects!Nothing)
<1>1. Objects!Nothing.type = "nothing"
  BY DEF Objects!Nothing
<1>2. Objects!Calls(Objects!Nothing, args)
  BY <1>1 DEF Objects!Calls
<1>3. Objects!Gives(Objects!Nothing)
  BY DEF Objects!Gives
<1> QED BY <1>2, <1>3

LEMMA BoundCalls ==
  ASSUME NEW self, NEW code, NEW args, Objects!Runs(self, code, args), instances' = instances
  PROVE  Objects!Calls(Bound(self, code), args)
<1> DEFINE v == Bound(self, code)
<1>1. v.type = "bound" /\ v.self = self /\ v.code = code
  BY DEF Bound
<1>2. InstancesOf(instances') = InstancesOf(instances)
  OBVIOUS
<1> HIDE DEF v
<1>3. Objects!Calls(v, args)
  BY <1>1, <1>2 DEF Objects!Calls
<1> QED BY <1>3 DEF v

LEMMA CallsMaps ==
  ASSUME IInv, NEW n \in Nat, Temporaries(1 + n), NEW v, ValueOK(classes, instances, v),
         NEW s, CallStack(s, n), s[Len(stack) - n] = v, call_value(v, n, s)
  PROVE  Objects!Calls(v, Arguments(n))
<1>1. ASSUME NEW c \in DOMAIN classes, v = Class(c) PROVE Objects!Calls(v, Arguments(n))
  <2>1. v.type = "class" /\ v.class = c
    BY <1>1 DEF Class
  <2>2. call_class(c, n)
    BY <2>1 DEF call_value
  <2>3. Objects!Constructs(c, Arguments(n))
    BY <2>2, ConstructsMaps
  <2> QED BY <2>1, <2>3 DEF Objects!Calls
<1>2. ASSUME NEW i \in DOMAIN instances, v = Instance(i) PROVE Objects!Calls(v, Arguments(n))
  <2>1. v.type = "instance"
    BY <1>2 DEF Instance
  <2>2. runtime_error
    BY <2>1 DEF call_value
  <2>3. Objects!Fails
    BY <2>2, FailureMaps
  <2> QED BY <2>1, <2>3 DEF Objects!Calls
<1>3. ASSUME NEW g \in Functions, v = Function(0, g) PROVE Objects!Calls(v, Arguments(n))
  <2>1. v.type = "function"
    BY <1>3 DEF Function
  <2>2. call(v, n, s) /\ instances' = instances
    BY <2>1 DEF call_value
  <2>3. v \in FunctionCode
    BY <1>3, PlainFunction
  <2>4. Objects!Runs(v, v, Arguments(n))
    BY <2>2, <2>3, RunsMaps
  <2>5. InstancesOf(instances') = InstancesOf(instances)
    BY <2>2
  <2> QED BY <2>1, <2>4, <2>5 DEF Objects!Calls
<1>4. ASSUME NEW i \in DOMAIN instances, NEW code \in Code, v = Bound(Instance(i), code)
      PROVE  Objects!Calls(v, Arguments(n))
  <2>1. v.type = "bound" /\ v.self = Instance(i) /\ v.code = code
    BY <1>4 DEF Bound
  <2>2. call(code, n, Callee(n, Instance(i))) /\ instances' = instances
    BY <2>1 DEF call_value
  <2>3. code \in FunctionCode
    BY DEF Code, FunctionCode
  <2>4. Instance(i) \in Val
    <3>1. HeapOK(classes, instances)
      BY LocalsAre
    <3>2. i \in Nat
      BY <3>1, HeapIs
    <3> QED BY <3>2 DEF Val
  <2> DEFINE w == Instance(i)
             t == Callee(n, w)
  <2>5. w \in Val /\ call(code, n, t) /\ v = Bound(w, code)
    BY <2>2, <2>4, <1>4
  <2> HIDE DEF w
  <2>6. CallStack(t, n) /\ t[Len(stack) - n] = w
    BY <2>5, CalleeIs
  <2> HIDE DEF t
  <2>7. Objects!Runs(w, code, Arguments(n))
    BY <2>3, <2>5, <2>6, RunsMaps
  <2>8. Objects!Calls(Bound(w, code), Arguments(n))
    BY <2>2, <2>7, BoundCalls
  <2> QED BY <2>5, <2>8
<1> QED BY <1>1, <1>2, <1>3, <1>4 DEF ValueOK

LEMMA FromClassSeen ==
  ASSUME IInv, NEW n \in Nat, Temporaries(1 + n), NEW c \in DOMAIN classes, NEW name,
         invoke_from_class(c, name, n)
  PROVE  Objects!Calls(Objects!Method(peek(n), c, name), Arguments(n))
<1>1. CASE name \notin DOMAIN classes[c].methods
  <2>1. Objects!Method(peek(n), c, name) = Objects!Nothing
    BY <1>1, MethodMissing
  <2>2. Objects!Fails
    BY <1>1, FailureMaps DEF invoke_from_class
  <2> QED BY <2>1, <2>2, NothingIs
<1>2. CASE name \in DOMAIN classes[c].methods
  <2> DEFINE m == classes[c].methods[name]
  <2>1. call(m, n, stack) /\ instances' = instances
    BY <1>2 DEF invoke_from_class
  <2>2. Objects!Method(peek(n), c, name) = Bound(peek(n), m)
    BY <1>2, MethodSeen
  <2>3. HeapOK(classes, instances) /\ stack \in Seq(Val)
    BY LocalsAre
  <2>4. m \in FunctionCode
    <3>1. m \in Code
      BY <1>2, <2>3, MethodIs
    <3> QED BY <3>1 DEF Code, FunctionCode
  <2> HIDE DEF m
  <2>5. CallStack(stack, n) /\ peek(n) = stack[Len(stack) - n]
    BY <2>3 DEF CallStack, peek
  <2>6. Objects!Runs(peek(n), m, Arguments(n))
    BY <2>1, <2>4, <2>5, RunsMaps
  <2> QED BY <2>1, <2>2, <2>6, BoundCalls
<1> QED BY <1>1, <1>2

LEMMA PropertySeen ==
  ASSUME IInv, NEW v, ValueOK(classes, instances, v), NEW name
  PROVE  /\ v.type # "instance" => Objects!Property(v, name) = Objects!Nothing
         /\ v.type = "instance" =>
              Objects!Property(v, name) =
                LET object == instances[v.instance]
                IN  IF name \in DOMAIN object.fields THEN object.fields[name]
                    ELSE Objects!Method(v, object.klass, name)
<1>1. CASE v.type # "instance"
  BY <1>1 DEF Objects!Property
<1>2. CASE v.type = "instance"
  <2> DEFINE i == v.instance
             o == instances[i]
  <2>1. HeapOK(classes, instances)
    BY LocalsAre
  <2>2. i \in DOMAIN instances
    BY <1>2, <2>1, ObjectIs
  <2>3. InstancesOf(instances)[i] = [class |-> o.klass, fields |-> o.fields]
    BY <2>1, <2>2, InstancesAre
  <2> HIDE DEF o
  <2>4. InstancesOf(instances)[i].class = o.klass /\ InstancesOf(instances)[i].fields = o.fields
    BY <2>3
  <2>5. Objects!Property(v, name) =
          IF name \in DOMAIN o.fields THEN o.fields[name] ELSE Objects!Method(v, o.klass, name)
    BY <2>4, <1>2 DEF Objects!Property
  <2> QED BY <2>5, <1>2 DEF o
<1> QED BY <1>1, <1>2

LEMMA InvokeSeen ==
  ASSUME IInv, NEW n \in Nat, Temporaries(1 + n), NEW name, invoke(name, n)
  PROVE  Objects!Calls(Objects!Property(peek(n), name), Arguments(n))
<1> DEFINE v == peek(n)
           i == v.instance
<1>1. 1 + n \in Nat /\ n \in 0 .. (1 + n) - 1
  OBVIOUS
<1>2. HeapOK(classes, instances) /\ ValueOK(classes, instances, v)
  BY <1>1, LocalsAre, TemporariesAre
<1>3. CASE v.type # "instance"
  <2>1. Objects!Property(v, name) = Objects!Nothing
    BY <1>2, <1>3, PropertySeen
  <2>2. Objects!Fails
    BY <1>3, FailureMaps DEF invoke
  <2> QED BY <2>1, <2>2, NothingIs
<1>4. CASE v.type = "instance"
  <2>1. /\ i \in DOMAIN instances /\ instances[i].klass \in DOMAIN classes
        /\ \A m \in DOMAIN instances[i].fields : ValueOK(classes, instances, instances[i].fields[m])
    BY <1>2, <1>4, ObjectIs
  <2>2. CASE name \in DOMAIN instances[i].fields
    <3> DEFINE f == instances[i].fields[name]
    <3>1. call_value(f, n, Callee(n, f)) /\ ValueOK(classes, instances, f)
      BY <1>4, <2>1, <2>2 DEF invoke
    <3>2. Objects!Property(v, name) = f
      BY <1>2, <1>4, <2>2, PropertySeen
    <3> HIDE DEF f
    <3>3. f \in Val
      BY <1>2, <3>1, ValueIs
    <3>4. CallStack(Callee(n, f), n) /\ Callee(n, f)[Len(stack) - n] = f
      BY <3>3, CalleeIs
    <3>5. Objects!Calls(f, Arguments(n))
      BY <3>1, <3>4, CallsMaps
    <3> QED BY <3>2, <3>5
  <2>3. CASE name \notin DOMAIN instances[i].fields
    <3> DEFINE c == instances[i].klass
    <3>1. invoke_from_class(c, name, n) /\ c \in DOMAIN classes
      BY <1>4, <2>1, <2>3 DEF invoke
    <3>2. Objects!Property(v, name) = Objects!Method(v, c, name)
      BY <1>2, <1>4, <2>3, PropertySeen
    <3> HIDE DEF c
    <3>3. Objects!Calls(Objects!Method(peek(n), c, name), Arguments(n))
      BY <3>1, FromClassSeen
    <3> QED BY <3>2, <3>3
  <2> QED BY <2>2, <2>3
<1> QED BY <1>3, <1>4
-----------------------------------------------------------------------------
(* The instructions.                                                       *)
LEMMA SuperSeen ==
  ASSUME IInv, HasSuper, NEW name
  PROVE  /\ Objects!Super(name) = Objects!Method(Self, classes[frame.code.home].super, name)
         /\ classes[frame.code.home].super \in DOMAIN classes
<1> DEFINE A == ActiveOf(stack, frames)
           h == frame.code.home
           k == Len(frames)
<1>1. /\ HeapOK(classes, instances) /\ FramesOK(classes, instances, stack, frames)
      /\ frame = frames[Len(frames)]
  BY LocalsAre
<1>2. PICK i \in DOMAIN instances : Self = Instance(i) /\ MethodOf(classes, instances, i, frame.code)
  BY FrameSelf DEF HasSuper
<1>3. h \in DOMAIN classes
  BY <1>2 DEF MethodOf, AboveIn
<1>4. classes[h].super \in DOMAIN classes
  BY <1>2, SuperOfSelf DEF AboveIn
<1>5. ClassesOf(classes)[h].super = classes[h].super
  <2>1. \A c \in DOMAIN classes : ClassesOf(classes)[c].super = classes[c].super
    BY <1>1, DeclaresIs
  <2> QED BY <2>1, <1>3
<1>6. k \in Nat /\ k \in 1 .. k /\ DOMAIN frames = 1 .. k
  BY <1>1, FramesAre
<1>7. Len(A) = k /\ A[k] = View(stack, frames, k)
  BY <1>6, ActiveIs
<1> HIDE DEF A
<1>8. A[Len(A)].self = Self /\ A[Len(A)].code = frame.code
  BY <1>1, <1>7 DEF View, Self
<1> QED BY <1>4, <1>5, <1>8 DEF Objects!Super, A

LEMMA BoundSeen ==
  ASSUME IInv, Temporaries(1), NEW i \in DOMAIN instances, peek(0) = Instance(i),
         NEW c \in AboveIn(classes, instances[i].klass), NEW name, bind_method(c, name)
  PROVE  Objects!Gives(Objects!Method(peek(0), c, name))
<1>1. c \in DOMAIN classes
  BY DEF AboveIn
<1>2. CASE name \notin DOMAIN classes[c].methods
  <2>1. Objects!Method(peek(0), c, name) = Objects!Nothing
    BY <1>1, <1>2, MethodMissing
  <2>2. Objects!Fails
    BY <1>2, FailureMaps DEF bind_method
  <2>3. Objects!Gives(Objects!Nothing)
    BY <2>2, NothingIs
  <2> QED BY <2>1, <2>3
<1>3. CASE name \in DOMAIN classes[c].methods
  <2> DEFINE m == classes[c].methods[name]
             v == Bound(Instance(i), m)
             b == Popped(1)
  <2>1. Gives(Append(b, v), v) /\ instances' = instances
    BY <1>3 DEF bind_method
  <2>2. HeapOK(classes, instances)
    BY LocalsAre
  <2>3. MethodOf(classes, instances, i, m) /\ m \in Code
    BY <1>3, <2>2, InheritedMethod DEF MethodOf
  <2>4. ValueOK(classes, instances, v)
    BY <2>3 DEF ValueOK
  <2>5. Objects!Method(peek(0), c, name) = v
    BY <1>1, <1>3, MethodSeen
  <2> HIDE DEF m, v
  <2>6. Rest(b)
    BY PoppedIs
  <2> HIDE DEF b
  <2>7. Objects!Gives(v)
    BY <2>1, <2>4, <2>6, GivesMaps
  <2> QED BY <2>5, <2>7
<1> QED BY <1>2, <1>3

LEMMA GetsSeen ==
  ASSUME IInv, NEW name, NEW below, Rest(below), Gets(name, below)
  PROVE  Objects!Next
<1> DEFINE v == peek(0)
           i == v.instance
<1>1. Temporaries(1) /\ 1 \in Nat /\ 0 \in 0 .. 1 - 1 /\ Asks("get", v, name, <<>>)
  BY DEF Gets
<1>2. HeapOK(classes, instances) /\ ValueOK(classes, instances, v)
  BY <1>1, LocalsAre, TemporariesAre
<1>3. Objects!Gives(Objects!Property(v, name))
  <2>1. CASE v.type # "instance"
    <3>1. Objects!Property(v, name) = Objects!Nothing
      BY <1>2, <2>1, PropertySeen
    <3>2. Objects!Fails
      BY <2>1, FailureMaps DEF Gets
    <3>3. Objects!Gives(Objects!Nothing)
      BY <3>2, NothingIs
    <3> QED BY <3>1, <3>3
  <2>2. CASE v.type = "instance" /\ name \in DOMAIN instances[i].fields
    <3> DEFINE f == instances[i].fields[name]
    <3>1. Gives(Append(below, f), f) /\ instances' = instances
      BY <2>2 DEF Gets
    <3>2. ValueOK(classes, instances, f)
      BY <1>2, <2>2, ObjectIs
    <3>3. Objects!Property(v, name) = f
      BY <1>2, <2>2, PropertySeen
    <3> HIDE DEF f, v
    <3>4. Objects!Gives(f)
      BY <3>1, <3>2, GivesMaps
    <3> QED BY <3>3, <3>4
  <2>3. CASE v.type = "instance" /\ name \notin DOMAIN instances[i].fields
    <3> DEFINE c == instances[i].klass
    <3>1. bind_method(c, name)
      BY <2>3 DEF Gets
    <3>2. i \in DOMAIN instances /\ v = Instance(i) /\ c \in DOMAIN classes
      BY <1>2, <2>3, ObjectIs
    <3>3. c \in AboveIn(classes, c)
      BY <3>2, AboveSelf
    <3>4. Objects!Property(v, name) = Objects!Method(v, c, name)
      BY <1>2, <2>3, PropertySeen
    <3> HIDE DEF i
    <3>5. Objects!Gives(Objects!Method(peek(0), c, name))
      BY <1>1, <3>1, <3>2, <3>3, BoundSeen
    <3> QED BY <3>4, <3>5
  <2> QED BY <2>1, <2>2, <2>3
<1>4. asked'.what = "get" /\ asked'.on = v /\ asked'.name = name
  BY <1>1 DEF Asks
<1> HIDE DEF v
<1> QED BY <1>3, <1>4 DEF Objects!Next

LEMMA SetSeen ==
  ASSUME IInv, NEW name, op_set_property(name)
  PROVE  Objects!Next
<1> DEFINE v == peek(1)
           i == v.instance
           w == peek(0)
<1>1. /\ Temporaries(2) /\ 2 \in Nat /\ 0 \in 0 .. 2 - 1 /\ 1 \in 0 .. 2 - 1
      /\ Asks("set", v, name, <<w>>)
  BY DEF op_set_property
<1>2. /\ HeapOK(classes, instances) /\ ValueOK(classes, instances, v)
      /\ ValueOK(classes, instances, w)
  BY <1>1, LocalsAre, TemporariesAre
<1>3. asked'.what = "set" /\ asked'.on = v /\ asked'.name = name /\ asked'.args[1] = w
  <2> HIDE DEF v, w
  <2> QED BY <1>1 DEF Asks
<1>4. Objects!Sets(v, name, w)
  <2>1. CASE v.type # "instance"
    <3>1. Objects!Fails
      BY <2>1, FailureMaps DEF op_set_property
    <3> QED BY <2>1, <3>1 DEF Objects!Sets
  <2>2. CASE v.type = "instance"
    <3>1. i \in DOMAIN instances
      BY <1>2, <2>2, ObjectIs
    <3>2. /\ instances' = Assigned(instances, i, name, w) /\ stack' = Append(Popped(2), w)
          /\ classes' = classes /\ frames' = frames /\ failed' = failed /\ result' = w
      BY <2>2 DEF op_set_property, Gives, Assigned
    <3> HIDE DEF w
    <3>3. Rest(Popped(2)) /\ w \in Val
      BY <1>1, <1>2, PoppedIs, ValueIs
    <3>4. stack' \in Seq(Val) /\ Agrees(stack', stack, Locals)
      <4> DEFINE b == Popped(2)
      <4>1. Rest(b) /\ stack' = Append(b, w)
        BY <3>2, <3>3
      <4> HIDE DEF b
      <4> QED BY <3>3, <4>1, PushAgrees
    <3>5. ActiveOf(stack', frames') = ActiveOf(stack, frames)
      BY <3>2, <3>4, ActiveKept
    <3> HIDE DEF i
    <3>6. IsSet(instances, i, name, w)
      BY Zenon, <1>2, <3>1, InstancesSet
    <3>7. InstancesOf(instances') =
            [InstancesOf(instances) EXCEPT ![i].fields =
               [n \in DOMAIN @ \cup {name} |-> IF n = name THEN w ELSE @[n]]]
      BY <3>2, <3>6 DEF IsSet
    <3>8. classes' = classes /\ failed' = failed /\ result' = w
      BY <3>2
    <3> QED BY <2>2, <3>5, <3>7, <3>8 DEF Objects!Sets, i
  <2> QED BY <2>1, <2>2
<1> HIDE DEF v, w
<1> QED BY <1>3, <1>4 DEF Objects!Next

LEMMA CallSeen ==
  ASSUME IInv, NEW n \in Nat, op_call(n)
  PROVE  Objects!Next
<1> DEFINE v == peek(n)
<1>1. Temporaries(1 + n) /\ call_value(v, n, stack) /\ Asks("call", v, "", Arguments(n))
  BY DEF op_call
<1>2. 1 + n \in Nat /\ n \in 0 .. (1 + n) - 1
  OBVIOUS
<1>3. ValueOK(classes, instances, v) /\ stack \in Seq(Val)
  BY <1>1, <1>2, TemporariesAre, LocalsAre
<1>4. CallStack(stack, n) /\ stack[Len(stack) - n] = v
  BY <1>3 DEF CallStack, peek
<1> HIDE DEF v
<1>5. Objects!Calls(v, Arguments(n))
  BY <1>1, <1>3, <1>4, CallsMaps
<1>6. asked'.what = "call" /\ asked'.on = v /\ asked'.args = Arguments(n)
  BY <1>1 DEF Asks
<1> QED BY <1>5, <1>6 DEF Objects!Next

LEMMA InvokedSeen ==
  ASSUME IInv, NEW n \in Nat, NEW name, op_invoke(name, n)
  PROVE  Objects!Next
<1>1. Temporaries(1 + n) /\ invoke(name, n) /\ Asks("invoke", peek(n), name, Arguments(n))
  BY DEF op_invoke
<1>2. Objects!Calls(Objects!Property(peek(n), name), Arguments(n))
  BY <1>1, InvokeSeen
<1>3. /\ asked'.what = "invoke" /\ asked'.on = peek(n) /\ asked'.name = name
      /\ asked'.args = Arguments(n)
  BY <1>1 DEF Asks
<1> QED BY <1>2, <1>3 DEF Objects!Next

LEMMA SuperGotSeen ==
  ASSUME IInv, NEW name, op_get_super(name)
  PROVE  Objects!Next
<1> DEFINE c == classes[frame.code.home].super
<1>1. /\ Temporaries(1) /\ HasSuper /\ IsMethod /\ peek(0) = Self /\ bind_method(c, name)
      /\ Asks("get super", Self, name, <<>>)
  BY DEF op_get_super, HasSuper
<1>2. PICK i \in DOMAIN instances : Self = Instance(i)
  BY <1>1, FrameSelf
<1>3. c \in AboveIn(classes, instances[i].klass)
  BY <1>1, <1>2, SuperOfSelf
<1>4. Objects!Super(name) = Objects!Method(Self, c, name)
  BY <1>1, SuperSeen
<1> HIDE DEF c
<1>5. peek(0) = Instance(i)
  BY <1>1, <1>2
<1>6. Objects!Gives(Objects!Method(peek(0), c, name))
  BY <1>1, <1>3, <1>5, BoundSeen
<1>7. Objects!Gives(Objects!Super(name))
  BY <1>1, <1>4, <1>6
<1>8. asked'.what = "get super" /\ asked'.name = name
  BY <1>1 DEF Asks
<1> QED BY <1>7, <1>8 DEF Objects!Next

LEMMA SuperInvokedSeen ==
  ASSUME IInv, NEW n \in Nat, NEW name, op_super_invoke(name, n)
  PROVE  Objects!Next
<1> DEFINE c == classes[frame.code.home].super
<1>1. /\ Temporaries(1 + n) /\ HasSuper /\ peek(n) = Self /\ invoke_from_class(c, name, n)
      /\ Asks("call super", Self, name, Arguments(n))
  BY DEF op_super_invoke
<1>2. Objects!Super(name) = Objects!Method(Self, c, name) /\ c \in DOMAIN classes
  BY <1>1, SuperSeen
<1> HIDE DEF c
<1>3. Objects!Calls(Objects!Method(peek(n), c, name), Arguments(n))
  BY <1>1, <1>2, FromClassSeen
<1>4. Objects!Calls(Objects!Super(name), Arguments(n))
  BY <1>1, <1>2, <1>3
<1>5. asked'.what = "call super" /\ asked'.name = name /\ asked'.args = Arguments(n)
  BY <1>1 DEF Asks
<1> QED BY <1>4, <1>5 DEF Objects!Next

LEMMA SilentSeen ==
  ASSUME IInv, asked'.what = "nothing", classes' = classes, instances' = instances,
         frames' = frames, failed' = failed, stack' \in Seq(Val), Agrees(stack', stack, Locals)
  PROVE  Objects!Next
<1>1. ActiveOf(stack', frames') = ActiveOf(stack, frames)
  BY ActiveKept
<1> QED BY <1>1 DEF Objects!Next

LEMMA PushedSeen ==
  ASSUME IInv, NEW v, v \in Val, stack' = Append(stack, v), Silent
  PROVE  Objects!Next
<1>1. /\ asked'.what = "nothing" /\ classes' = classes /\ instances' = instances
      /\ frames' = frames /\ failed' = failed
  BY DEF Silent
<1>2. Rest(stack)
  BY Whole
<1>3. stack' \in Seq(Val) /\ Agrees(stack', stack, Locals)
  BY <1>2, PushAgrees
<1> QED BY <1>1, <1>3, SilentSeen

LEMMA VariableSeen ==
  ASSUME IInv, NEW v \in Variables, op_get_global(v)
  PROVE  Objects!Next
<1>1. ValueOK(classes, instances, v) /\ HeapOK(classes, instances)
  BY LocalsAre DEF Variables, ValueOK
<1>2. v \in Val
  BY <1>1, ValueIs
<1> QED BY <1>2, PushedSeen DEF op_get_global

LEMMA LocalSeen ==
  ASSUME IInv, NEW i \in DOMAIN stack, op_get_local(i)
  PROVE  Objects!Next
<1> DEFINE v == stack[i]
<1>1. v \in Val
  BY LocalsAre, StackIs
<1>2. stack' = Append(stack, v) /\ Silent
  BY DEF op_get_local
<1> HIDE DEF v
<1> QED BY <1>1, <1>2, PushedSeen

LEMMA PopSeen ==
  ASSUME IInv, op_pop
  PROVE  Objects!Next
<1>1. /\ Temporaries(1) /\ stack' = Popped(1) /\ classes' = classes /\ frames' = frames
      /\ failed' = failed /\ instances' = instances /\ asked'.what = "nothing"
  BY DEF op_pop, Silent
<1>2. Rest(stack')
  BY <1>1, PoppedIs
<1>3. stack' \in Seq(Val) /\ Agrees(stack', stack, Locals)
  BY <1>2, StackIs DEF Rest, Agrees
<1> QED BY <1>1, <1>3, SilentSeen

LEMMA OneLocal ==
  ASSUME IInv, Len(frames) = 1
  PROVE  Locals = 1
BY LocalsAre DEF FramesOK, Base

LEMMA EndSeen ==
  ASSUME IInv, end_class
  PROVE  Objects!Next
<1>1. /\ declaring # 0 /\ stack' = <<stack[1]>> /\ classes' = classes /\ frames' = frames
      /\ failed' = failed /\ instances' = instances /\ asked'.what = "nothing"
  BY DEF end_class
<1>2. Locals = 1 /\ stack[1] \in Val
  BY <1>1, DeclaringIs, OneLocal, StackIs
<1>3. stack' \in Seq(Val) /\ Len(stack') = 1 /\ stack'[1] = stack[1]
  BY <1>1, <1>2
<1>4. Agrees(stack', stack, Locals)
  BY <1>2, <1>3 DEF Agrees
<1> QED BY <1>1, <1>3, <1>4, SilentSeen

LEMMA ReturnSeen ==
  ASSUME IInv, op_return
  PROVE  Objects!Next
<1> DEFINE value == IF IsInitializer THEN Self ELSE peek(0)
           k == Len(frames)
           gs == SubSeq(frames, 1, k - 1)
           m == frame.slots - 1
           cut == SubSeq(stack, 1, m)
           A == ActiveOf(stack, frames)
           r == result'
<1>1. /\ k > 1 /\ frames' = gs /\ stack' = Append(cut, value) /\ r = value
      /\ classes' = classes /\ instances' = instances /\ failed' = failed
  BY DEF op_return, Front
<1>2. /\ FramesOK(classes, instances, stack, frames) /\ stack \in Seq(Val)
      /\ StackOK(classes, instances, stack)
      /\ frame = frames[k] /\ frame.slots \in 1 .. Locals /\ Locals \in Nat
      /\ Locals <= Len(stack) /\ Len(stack) \in Nat
  BY LocalsAre
<1>3. IInv'
  BY ReturnStep
<1>4. stack' \in Seq(Val)
  <2>1. StackOK(classes', instances', stack')
    BY <1>3 DEF IInv, State
  <2> QED BY <2>1, StackIs
<1>5. k \in Nat /\ k \in 1 .. k /\ DOMAIN frames = 1 .. k
  BY <1>2, FramesAre
<1>6. Len(A) = k /\ A[k] = View(stack, frames, k)
  BY <1>5, ActiveIs
<1>7. A[k].self = Self /\ A[k].code = frame.code
  BY <1>2, <1>6 DEF View, Self
<1>8. A[k].code.home # 0 /\ A[k].code.name = init_string => r = A[k].self
  BY <1>1, <1>7 DEF IsInitializer, IsMethod
<1> HIDE DEF value, gs, A, r
<1>9. FramesOK(classes, instances, stack, gs) /\ Base(gs, Len(gs)) < frame.slots
  BY <1>1, <1>2, FramesReturned DEF gs
<1>10. Base(gs, Len(gs)) \in Nat
  <2>1. Len(gs) \in DOMAIN gs
    BY <1>9, FramesAre
  <2> QED BY <1>9, <2>1, FramesAre
<1>11. m \in Nat /\ m <= Len(stack) /\ Base(gs, Len(gs)) <= m
  BY <1>2, <1>9, <1>10
<1> HIDE DEF k, m
<1>12. cut \in Seq(Val) /\ Len(cut) = m /\ \A i \in 1 .. m : cut[i] = stack[i]
  BY <1>2, <1>11, CutTo
<1> HIDE DEF cut
<1>13. Agrees(stack', stack, m)
  <2>1. Len(stack') = m + 1 /\ \A i \in 1 .. m : stack'[i] = cut[i]
    <3>1. stack' = Append(cut, value) /\ Len(cut) = m
      BY <1>1, <1>12
    <3>2. DOMAIN cut = 1 .. m
      BY <1>11, <1>12
    <3> QED BY <3>1, <3>2, <1>11, <1>12, <1>4, AppendProperties
  <2> QED BY <2>1, <1>11, <1>12 DEF Agrees
<1>14. Agrees(stack', stack, Base(gs, Len(gs)))
  <2>1. Len(stack') \in Nat
    BY <1>4
  <2> QED BY <2>1, <1>10, <1>11, <1>13, AgreesBelow
<1>15. Returned(stack, frames, stack', gs)
  <2>1. IsFront(gs, frames) /\ Len(frames) > 1
    BY <1>1 DEF IsFront, gs, k
  <2> DEFINE t == stack'
  <2>2. t \in Seq(Val) /\ Agrees(t, stack, Base(gs, Len(gs)))
    BY <1>4, <1>14
  <2> HIDE DEF t
  <2>3. Returned(stack, frames, t, gs)
    BY Zenon, <1>2, <2>1, <2>2, ActiveReturned
  <2> QED BY <2>3 DEF t
<1>16. ActiveOf(stack', frames') = SubSeq(A, 1, k - 1)
  BY <1>1, <1>15 DEF Returned, k, A
<1>17. asked'.what = "return"
  BY DEF op_return, Asks
<1>18. Objects!Returns
  BY <1>1, <1>6, <1>8, <1>16 DEF Objects!Returns, A, r
<1> QED BY <1>17, <1>18 DEF Objects!Next

Seen(cs, c) ==
  [super |-> cs[c].super, declares |-> {n \in DOMAIN cs[c].methods : cs[c].methods[n].home = c}]

IsChanged(cs, ds, L, e) == ClassesOf(ds) = [ClassesOf(cs) EXCEPT ![L] = e]

LEMMA LastClassSeen ==
  ASSUME NEW cs, NEW L \in DOMAIN cs, NEW ds, DOMAIN ds = DOMAIN cs,
         \A c \in DOMAIN cs : c # L => ds[c] = cs[c], NEW e, Seen(ds, L) = e
  PROVE  IsChanged(cs, ds, L, e)
<1> DEFINE A == ClassesOf(ds)
           B == ClassesOf(cs)
<1>1. A = [c \in DOMAIN cs |-> Seen(ds, c)] /\ B = [c \in DOMAIN cs |-> Seen(cs, c)]
  BY DEF ClassesOf, Seen
<1>2. \A c \in DOMAIN cs : c # L => Seen(ds, c) = Seen(cs, c)
  BY DEF Seen
<1> HIDE DEF A, B
<1>3. A = [B EXCEPT ![L] = e]
  BY <1>1, <1>2
<1> QED BY <1>3 DEF IsChanged, A, B

LEMMA ClassSeen ==
  ASSUME NEW cs, NEW is, HeapOK(cs, is), NEW ds, ds = Append(cs, Blank)
  PROVE  ClassesOf(ds) = Append(ClassesOf(cs), [super |-> 0, declares |-> {}])
<1> DEFINE A == ClassesOf(ds)
           B == ClassesOf(cs)
           n == Len(cs)
<1>1. cs \in Seq(ClassSet) /\ Blank \in ClassSet /\ n \in Nat /\ DOMAIN cs = 1 .. n
  BY HeapIs, EmptyTable DEF Blank, ClassSet, HeapOK
<1>2. DOMAIN ds = 1 .. n + 1 /\ ds[n + 1] = Blank /\ \A c \in 1 .. n : ds[c] = cs[c]
  BY <1>1, Appended
<1>3. A = [c \in 1 .. n + 1 |-> Seen(ds, c)] /\ B = [c \in 1 .. n |-> Seen(cs, c)]
  BY <1>1, <1>2 DEF ClassesOf, Seen
<1>4. Seen(ds, n + 1) = [super |-> 0, declares |-> {}]
  <2>0. Blank.super = 0 /\ Blank.methods = <<>>
    BY DEF Blank
  <2>1. ds[n + 1].super = 0 /\ ds[n + 1].methods = <<>>
    BY <1>2, <2>0
  <2>2. {m \in DOMAIN ds[n + 1].methods : ds[n + 1].methods[m].home = n + 1} = {}
    BY <2>1, EmptyTable
  <2> QED BY <2>1, <2>2 DEF Seen
<1>5. \A c \in 1 .. n : Seen(ds, c) = Seen(cs, c) /\ c \in 1 .. n + 1
  BY <1>1, <1>2 DEF Seen
<1>6. n + 1 \in 1 .. n + 1 /\ n + 1 \in Nat
  BY <1>1
<1> HIDE DEF A, B, n
<1>7. IsMap(n + 1, A) /\ IsMap(n, B)
  BY <1>3 DEF IsMap
<1>8. A[n + 1] = [super |-> 0, declares |-> {}] /\ \A c \in 1 .. n : A[c] = B[c]
  BY <1>3, <1>4, <1>5, <1>6
<1>9. A = Append(B, [super |-> 0, declares |-> {}])
  BY <1>1, <1>7, <1>8, MapAppended
<1> QED BY <1>9 DEF A, B

LEMMA RecordChanged ==
  ASSUME NEW x, NEW y, NEW z, NEW b, b = [super |-> x, declares |-> y]
  PROVE  /\ [b EXCEPT !.super = z] = [super |-> z, declares |-> y]
         /\ [b EXCEPT !.declares = z] = [super |-> x, declares |-> z]
OBVIOUS

LEMMA InheritedSeen ==
  ASSUME NEW cs, NEW is, HeapOK(cs, is), NEW L, L = Len(cs), L \in DOMAIN cs, cs[L] = Blank,
         NEW s \in DOMAIN cs, s # L, NEW ds,
         ds = Sub(cs, L, [super |-> s, methods |-> hash_add_all(cs[s].methods, cs[L].methods)])
  PROVE  IsChanged(cs, ds, L, [ClassesOf(cs)[L] EXCEPT !.super = s])
<1> DEFINE m == hash_add_all(cs[s].methods, cs[L].methods)
           r == [super |-> s, methods |-> m]
           e == [super |-> s, declares |-> {}]
<1>1. /\ cs \in Seq(ClassSet) /\ Len(cs) \in Nat /\ DOMAIN cs = 1 .. Len(cs) /\ ClassOK(cs, s)
      /\ Ordered(cs)
  BY HeapIs DEF HeapOK
<1>2. \A n \in DOMAIN m : n \in DOMAIN cs[s].methods /\ m[n] = cs[s].methods[n]
  <2>1. DOMAIN cs[L].methods = {}
    BY EmptyTable DEF Blank
  <2> QED BY <2>1 DEF hash_add_all
<1>3. \A n \in DOMAIN m : m[n].home # L
  <2>1. SUFFICES ASSUME NEW n \in DOMAIN m PROVE m[n].home # L
    OBVIOUS
  <2>2. cs[s].methods[n].home \in AboveIn(cs, s)
    BY <1>1, <1>2 DEF ClassOK
  <2>3. cs[s].methods[n].home \in 1 .. s
    BY <1>1, <2>2, AboveBelow
  <2>4. m[n].home \in 1 .. s
    BY <1>2, <2>3
  <2> QED BY <2>4, <1>1
<1>4. /\ DOMAIN ds = DOMAIN cs /\ ds[L].super = s /\ ds[L].methods = m
      /\ \A c \in DOMAIN cs : c # L => ds[c] = cs[c]
  <2>1. r.super = s /\ r.methods = m
    OBVIOUS
  <2>2. ds = [cs EXCEPT ![L] = r]
    BY DEF Sub
  <2> HIDE DEF r
  <2> QED BY <2>1, <2>2
<1> HIDE DEF m
<1>5. Seen(ds, L) = e
  BY <1>3, <1>4 DEF Seen
<1>6. ClassesOf(cs)[L] = [super |-> 0, declares |-> {}]
  <2>1. Seen(cs, L) = [super |-> 0, declares |-> {}]
    BY EmptyTable DEF Seen, Blank
  <2> QED BY <2>1 DEF ClassesOf, Seen
<1>7. [ClassesOf(cs)[L] EXCEPT !.super = s] = e
  <2> DEFINE b == ClassesOf(cs)[L]
             x == 0
             y == {}
  <2>1. b = [super |-> x, declares |-> y]
    BY <1>6
  <2> HIDE DEF b, x, y
  <2>2. [b EXCEPT !.super = s] = [super |-> s, declares |-> y]
    BY <2>1, RecordChanged
  <2> QED BY <2>2 DEF b, y
<1> HIDE DEF e
<1>8. IsChanged(cs, ds, L, e)
  BY <1>4, <1>5, LastClassSeen
<1> QED BY <1>7, <1>8

LEMMA DefinedSeen ==
  ASSUME NEW cs, NEW is, HeapOK(cs, is), NEW L, L = Len(cs), L \in DOMAIN cs, NEW name, NEW ds,
         ds = Defined(cs, L, name)
  PROVE  IsChanged(cs, ds, L, [ClassesOf(cs)[L] EXCEPT !.declares = @ \cup {name}])
<1> DEFINE o == cs[L].methods
           m == hash_add_all([n \in {name} |-> Function(L, name)], o)
           r == [cs[L] EXCEPT !.methods = m]
           D == {n \in DOMAIN o : o[n].home = L}
           e == [super |-> cs[L].super, declares |-> D \cup {name}]
<1>1. cs \in Seq(ClassSet) /\ DOMAIN cs = 1 .. Len(cs)
  BY HeapIs DEF HeapOK
<1>2. cs[L] \in ClassSet
  BY <1>1, SeqIs
<1>3. /\ DOMAIN m = DOMAIN o \cup {name} /\ m[name] = Function(L, name)
      /\ \A n \in DOMAIN o : n # name => m[n] = o[n]
  BY DEF hash_add_all
<1>4. r.super = cs[L].super /\ r.methods = m
  <2> HIDE DEF m
  <2> QED BY <1>2 DEF ClassSet
<1>5. ds = [cs EXCEPT ![L] = r]
  BY DEF Defined
<1> HIDE DEF m, r
<1>6. /\ DOMAIN ds = DOMAIN cs /\ ds[L] = r /\ \A c \in DOMAIN cs : c # L => ds[c] = cs[c]
  BY <1>5
<1>7. {n \in DOMAIN m : m[n].home = L} = D \cup {name}
  <2>1. m[name].home = L
    BY <1>3 DEF Function
  <2> HIDE DEF o
  <2> QED BY <1>3, <2>1
<1>8. Seen(ds, L) = e
  <2>1. Seen(ds, L) = [super |-> r.super, declares |-> {n \in DOMAIN r.methods : r.methods[n].home = L}]
    BY <1>6 DEF Seen
  <2> QED BY <2>1, <1>4, <1>7
<1>9. [ClassesOf(cs)[L] EXCEPT !.declares = @ \cup {name}] = e
  <2> DEFINE b == ClassesOf(cs)[L]
             z == cs[L].super
  <2>1. b = [super |-> z, declares |-> D]
    BY DEF ClassesOf
  <2> HIDE DEF b, D, z
  <2> DEFINE x == D \cup {name}
  <2>2. b.declares = D
    BY <2>1
  <2>3. b.declares \cup {name} = x
    BY <2>2
  <2> HIDE DEF x
  <2>4. [b EXCEPT !.declares = x] = [super |-> z, declares |-> x]
    BY <2>1, RecordChanged
  <2>5. [b EXCEPT !.declares = @ \cup {name}] = [super |-> z, declares |-> x]
    BY <2>3, <2>4
  <2> QED BY <2>5 DEF b, z, x
<1> HIDE DEF e
<1>10. IsChanged(cs, ds, L, e)
  BY <1>6, <1>8, LastClassSeen
<1> QED BY <1>9, <1>10

(* While a class is declared only the script runs, in its one slot.        *)
LEMMA ScriptKept ==
  ASSUME IInv, Len(frames) = 1, IInv', frames' = frames
  PROVE  ActiveOf(stack', frames') = ActiveOf(stack, frames)
<1>1. StackOK(classes, instances, stack) /\ StackOK(classes', instances', stack')
  BY DEF IInv, State
<1>2. stack' \in Seq(Val) /\ Len(stack') \in Nat /\ Len(stack') > 0
  BY <1>1, StackIs
<1>3. stack[1] = Function(0, "script") /\ stack'[1] = Function(0, "script")
  BY <1>1 DEF StackOK
<1>4. Agrees(stack', stack, Locals)
  BY <1>2, <1>3, OneLocal DEF Agrees
<1> QED BY <1>2, <1>4, ActiveKept

LEMMA ClassDeclaredSeen ==
  ASSUME IInv, op_class
  PROVE  Objects!Next
<1>1. /\ classes' = Append(classes, Blank) /\ instances' = instances /\ frames' = frames
      /\ failed' = failed /\ result' = result /\ asked'.what = "class"
  BY DEF op_class, Declares, Asks, Blank
<1>2. HeapOK(classes, instances) /\ Len(frames) = 1
  <2>1. IInv' /\ declaring' # 0
    <3>1. Len(classes') \in DOMAIN classes' /\ HeapOK(classes', instances)
      BY <1>1, LocalsAre, ClassMade
    <3>2. Len(classes') # 0
      BY <3>1, HeapIs
    <3> QED BY <3>2, ClassDeclared DEF op_class
  <2>2. Len(frames') = 1
    BY <2>1 DEF IInv, State, DeclaringOK
  <2> QED BY <2>2, <1>1, LocalsAre
<1>3. ClassesOf(classes') = Append(ClassesOf(classes), [super |-> 0, declares |-> {}])
  BY <1>1, <1>2, ClassSeen
<1>4. ActiveOf(stack', frames') = ActiveOf(stack, frames)
  BY <1>1, <1>2, ClassDeclared, ScriptKept
<1>5. Objects!NewClass
  BY <1>1, <1>3, <1>4 DEF Objects!NewClass
<1> QED BY <1>1, <1>5 DEF Objects!Next

LEMMA ClassInheritedSeen ==
  ASSUME IInv, NEW v \in Variables, op_inherit(v)
  PROVE  Objects!Next
<1> DEFINE L == declaring
           B == ClassesOf(classes)
<1>1. L # 0 /\ classes[L] = Blank /\ v # Class(L)
  BY DEF op_inherit, Blank
<1>2. asked'.what = "inherit" /\ asked'.on = v
  <2>1. Asks("inherit", v, "", <<>>)
    BY DEF op_inherit, Declares
  <2> QED BY <2>1 DEF Asks
<1>3. CASE v.type # "class"
  <2>1. Objects!Fails
    BY <1>3, FailureMaps DEF op_inherit
  <2>2. Objects!Inherits(v)
    BY <1>3, <2>1 DEF Objects!Inherits
  <2> QED BY <1>2, <2>2 DEF Objects!Next
<1>4. CASE v.type = "class"
  <2>1. PICK c \in DOMAIN classes : v = Class(c)
    BY <1>4 DEF Variables, Instance, Function
  <2>2. v.class = c /\ c # L
    BY <1>1, <2>1 DEF Class
  <2>3. /\ classes' = Sub(classes, L, [super |-> c, methods |-> hash_add_all(classes[c].methods, classes[L].methods)])
        /\ instances' = instances /\ frames' = frames /\ failed' = failed /\ result' = result
    BY <1>4, <2>2 DEF op_inherit, Declares, Sub
  <2>4. /\ L = Len(classes) /\ L \in DOMAIN classes /\ Len(frames) = 1
        /\ HeapOK(classes, instances)
    BY <1>1, DeclaringIs
  <2> HIDE DEF L
  <2>5. IsChanged(classes, classes', L, [ClassesOf(classes)[L] EXCEPT !.super = c])
    BY <1>1, <2>2, <2>3, <2>4, InheritedSeen
  <2>6. Len(B) = L
    BY <2>4, ClassesAre
  <2>7. ClassesOf(classes') = [B EXCEPT ![Len(B)].super = v.class]
    BY <2>2, <2>5, <2>6 DEF IsChanged
  <2>8. ActiveOf(stack', frames') = ActiveOf(stack, frames)
    BY <2>3, <2>4, ClassInherited, ScriptKept
  <2> HIDE DEF B
  <2>9. Objects!Inherits(v)
    BY <1>4, <2>3, <2>7, <2>8 DEF Objects!Inherits, B
  <2> QED BY <1>2, <2>9 DEF Objects!Next
<1> QED BY <1>3, <1>4

LEMMA ClassMethodSeen ==
  ASSUME IInv, NEW name \in Name, op_method(name)
  PROVE  Objects!Next
<1> DEFINE L == declaring
           B == ClassesOf(classes)
<1>1. /\ L # 0 /\ stack' = stack /\ instances' = instances
      /\ frames' = frames /\ failed' = failed /\ result' = result
      /\ classes' = [classes EXCEPT ![peek(0).class].methods =
                       hash_add_all([n \in {name} |-> Function(L, name)], @)]
  BY DEF op_method, define_method, Declares
<1>2. /\ L = Len(classes) /\ L \in DOMAIN classes /\ Len(frames) = 1
      /\ stack[Len(stack)] = Class(L) /\ Len(stack) \in Nat
      /\ HeapOK(classes, instances)
  BY <1>1, DeclaringIs
<1>3. peek(0).class = L
  <2>1. Len(stack) - 0 = Len(stack)
    BY <1>2
  <2> QED BY <1>2, <2>1 DEF peek, Class
<1>4. classes' = Defined(classes, L, name)
  BY <1>1, <1>3 DEF Defined
<1> HIDE DEF L
<1>5. IsChanged(classes, classes', L, [ClassesOf(classes)[L] EXCEPT !.declares = @ \cup {name}])
  BY <1>2, <1>4, DefinedSeen
<1>6. Len(B) = L
  BY <1>2, ClassesAre
<1>7. ClassesOf(classes') = [B EXCEPT ![Len(B)].declares = @ \cup {name}]
  BY <1>5, <1>6 DEF IsChanged
<1>8. ActiveOf(stack', frames') = ActiveOf(stack, frames)
  BY <1>1
<1> HIDE DEF B
<1>9. Objects!Declares(name)
  BY <1>1, <1>7, <1>8 DEF Objects!Declares, B
<1>10. asked'.what = "method" /\ asked'.name = name
  BY DEF op_method, Declares, Asks
<1> QED BY <1>9, <1>10 DEF Objects!Next
-----------------------------------------------------------------------------
(* The refinement.                                                         *)
LEMMA InitMaps == Init => Objects!Init
<1> SUFFICES ASSUME Init PROVE Objects!Init
  OBVIOUS
<1> DEFINE code == Function(0, "script")
           f == [code |-> code, slots |-> 1]
           A == ActiveOf(stack, frames)
           v == [self |-> code, code |-> code, args |-> <<>>]
<1>1. /\ classes = <<>> /\ instances = <<>> /\ stack = <<code>> /\ frames = <<f>>
      /\ failed = FALSE /\ asked = [what |-> "nothing"] /\ result = Objects!Nothing
  BY DEF Init, Nothing, Objects!Nothing
<1>2. DOMAIN <<>> = {}
  BY EmptyTable
<1>3. ClassesOf(classes) = <<>> /\ InstancesOf(instances) = <<>>
  BY <1>1, <1>2 DEF ClassesOf, InstancesOf
<1>4. stack[1] = code /\ frames[1].slots = 1 /\ frames[1].code = code /\ DOMAIN frames = 1 .. 1
  BY <1>1
<1>5. IsMap(1, A) /\ A[1] = View(stack, frames, 1)
  <2> DEFINE n == 1
  <2>1. n \in Nat /\ DOMAIN frames = 1 .. n /\ 1 \in 1 .. n
    BY <1>4
  <2> HIDE DEF n, A
  <2>2. IsMap(n, A) /\ A[1] = View(stack, frames, 1)
    BY <2>1, ActiveIs DEF A
  <2> QED BY <2>2 DEF n
<1>6. View(stack, frames, 1) = v
  <2> HIDE DEF code
  <2> QED BY <1>4 DEF View
<1>7. A = <<v>>
  <2> HIDE DEF A, v
  <2> QED BY <1>5, <1>6 DEF IsMap
<1>8. v = Objects!Script
  BY DEF Objects!Script, Objects!Function, Function
<1> HIDE DEF v, A
<1> QED BY <1>1, <1>3, <1>7, <1>8 DEF Objects!Init, A

LEMMA NextMaps ==
  IInv /\ [Next]_vars =>
    [Objects!Next]_<<ClassesOf(classes), InstancesOf(instances), ActiveOf(stack, frames),
                     asked, result, failed>>
<1> SUFFICES ASSUME IInv, [Next]_vars
             PROVE  \/ Objects!Next
                    \/ UNCHANGED <<ClassesOf(classes), InstancesOf(instances),
                                   ActiveOf(stack, frames), asked, result, failed>>
  OBVIOUS
<1>1. CASE UNCHANGED vars
  BY <1>1 DEF vars
<1>2. CASE Next
  <2>1. ASSUME NEW v \in Variables, op_get_global(v) PROVE Objects!Next
    BY <2>1, VariableSeen
  <2>2. ASSUME NEW v \in Variables, op_inherit(v) PROVE Objects!Next
    BY <2>2, ClassInheritedSeen
  <2>3. ASSUME NEW i \in DOMAIN stack, op_get_local(i) PROVE Objects!Next
    BY <2>3, LocalSeen
  <2>4. ASSUME op_pop PROVE Objects!Next
    BY <2>4, PopSeen
  <2>5. ASSUME NEW name \in Name, op_get_property(name) PROVE Objects!Next
    <3>1. Gets(name, Popped(1)) /\ Temporaries(1) /\ 1 \in Nat
      BY <2>5 DEF op_get_property, Gets
    <3>2. Rest(Popped(1))
      BY <3>1, PoppedIs
    <3> QED BY <3>1, <3>2, GetsSeen
  <2>6. ASSUME NEW name \in Name, op_get_property_no_pop(name) PROVE Objects!Next
    BY <2>6, Whole, GetsSeen DEF op_get_property_no_pop
  <2>7. ASSUME NEW name \in Name, op_set_property(name) PROVE Objects!Next
    BY <2>7, SetSeen
  <2>8. ASSUME NEW name \in Name, op_get_super(name) PROVE Objects!Next
    BY <2>8, SuperGotSeen
  <2>9. ASSUME NEW name \in Name, op_method(name) PROVE Objects!Next
    BY <2>9, ClassMethodSeen
  <2>10. ASSUME NEW n \in Nat, op_call(n) PROVE Objects!Next
    BY <2>10, CallSeen
  <2>11. ASSUME NEW n \in Nat, NEW name \in Name, op_invoke(name, n) PROVE Objects!Next
    BY <2>11, InvokedSeen
  <2>12. ASSUME NEW n \in Nat, NEW name \in Name, op_super_invoke(name, n) PROVE Objects!Next
    BY <2>12, SuperInvokedSeen
  <2>13. ASSUME op_return PROVE Objects!Next
    BY <2>13, ReturnSeen
  <2>14. ASSUME op_class PROVE Objects!Next
    BY <2>14, ClassDeclaredSeen
  <2>15. ASSUME end_class PROVE Objects!Next
    BY <2>15, EndSeen
  <2>16. ArgCount \subseteq Nat
    BY DispatchAssumption DEF ArgCount
  <2> QED BY <1>2, <2>1, <2>2, <2>3, <2>4, <2>5, <2>6, <2>7, <2>8, <2>9, <2>10, <2>11, <2>12,
             <2>13, <2>14, <2>15, <2>16 DEF Next
<1> QED BY <1>1, <1>2

(* Method tables copied from the superclass, windows on one operand stack  *)
(* and fused instructions do what Objects says of classes and objects:     *)
(* every property read or called is the field, or the method of the nearest*)
(* class, and every function runs with its own self and arguments.         *)
THEOREM ObjectsImplemented == Spec => ImplementsObjects
<1>1. Spec => Objects!Init
  BY InitMaps, PTL DEF Spec
<1>2. Spec => [][Objects!Next]_<<ClassesOf(classes), InstancesOf(instances), ActiveOf(stack, frames),
                                 asked, result, failed>>
  BY DispatchInvariant, NextMaps, PTL DEF Spec
<1> QED BY <1>1, <1>2, PTL DEF ImplementsObjects, Objects!Spec
=============================================================================
