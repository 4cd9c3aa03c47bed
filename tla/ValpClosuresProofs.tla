------------------------- MODULE ValpClosuresProofs -------------------------
(***************************************************************************)
(* Proofs about ValpClosures, for any number of closures, upvalues,        *)
(* variables, frames and slots: the layout of the stack, the list of open  *)
(* upvalues, and what the upvalues of closures stand for.                  *)
(***************************************************************************)
EXTENDS ValpClosures, SequenceTheorems, WellFoundedInduction, TLAPS

(* The slot of the i-th local of frame f.                                  *)
At(f, i) == frames[f].slots + i - 1

(* No variable is in two slots.                                            *)
Distinct ==
  \A e, f \in DOMAIN locals : \A i \in DOMAIN locals[e], j \in DOMAIN locals[f] :
    locals[e][i] = locals[f][j] => e = f /\ i = j

(* Closures have an upvalue for every name, frames have closures, and what *)
(* OP_CLOSURE fills is a closure.                                          *)
Shape ==
  /\ \A cl \in DOMAIN upvalues :
       /\ Len(named[cl]) = Len(upvalues[cl])
       /\ \A k \in DOMAIN upvalues[cl] : upvalues[cl][k] \in DOMAIN upvalue
  /\ \A f \in DOMAIN frames : frames[f].closure \in DOMAIN upvalues
  /\ capturing > 0 => frames # <<>> /\ stack # <<>> /\ Top(stack) \in DOMAIN upvalues

(* The list holds the upvalues that are not closed, from higher slots to   *)
(* lower ones, and they point at locals.                                   *)
OpenExact ==
  /\ \A i \in DOMAIN open : open[i] \in DOMAIN upvalue
  /\ \A u \in DOMAIN upvalue : upvalue[u].location # CLOSED <=> \E i \in DOMAIN open : open[i] = u
  /\ \A i, j \in DOMAIN open :
       i < j => upvalue[open[i]].location > upvalue[open[j]].location
  /\ \A p \in DOMAIN open : \E f \in DOMAIN locals : \E i \in DOMAIN locals[f] :
       upvalue[open[p]].location = At(f, i)

(* UpvaluesMeanVariables without a choice of the slot.                     *)
Means ==
  \A cl \in DOMAIN upvalues : \A k \in DOMAIN upvalues[cl] :
    /\ \A f \in DOMAIN locals : \A i \in DOMAIN locals[f] :
         locals[f][i] = named[cl][k] => upvalue[upvalues[cl][k]].location = At(f, i)
    /\ upvalue[upvalues[cl][k]].location # CLOSED =>
         \E f \in DOMAIN locals : \E i \in DOMAIN locals[f] : locals[f][i] = named[cl][k]

IInv ==
  TypeOK /\ Distinct /\ Shape /\ OpenExact /\ Means /\ OneUpvaluePerVariable
-----------------------------------------------------------------------------
(* Locals are in different slots, below the slot 0 of every later frame.   *)
Layout ==
  \A e, f \in DOMAIN locals : \A i \in DOMAIN locals[e], j \in DOMAIN locals[f] :
    /\ At(e, i) \in DOMAIN stack
    /\ e < f => At(e, i) < frames[f].slots
    /\ At(e, i) = At(f, j) => e = f /\ i = j

LEMMA SlotsApart == TypeOK => Layout
<1> SUFFICES ASSUME TypeOK,
                    NEW e \in DOMAIN locals, NEW f \in DOMAIN locals,
                    NEW i \in DOMAIN locals[e], NEW j \in DOMAIN locals[f]
             PROVE  /\ At(e, i) \in DOMAIN stack
                    /\ e < f => At(e, i) < frames[f].slots
                    /\ At(e, i) = At(f, j) => e = f /\ i = j
  BY DEF Layout
<1>1. /\ Len(locals) = Len(frames) /\ Len(locals) \in Nat
      /\ DOMAIN locals = 1 .. Len(locals) /\ DOMAIN frames = 1 .. Len(frames)
      /\ DOMAIN stack = 1 .. Len(stack) /\ Len(stack) \in Nat
  BY DEF TypeOK
<1>2. /\ locals[e] \in Seq(Var) /\ locals[f] \in Seq(Var)
      /\ frames[e] \in [closure : Closure, slots : Nat \ {0}]
      /\ frames[f] \in [closure : Closure, slots : Nat \ {0}]
  BY ZenonT(30), <1>1, ElementOfSeq DEF TypeOK
<1>3. /\ i \in 1 .. Len(locals[e]) /\ Len(locals[e]) \in Nat
      /\ j \in 1 .. Len(locals[f]) /\ Len(locals[f]) \in Nat
  BY <1>2
<1>4. frames[e].slots \in Nat \ {0} /\ frames[f].slots \in Nat \ {0}
  BY <1>2
<1>5. FramesApart
  BY DEF TypeOK
<1>6. frames[e].slots + Len(locals[e]) <= Len(stack) + 1
  BY <1>1, <1>5 DEF FramesApart
<1>7. e \in 1 .. Len(locals) /\ f \in 1 .. Len(locals)
  BY <1>1
<1>8. e < f => frames[e].slots + Len(locals[e]) <= frames[f].slots
  BY <1>1, <1>5, <1>7 DEF FramesApart
<1>9. f < e => frames[f].slots + Len(locals[f]) <= frames[e].slots
  BY <1>1, <1>5, <1>7 DEF FramesApart
<1>10. e = f \/ e < f \/ f < e
  BY <1>1, <1>7
<1>11. At(e, i) \in DOMAIN stack
  BY SMTT(30), <1>1, <1>3, <1>4, <1>6 DEF At
<1>12. /\ e < f => At(e, i) < frames[f].slots /\ At(e, i) < At(f, j)
       /\ f < e => At(f, j) < At(e, i)
  BY <1>3, <1>4, <1>8, <1>9 DEF At
<1>13. e = f /\ At(e, i) = At(f, j) => i = j
  BY <1>3, <1>4 DEF At
<1>14. At(e, i) \in Nat /\ At(f, j) \in Nat
  BY <1>3, <1>4 DEF At
<1> QED
  BY <1>10, <1>11, <1>12, <1>13, <1>14, <1>7, <1>1

(* What the provers need of the types, without the sets of sequences.      *)
Basic ==
  /\ Len(stack) \in Nat /\ DOMAIN stack = 1 .. Len(stack)
  /\ \A s \in DOMAIN stack : stack[s] \in Value
  /\ Len(frames) \in Nat /\ DOMAIN frames = 1 .. Len(frames)
  /\ Len(locals) = Len(frames) /\ DOMAIN locals = 1 .. Len(frames)
  /\ Len(open) \in Nat /\ DOMAIN open = 1 .. Len(open)
  /\ \A f \in DOMAIN frames :
       /\ frames[f].closure \in Closure /\ frames[f].slots \in Nat \ {0}
       /\ locals[f] \in Seq(Var) /\ Len(locals[f]) \in Nat /\ DOMAIN locals[f] = 1 .. Len(locals[f])
  /\ \A u \in DOMAIN upvalue : upvalue[u].location \in Nat /\ upvalue[u].closed \in Value
  /\ DOMAIN named = DOMAIN upvalues
  /\ \A cl \in DOMAIN upvalues :
       /\ cl \in Closure /\ upvalues[cl] \in Seq(Upvalue) /\ named[cl] \in Seq(Var)
       /\ Len(upvalues[cl]) \in Nat /\ DOMAIN upvalues[cl] = 1 .. Len(upvalues[cl])
       /\ Len(named[cl]) \in Nat /\ DOMAIN named[cl] = 1 .. Len(named[cl])

LEMMA TypesBasic == TypeOK => Basic
<1> SUFFICES ASSUME TypeOK PROVE Basic
  OBVIOUS
<1>1. /\ Len(stack) \in Nat /\ DOMAIN stack = 1 .. Len(stack)
      /\ \A s \in DOMAIN stack : stack[s] \in Value
  BY DEF TypeOK
<1>2. /\ Len(frames) \in Nat /\ DOMAIN frames = 1 .. Len(frames)
      /\ Len(locals) = Len(frames) /\ DOMAIN locals = 1 .. Len(frames)
  BY DEF TypeOK
<1>3. Len(open) \in Nat /\ DOMAIN open = 1 .. Len(open)
  BY DEF TypeOK
<1>4. ASSUME NEW f \in DOMAIN frames
      PROVE  /\ frames[f].closure \in Closure /\ frames[f].slots \in Nat \ {0}
             /\ locals[f] \in Seq(Var) /\ Len(locals[f]) \in Nat
             /\ DOMAIN locals[f] = 1 .. Len(locals[f])
  <2>1. frames[f] \in [closure : Closure, slots : Nat \ {0}] /\ locals[f] \in Seq(Var)
    BY <1>2, ElementOfSeq DEF TypeOK
  <2> QED BY <2>1
<1>5. \A u \in DOMAIN upvalue : upvalue[u].location \in Nat /\ upvalue[u].closed \in Value
  <2> SUFFICES ASSUME NEW u \in DOMAIN upvalue
               PROVE  upvalue[u].location \in Nat /\ upvalue[u].closed \in Value
    OBVIOUS
  <2>1. upvalue[u] \in [location : Nat, closed : Value]
    BY DEF TypeOK
  <2> QED BY <2>1
<1>6. ASSUME NEW cl \in DOMAIN upvalues
      PROVE  /\ cl \in Closure /\ upvalues[cl] \in Seq(Upvalue) /\ named[cl] \in Seq(Var)
             /\ Len(upvalues[cl]) \in Nat /\ DOMAIN upvalues[cl] = 1 .. Len(upvalues[cl])
             /\ Len(named[cl]) \in Nat /\ DOMAIN named[cl] = 1 .. Len(named[cl])
  <2>1. cl \in Closure /\ upvalues[cl] \in Seq(Upvalue) /\ named[cl] \in Seq(Var)
    BY DEF TypeOK
  <2> QED BY <2>1
<1>7. DOMAIN named = DOMAIN upvalues
  BY DEF TypeOK
<1> QED BY <1>1, <1>2, <1>3, <1>4, <1>5, <1>6, <1>7 DEF Basic

(* The frame on top is the last to reach up.                               *)
LEMMA TopIsHighest ==
  ASSUME TypeOK, frames # <<>>
  PROVE  /\ Len(frames) \in DOMAIN frames
         /\ Base \in Nat \ {0} /\ Top(locals) = locals[Len(frames)] /\ Len(Top(locals)) \in Nat
         /\ Base = frames[Len(frames)].slots /\ Top(frames) = frames[Len(frames)]
         /\ Base + Len(Top(locals)) <= Len(stack) + 1
         /\ \A f \in DOMAIN frames :
              frames[f].slots + Len(locals[f]) <= Base + Len(Top(locals))
<1>1. Basic /\ FramesApart
  BY TypesBasic DEF TypeOK
<1>2. frames \in Seq([closure : Closure, slots : Nat \ {0}])
  BY DEF TypeOK
<1>3. Len(frames) \in DOMAIN frames
  BY <1>1, <1>2, EmptySeq DEF Basic
<1>4. /\ Top(frames) = frames[Len(frames)] /\ Base = frames[Len(frames)].slots
      /\ Top(locals) = locals[Len(frames)]
  BY <1>1 DEF Top, Base, Basic
<1>5. Base \in Nat \ {0} /\ Len(Top(locals)) \in Nat
  BY <1>1, <1>3, <1>4 DEF Basic
<1>6. Base + Len(Top(locals)) <= Len(stack) + 1
  BY <1>1, <1>3, <1>4 DEF FramesApart
<1>7. ASSUME NEW f \in DOMAIN frames
      PROVE  frames[f].slots + Len(locals[f]) <= Base + Len(Top(locals))
  <2>1. CASE f = Len(frames)
    BY <2>1, <1>4, <1>5
  <2>2. CASE f # Len(frames)
    <3>1. f \in 1 .. Len(frames) - 1
      BY <2>2, <1>1 DEF Basic
    <3>2. frames[f].slots + Len(locals[f]) <= Base
      BY <3>1, <1>1, <1>3, <1>4 DEF FramesApart
    <3>3. frames[f].slots \in Nat /\ Len(locals[f]) \in Nat
      BY <1>1 DEF Basic
    <3> QED BY <3>2, <3>3, <1>5
  <2> QED BY <2>1, <2>2
<1> QED BY <1>3, <1>4, <1>5, <1>6, <1>7

(* Where variables are is none of the values on the stack.                 *)
LEMMA Unmoved ==
  ASSUME IInv, UNCHANGED <<frames, open, upvalues, locals, named>>, TypeOK', Shape',
         DOMAIN upvalue' = DOMAIN upvalue,
         \A u \in DOMAIN upvalue : upvalue'[u].location = upvalue[u].location
  PROVE  IInv'
<1>1. Distinct'
  BY DEF IInv, Distinct
<1>2. OpenExact'
  <2>1. OpenExact
    BY DEF IInv
  <2>2. \A f, i : At(f, i)' = At(f, i)
    BY DEF At
  <2> QED BY <2>1, <2>2 DEF OpenExact
<1>3. Means'
  <2>1. Means /\ Shape
    BY DEF IInv
  <2>2. \A f, i : At(f, i)' = At(f, i)
    BY DEF At
  <2>3. \A cl \in DOMAIN upvalues : \A k \in DOMAIN upvalues[cl] :
          upvalue'[upvalues[cl][k]].location = upvalue[upvalues[cl][k]].location
    BY <2>1 DEF Shape
  <2> QED BY <2>1, <2>2, <2>3 DEF Means
<1>4. OneUpvaluePerVariable'
  BY DEF IInv, OneUpvaluePerVariable
<1> QED BY <1>1, <1>2, <1>3, <1>4 DEF IInv

(* The instructions that only move values.                                 *)
LEMMA ValuesMove ==
  ASSUME IInv, Running, UNCHANGED <<frames, open, upvalues, capturing, locals, named>>,
         stack' \in Seq(Value), Base + Len(Top(locals)) <= Len(stack') + 1,
         upvalue' \in [DOMAIN upvalue -> [location : Nat, closed : Value]],
         \A u \in DOMAIN upvalue : upvalue'[u].location = upvalue[u].location
  PROVE  IInv'
<1>1. TypeOK /\ Shape /\ Basic /\ frames # <<>> /\ capturing = 0
  BY TypesBasic DEF IInv, Running
<1>2. FramesApart'
  <2> SUFFICES ASSUME NEW f \in DOMAIN frames
               PROVE  /\ frames[f].slots + Len(locals[f]) <= Len(stack') + 1
                      /\ \A e \in 1 .. f - 1 : frames[e].slots + Len(locals[e]) <= frames[f].slots
    BY DEF FramesApart
  <2>1. frames[f].slots + Len(locals[f]) <= Base + Len(Top(locals))
    BY <1>1, TopIsHighest
  <2>2. /\ frames[f].slots + Len(locals[f]) \in Nat /\ Base + Len(Top(locals)) \in Nat
        /\ Len(stack') \in Nat
    BY <1>1, TopIsHighest DEF Basic
  <2>3. FramesApart
    BY <1>1 DEF TypeOK
  <2> QED BY <2>1, <2>2, <2>3 DEF FramesApart
<1>3. TypeOK'
  BY <1>1, <1>2 DEF TypeOK
<1>4. Shape'
  BY <1>1 DEF Shape
<1> QED BY <1>3, <1>4, Unmoved

LEMMA PushValue ==
  ASSUME IInv, Running, NEW v \in Value, Push(v),
         UNCHANGED <<frames, open, upvalue, upvalues, capturing, locals, named>>
  PROVE  IInv'
<1>1. TypeOK /\ Basic /\ frames # <<>>
  BY TypesBasic DEF IInv, Running
<1>2. stack' \in Seq(Value) /\ Len(stack') = Len(stack) + 1
  BY <1>1, AppendProperties DEF TypeOK, Push
<1>3. Base + Len(Top(locals)) <= Len(stack') + 1
  BY <1>1, <1>2, TopIsHighest DEF Basic
<1>4. upvalue' \in [DOMAIN upvalue -> [location : Nat, closed : Value]]
  BY <1>1 DEF TypeOK
<1> QED BY <1>2, <1>3, <1>4, ValuesMove

(* Reading an upvalue finds a value.                                       *)
LEMMA FoundIsValue ==
  ASSUME IInv, NEW cl \in DOMAIN upvalues, NEW k \in DOMAIN upvalues[cl]
  PROVE  /\ upvalues[cl][k] \in DOMAIN upvalue
         /\ Found(upvalues[cl][k]) \in Value
         /\ upvalue[upvalues[cl][k]].location # CLOSED =>
              upvalue[upvalues[cl][k]].location \in DOMAIN stack
<1> DEFINE u == upvalues[cl][k]
<1>1. TypeOK /\ Basic /\ Layout /\ OpenExact
  BY TypesBasic, SlotsApart DEF IInv
<1>2. u \in DOMAIN upvalue
  BY DEF IInv, Shape
<1> HIDE DEF u
<1>3. ASSUME upvalue[u].location # CLOSED PROVE upvalue[u].location \in DOMAIN stack
  <2>1. PICK p \in DOMAIN open : open[p] = u
    BY <1>1, <1>2, <1>3 DEF OpenExact
  <2>2. PICK f \in DOMAIN locals : \E i \in DOMAIN locals[f] : upvalue[u].location = At(f, i)
    BY <1>1, <2>1 DEF OpenExact
  <2> QED BY <1>1, <2>2 DEF Layout
<1>4. Found(u) \in Value
  BY <1>1, <1>2, <1>3 DEF Found, Basic
<1> QED BY <1>2, <1>3, <1>4 DEF u

LEMMA ConstantStep == ASSUME IInv, Constant PROVE IInv'
<1>1. PICK v \in Data : Push(v)
  BY DEF Constant
<1>2. v \in Value
  BY DEF Value
<1> QED BY <1>1, <1>2, PushValue DEF Constant

LEMMA GetLocalStep == ASSUME IInv, NEW i, GetLocal(i) PROVE IInv'
<1>1. Running /\ frames # <<>> /\ TypeOK /\ Basic /\ Layout
  BY TypesBasic, SlotsApart DEF IInv, Running, GetLocal
<1>2. Slot(i) = At(Len(frames), i) /\ Len(frames) \in DOMAIN locals /\ i \in DOMAIN locals[Len(frames)]
  BY <1>1, TopIsHighest DEF Slot, At, GetLocal, Basic
<1>3. Slot(i) \in DOMAIN stack
  BY <1>1, <1>2 DEF Layout
<1>4. stack[Slot(i)] \in Value
  BY <1>1, <1>3 DEF Basic
<1> QED BY <1>4, PushValue DEF GetLocal

LEMMA GetUpvalueStep == ASSUME IInv, NEW k, GetUpvalue(k) PROVE IInv'
<1>1. Running /\ frames # <<>> /\ TypeOK /\ Basic
  BY TypesBasic DEF IInv, Running, GetUpvalue
<1>2. Top(frames).closure \in DOMAIN upvalues
  BY <1>1, TopIsHighest DEF IInv, Shape
<1>3. Found(upvalues[Top(frames).closure][k]) \in Value
  BY <1>2, FoundIsValue DEF GetUpvalue
<1> QED BY <1>3, PushValue DEF GetUpvalue

(* An operand above the locals.                                            *)
LEMMA OperandIsValue ==
  ASSUME TypeOK, frames # <<>>, Temporaries >= 1
  PROVE  /\ Len(stack) \in DOMAIN stack /\ Peek(0) = stack[Len(stack)] /\ Peek(0) \in Value
         /\ Base + Len(Top(locals)) <= Len(stack)
<1>1. Basic
  BY TypesBasic
<1>2. Base + Len(Top(locals)) <= Len(stack)
  BY <1>1, TopIsHighest DEF Temporaries, Basic
<1>3. Len(stack) \in DOMAIN stack
  BY <1>1, <1>2, TopIsHighest DEF Basic
<1> QED BY <1>1, <1>2, <1>3 DEF Peek, Basic

LEMMA SetLocalStep == ASSUME IInv, NEW i, SetLocal(i) PROVE IInv'
<1>1. Running /\ frames # <<>> /\ TypeOK /\ Basic /\ Layout
  BY TypesBasic, SlotsApart DEF IInv, Running, SetLocal
<1>2. Slot(i) = At(Len(frames), i) /\ Len(frames) \in DOMAIN locals /\ i \in DOMAIN locals[Len(frames)]
  BY <1>1, TopIsHighest DEF Slot, At, SetLocal, Basic
<1>3. Slot(i) \in DOMAIN stack
  BY <1>1, <1>2 DEF Layout
<1>4. Peek(0) \in Value
  BY <1>1, OperandIsValue DEF SetLocal
<1>5. stack' \in Seq(Value) /\ Len(stack') = Len(stack)
  BY <1>1, <1>3, <1>4, ExceptSeq DEF SetLocal, TypeOK, Basic
<1>6. Base + Len(Top(locals)) <= Len(stack') + 1
  BY <1>1, <1>5, TopIsHighest
<1>7. upvalue' \in [DOMAIN upvalue -> [location : Nat, closed : Value]]
  BY <1>1 DEF TypeOK, SetLocal
<1> QED BY <1>1, <1>5, <1>6, <1>7, ValuesMove DEF SetLocal

LEMMA SetUpvalueStep == ASSUME IInv, NEW k, SetUpvalue(k) PROVE IInv'
<1> DEFINE u == upvalues[Top(frames).closure][k]
<1>1. Running /\ frames # <<>> /\ TypeOK /\ Basic
  BY TypesBasic DEF IInv, Running, SetUpvalue
<1>2. Top(frames).closure \in DOMAIN upvalues
  BY <1>1, TopIsHighest DEF IInv, Shape
<1>3. /\ u \in DOMAIN upvalue
      /\ upvalue[u].location # CLOSED => upvalue[u].location \in DOMAIN stack
  BY <1>2, FoundIsValue DEF SetUpvalue
<1>4. Peek(0) \in Value
  BY <1>1, OperandIsValue DEF SetUpvalue
<1>5. UNCHANGED <<frames, open, upvalues, capturing, locals, named>>
  BY DEF SetUpvalue
<1>6. Base + Len(Top(locals)) <= Len(stack) + 1
  BY <1>1, TopIsHighest
<1>7. IF upvalue[u].location = CLOSED
      THEN upvalue' = [upvalue EXCEPT ![u].closed = Peek(0)] /\ UNCHANGED stack
      ELSE stack' = [stack EXCEPT ![upvalue[u].location] = Peek(0)] /\ UNCHANGED upvalue
  BY DEF SetUpvalue
<1> HIDE DEF u
<1>8. CASE upvalue[u].location = CLOSED
  <2>1. upvalue' \in [DOMAIN upvalue -> [location : Nat, closed : Value]]
    BY <1>1, <1>3, <1>4, <1>7, <1>8 DEF TypeOK
  <2>2. ASSUME NEW w \in DOMAIN upvalue PROVE upvalue'[w].location = upvalue[w].location
    <3>1. upvalue' = [upvalue EXCEPT ![u].closed = Peek(0)]
      BY <1>7, <1>8
    <3>2. upvalue'[w] = IF w = u THEN [upvalue[u] EXCEPT !.closed = Peek(0)] ELSE upvalue[w]
      BY <3>1
    <3>3. upvalue[u] \in [location : Nat, closed : Value]
      BY <1>1, <1>3 DEF TypeOK
    <3> QED BY <3>2, <3>3
  <2>3. stack' \in Seq(Value) /\ stack' = stack
    BY <1>1, <1>7, <1>8 DEF TypeOK
  <2> QED BY <1>1, <1>5, <1>6, <2>1, <2>2, <2>3, ValuesMove
<1>9. CASE upvalue[u].location # CLOSED
  <2>1. stack' \in Seq(Value) /\ Len(stack') = Len(stack)
    <3>1. stack \in Seq(Value) /\ upvalue[u].location \in 1 .. Len(stack)
      BY <1>1, <1>3, <1>9 DEF TypeOK, Basic
    <3> QED BY <3>1, <1>4, <1>7, <1>9, ExceptSeq
  <2>2. upvalue' \in [DOMAIN upvalue -> [location : Nat, closed : Value]] /\ upvalue' = upvalue
    BY <1>1, <1>7, <1>9 DEF TypeOK
  <2> QED BY <1>1, <1>5, <1>6, <2>1, <2>2, ValuesMove
<1> QED BY <1>8, <1>9

(* The beginning and the end of a sequence.                                *)
LEMMA Prefix ==
  ASSUME NEW S, NEW s \in Seq(S), NEW n \in 0 .. Len(s)
  PROVE  /\ SubSeq(s, 1, n) \in Seq(S) /\ Len(SubSeq(s, 1, n)) = n
         /\ \A i \in 1 .. n : SubSeq(s, 1, n)[i] = s[i]
<1>1. n \in Int /\ 1 \in Int /\ \A i \in 1 .. n : s[i] \in S
  BY ElementOfSeq, LenProperties
<1>2. /\ SubSeq(s, 1, n) \in Seq(S)
      /\ Len(SubSeq(s, 1, n)) = IF 1 <= n THEN n - 1 + 1 ELSE 0
      /\ \A i \in 1 .. n - 1 + 1 : SubSeq(s, 1, n)[i] = s[1 + i - 1]
  BY <1>1, SubSeqProperties
<1> DEFINE t == SubSeq(s, 1, n)
<1> HIDE DEF t
<1>3. Len(t) = n
  <2>1. Len(t) = IF 1 <= n THEN n - 1 + 1 ELSE 0
    BY <1>2 DEF t
  <2>2. n \in Nat
    BY LenProperties
  <2> QED BY <2>1, <2>2
<1>4. ASSUME NEW i \in 1 .. n PROVE t[i] = s[i]
  <2>1. i \in 1 .. n - 1 + 1 /\ 1 + i - 1 = i
    BY <1>1
  <2> QED BY <2>1, <1>2 DEF t
<1> QED BY <1>2, <1>3, <1>4 DEF t

LEMMA Suffix ==
  ASSUME NEW S, NEW s \in Seq(S), NEW n \in 0 .. Len(s)
  PROVE  /\ SubSeq(s, n + 1, Len(s)) \in Seq(S) /\ Len(SubSeq(s, n + 1, Len(s))) = Len(s) - n
         /\ \A i \in 1 .. Len(s) - n : SubSeq(s, n + 1, Len(s))[i] = s[n + i]
<1>1. n \in Nat /\ Len(s) \in Nat /\ n <= Len(s)
  BY LenProperties
<1>2. n + 1 \in Int /\ Len(s) \in Int /\ \A i \in n + 1 .. Len(s) : s[i] \in S
  BY <1>1, ElementOfSeq
<1>3. /\ SubSeq(s, n + 1, Len(s)) \in Seq(S)
      /\ Len(SubSeq(s, n + 1, Len(s))) = IF n + 1 <= Len(s) THEN Len(s) - (n + 1) + 1 ELSE 0
      /\ \A i \in 1 .. Len(s) - (n + 1) + 1 : SubSeq(s, n + 1, Len(s))[i] = s[n + 1 + i - 1]
  BY <1>2, SubSeqProperties
<1> DEFINE t == SubSeq(s, n + 1, Len(s))
<1> HIDE DEF t
<1>4. Len(t) = Len(s) - n
  <2>1. Len(t) = IF n + 1 <= Len(s) THEN Len(s) - (n + 1) + 1 ELSE 0
    BY <1>3 DEF t
  <2> QED BY <2>1, <1>1
<1>5. ASSUME NEW i \in 1 .. Len(s) - n PROVE t[i] = s[n + i]
  <2>1. i \in 1 .. Len(s) - (n + 1) + 1 /\ n + 1 + i - 1 = n + i
    BY <1>1
  <2> QED BY <2>1, <1>3 DEF t
<1> QED BY <1>3, <1>4, <1>5 DEF t

LEMMA CutOne ==
  ASSUME NEW S, NEW s \in Seq(S), Len(s) >= 1
  PROVE  /\ Cut(s, 1) \in Seq(S) /\ Len(Cut(s, 1)) = Len(s) - 1
         /\ \A i \in 1 .. Len(s) - 1 : Cut(s, 1)[i] = s[i]
<1>1. Len(s) - 1 \in 0 .. Len(s)
  BY LenProperties
<1> QED BY <1>1, Prefix DEF Cut

LEMMA PopStep == ASSUME IInv, Pop PROVE IInv'
<1>1. Running /\ frames # <<>> /\ TypeOK /\ Basic
  BY TypesBasic DEF IInv, Running, Pop
<1>2. Base + Len(Top(locals)) <= Len(stack) /\ Len(stack) >= 1
  BY <1>1, OperandIsValue DEF Pop, Basic
<1>3. stack' \in Seq(Value) /\ Len(stack') = Len(stack) - 1
  BY <1>1, <1>2, CutOne DEF Pop, TypeOK
<1>4. Base + Len(Top(locals)) <= Len(stack') + 1
  BY <1>1, <1>2, <1>3, TopIsHighest DEF Basic
<1>5. upvalue' \in [DOMAIN upvalue -> [location : Nat, closed : Value]]
  BY <1>1 DEF TypeOK, Pop
<1> QED BY <1>1, <1>3, <1>4, <1>5, ValuesMove DEF Pop
-----------------------------------------------------------------------------
(* Steps that declare variables, make a closure or collect garbage.        *)

LEMMA UsedAre ==
  ASSUME TypeOK, Shape
  PROVE  /\ \A f \in DOMAIN locals : \A i \in DOMAIN locals[f] : locals[f][i] \in UsedVars
         /\ \A cl \in DOMAIN upvalues : \A k \in DOMAIN upvalues[cl] :
              k \in DOMAIN named[cl] /\ named[cl][k] \in UsedVars
<1>1. Basic
  BY TypesBasic
<1>2. ASSUME NEW f \in DOMAIN locals, NEW i \in DOMAIN locals[f] PROVE locals[f][i] \in UsedVars
  <2>1. locals[f][i] \in Elements(locals[f])
    BY DEF Elements
  <2> QED BY <2>1 DEF UsedVars, OnStack
<1>3. ASSUME NEW cl \in DOMAIN upvalues, NEW k \in DOMAIN upvalues[cl]
      PROVE  k \in DOMAIN named[cl] /\ named[cl][k] \in UsedVars
  <2>1. k \in DOMAIN named[cl] /\ cl \in DOMAIN named
    BY <1>1 DEF Basic, Shape
  <2>2. named[cl][k] \in Elements(named[cl])
    BY <2>1 DEF Elements
  <2> QED BY <2>1, <2>2 DEF UsedVars
<1> QED BY <1>2, <1>3

LEMMA NewVarsAre ==
  ASSUME NEW n \in Nat, NEW new \in NewVars(n)
  PROVE  /\ new \in Seq(Var) /\ Len(new) = n /\ DOMAIN new = 1 .. n
         /\ \A i \in 1 .. n : new[i] \in Var /\ new[i] \notin UsedVars
         /\ \A i, j \in 1 .. n : new[i] = new[j] => i = j
<1>1. /\ new \in [1 .. n -> Var \ UsedVars]
      /\ \A i, j \in 1 .. n : new[i] = new[j] => i = j
  BY DEF NewVars
<1>2. new \in Seq(Var)
  BY <1>1
<1>3. Len(new) = n
  BY <1>1, <1>2, LenProperties
<1> QED BY <1>1, <1>2, <1>3

(* A slot with a variable that was not there.                              *)
New(f, i) == ~(f \in DOMAIN locals /\ i \in DOMAIN locals[f])

(* New variables meet no upvalue, and garbage is in no closure.            *)
LEMMA VariablesAdded ==
  ASSUME IInv, TypeOK', Shape', UNCHANGED open,
         DOMAIN upvalue' \subseteq DOMAIN upvalue,
         \A u \in DOMAIN upvalue' : upvalue'[u].location = upvalue[u].location,
         \A p \in DOMAIN open : open[p] \in DOMAIN upvalue',
         \A cl \in DOMAIN upvalues' : \A k \in DOMAIN upvalues'[cl] :
           /\ cl \in DOMAIN upvalues /\ k \in DOMAIN upvalues[cl]
           /\ upvalues'[cl][k] = upvalues[cl][k] /\ named'[cl][k] = named[cl][k],
         \A f \in DOMAIN locals : \A i \in DOMAIN locals[f] :
           /\ f \in DOMAIN locals' /\ i \in DOMAIN locals'[f]
           /\ locals'[f][i] = locals[f][i] /\ frames'[f].slots = frames[f].slots,
         \A e, f \in DOMAIN locals' : \A i \in DOMAIN locals'[e], j \in DOMAIN locals'[f] :
           New(f, j) => /\ locals'[f][j] \notin UsedVars
                        /\ New(e, i) /\ locals'[e][i] = locals'[f][j] => e = f /\ i = j
  PROVE  IInv'
<1>1. Distinct /\ OpenExact /\ Means /\ OneUpvaluePerVariable /\ Shape
  BY DEF IInv
<1>2. /\ \A f \in DOMAIN locals : \A i \in DOMAIN locals[f] : locals[f][i] \in UsedVars
      /\ \A cl \in DOMAIN upvalues : \A k \in DOMAIN upvalues[cl] :
           k \in DOMAIN named[cl] /\ named[cl][k] \in UsedVars
  BY UsedAre DEF IInv
<1>3. \A f \in DOMAIN locals : \A i \in DOMAIN locals[f] : At(f, i)' = At(f, i)
  BY DEF At
<1>4. Distinct'
  <2> SUFFICES ASSUME NEW e \in DOMAIN locals', NEW f \in DOMAIN locals',
                      NEW i \in DOMAIN locals'[e], NEW j \in DOMAIN locals'[f],
                      locals'[e][i] = locals'[f][j]
               PROVE  e = f /\ i = j
    BY DEF Distinct
  <2>1. CASE New(e, i) /\ New(f, j)
    BY <2>1
  <2>2. CASE ~New(e, i) /\ ~New(f, j)
    BY <1>1, <2>2 DEF New, Distinct
  <2>3. CASE New(e, i) /\ ~New(f, j)
    BY <1>2, <2>3 DEF New
  <2>4. CASE ~New(e, i) /\ New(f, j)
    BY <1>2, <2>4 DEF New
  <2> QED BY <2>1, <2>2, <2>3, <2>4
<1>5. OpenExact'
  <2>1. \A u \in DOMAIN upvalue' : upvalue'[u].location # CLOSED <=> \E i \in DOMAIN open : open[i] = u
    BY <1>1 DEF OpenExact
  <2>2. \A i, j \in DOMAIN open : i < j => upvalue'[open[i]].location > upvalue'[open[j]].location
    BY <1>1 DEF OpenExact
  <2>3. ASSUME NEW p \in DOMAIN open
        PROVE  \E f \in DOMAIN locals' : \E i \in DOMAIN locals'[f] :
                 upvalue'[open[p]].location = At(f, i)'
    <3>1. PICK f \in DOMAIN locals : \E i \in DOMAIN locals[f] : upvalue[open[p]].location = At(f, i)
      BY <1>1 DEF OpenExact
    <3>2. PICK i \in DOMAIN locals[f] : upvalue[open[p]].location = At(f, i)
      BY <3>1
    <3> QED BY <3>2, <1>3
  <2> QED BY <2>1, <2>2, <2>3 DEF OpenExact
<1>6. Means'
  <2> SUFFICES ASSUME NEW cl \in DOMAIN upvalues', NEW k \in DOMAIN upvalues'[cl]
               PROVE  /\ \A f \in DOMAIN locals' : \A i \in DOMAIN locals'[f] :
                           locals'[f][i] = named'[cl][k] =>
                             upvalue'[upvalues'[cl][k]].location = At(f, i)'
                      /\ upvalue'[upvalues'[cl][k]].location # CLOSED =>
                           \E f \in DOMAIN locals' : \E i \in DOMAIN locals'[f] :
                             locals'[f][i] = named'[cl][k]
    BY DEF Means
  <2>1. /\ cl \in DOMAIN upvalues /\ k \in DOMAIN upvalues[cl]
        /\ upvalues'[cl][k] = upvalues[cl][k] /\ named'[cl][k] = named[cl][k]
    OBVIOUS
  <2>2. upvalue'[upvalues'[cl][k]].location = upvalue[upvalues[cl][k]].location
    BY <2>1 DEF Shape
  <2>3. ASSUME NEW f \in DOMAIN locals', NEW i \in DOMAIN locals'[f], locals'[f][i] = named'[cl][k]
        PROVE  upvalue'[upvalues'[cl][k]].location = At(f, i)'
    <3>1. ~New(f, i)
      BY <2>1, <2>3, <1>2
    <3> QED BY <3>1, <2>1, <2>2, <2>3, <1>1, <1>3 DEF New, Means
  <2>4. ASSUME upvalue'[upvalues'[cl][k]].location # CLOSED
        PROVE  \E f \in DOMAIN locals' : \E i \in DOMAIN locals'[f] :
                 locals'[f][i] = named'[cl][k]
    <3>1. PICK f \in DOMAIN locals : \E i \in DOMAIN locals[f] : locals[f][i] = named[cl][k]
      BY <2>1, <2>2, <2>4, <1>1 DEF Means
    <3> QED BY <3>1, <2>1
  <2> QED BY <2>3, <2>4
<1>7. OneUpvaluePerVariable'
  BY <1>1 DEF OneUpvaluePerVariable
<1> QED BY <1>4, <1>5, <1>6, <1>7 DEF IInv

LEMMA EarlierIndex ==
  ASSUME NEW n \in Nat, NEW f \in 1 .. n, NEW e \in 1 .. f - 1
  PROVE  e \in 1 .. n /\ e # n /\ e < f
OBVIOUS

(* Only the frame on top has grown or shrunk.                              *)
LEMMA TopFrameFits ==
  ASSUME TypeOK, frames # <<>>, UNCHANGED frames, Len(stack') \in Nat,
         \A f \in DOMAIN frames : f # Len(frames) => locals'[f] = locals[f],
         Len(locals'[Len(frames)]) \in Nat,
         Base + Len(locals'[Len(frames)]) <= Len(stack') + 1
  PROVE  FramesApart'
<1>1. Basic /\ FramesApart
  BY TypesBasic DEF TypeOK
<1>2. Len(frames) \in DOMAIN frames /\ Base = frames[Len(frames)].slots /\ Base \in Nat
  BY TopIsHighest
<1>3. ASSUME NEW f \in DOMAIN frames, NEW e \in 1 .. f - 1
      PROVE  frames[e].slots + Len(locals'[e]) <= frames[f].slots
  <2>1. e \in DOMAIN frames /\ e # Len(frames)
    <3>1. Len(frames) \in Nat /\ f \in 1 .. Len(frames) /\ DOMAIN frames = 1 .. Len(frames)
      BY <1>1 DEF Basic
    <3> QED BY <3>1, EarlierIndex
  <2>2. locals'[e] = locals[e]
    BY <2>1
  <2>3. frames[e].slots + Len(locals[e]) <= frames[f].slots
    BY <1>1 DEF FramesApart
  <2> QED BY <2>2, <2>3
<1>4. ASSUME NEW f \in DOMAIN frames
      PROVE  frames[f].slots + Len(locals'[f]) <= Len(stack') + 1
  <2>1. CASE f = Len(frames)
    BY <2>1, <1>2
  <2>2. CASE f # Len(frames)
    <3>1. f \in 1 .. Len(frames) - 1
      BY <1>1, <2>2 DEF Basic
    <3>2. frames[f].slots + Len(locals'[f]) <= Base
      BY <3>1, <1>2, <1>3
    <3>3. frames[f].slots \in Nat /\ Len(locals'[f]) \in Nat
      BY <1>1, <2>2 DEF Basic
    <3> QED BY <3>2, <3>3, <1>2
  <2> QED BY <2>1, <2>2
<1> QED BY <1>3, <1>4 DEF FramesApart

LEMMA ConcatOne ==
  ASSUME NEW S, NEW s \in Seq(S), NEW t \in Seq(S), Len(t) = 1
  PROVE  /\ s \o t \in Seq(S) /\ Len(s \o t) = Len(s) + 1
         /\ DOMAIN (s \o t) = 1 .. Len(s) + 1
         /\ \A i \in 1 .. Len(s) : (s \o t)[i] = s[i]
         /\ (s \o t)[Len(s) + 1] = t[1]
<1> DEFINE n == Len(s)
<1> DEFINE l == s \o t
<1>1. n \in Nat
  BY LenProperties
<1>2. /\ l \in Seq(S) /\ Len(l) = n + Len(t)
      /\ \A i \in 1 .. n + Len(t) : l[i] = IF i <= n THEN s[i] ELSE t[i - n]
  BY ConcatProperties
<1>3. Len(l) = n + 1 /\ DOMAIN l = 1 .. n + 1
  BY <1>2, LenProperties
<1>4. \A i \in 1 .. n + 1 : l[i] = IF i <= n THEN s[i] ELSE t[i - n]
  BY <1>2
<1> HIDE DEF n, l
<1>5. \A i \in 1 .. n : i \in 1 .. n + 1 /\ i <= n
  BY <1>1
<1>6. n + 1 \in 1 .. n + 1 /\ ~(n + 1 <= n) /\ (n + 1) - n = 1
  BY <1>1
<1>7. l[n + 1] = t[1]
  BY <1>4, <1>6
<1>8. \A i \in 1 .. n : l[i] = s[i]
  BY <1>4, <1>5
<1> QED BY <1>2, <1>3, <1>7, <1>8 DEF n, l

LEMMA Replaced ==
  ASSUME NEW S, NEW s \in Seq(S), NEW n \in DOMAIN s, NEW e \in S
  PROVE  /\ [s EXCEPT ![n] = e] \in Seq(S) /\ Len([s EXCEPT ![n] = e]) = Len(s)
         /\ DOMAIN [s EXCEPT ![n] = e] = DOMAIN s
         /\ [s EXCEPT ![n] = e][n] = e
         /\ \A i \in DOMAIN s : i # n => [s EXCEPT ![n] = e][i] = s[i]
<1>1. n \in 1 .. Len(s)
  BY LenProperties
<1> QED BY <1>1, ExceptSeq

(* One variable more in the frame on top.                                  *)
LEMMA LocalAdded ==
  ASSUME TypeOK, frames # <<>>, NEW new \in NewVars(1),
         locals' = [locals EXCEPT ![Len(locals)] = @ \o new]
  PROVE  /\ locals' \in Seq(Seq(Var)) /\ Len(locals') = Len(locals) /\ DOMAIN locals' = DOMAIN locals
         /\ \A f \in DOMAIN frames : f # Len(frames) => locals'[f] = locals[f]
         /\ Len(locals'[Len(frames)]) = Len(Top(locals)) + 1
         /\ DOMAIN locals'[Len(frames)] = 1 .. Len(Top(locals)) + 1
         /\ \A i \in DOMAIN locals[Len(frames)] : locals'[Len(frames)][i] = locals[Len(frames)][i]
         /\ locals'[Len(frames)][Len(Top(locals)) + 1] = new[1]
<1> DEFINE t == Len(frames)
<1> DEFINE l == locals[t] \o new
<1>1. Basic /\ t \in DOMAIN frames /\ Top(locals) = locals[t] /\ Len(locals) = t
  BY TypesBasic, TopIsHighest DEF Basic
<1>2. locals[t] \in Seq(Var) /\ Len(locals[t]) \in Nat /\ DOMAIN locals[t] = 1 .. Len(locals[t])
  BY <1>1 DEF Basic
<1>3. new \in Seq(Var) /\ Len(new) = 1
  BY NewVarsAre
<1>4. /\ l \in Seq(Var) /\ Len(l) = Len(locals[t]) + 1 /\ DOMAIN l = 1 .. Len(locals[t]) + 1
      /\ \A i \in 1 .. Len(locals[t]) : l[i] = locals[t][i]
      /\ l[Len(locals[t]) + 1] = new[1]
  BY <1>2, <1>3, ConcatOne
<1>5. locals' = [locals EXCEPT ![t] = l]
  BY <1>1
<1>6. locals \in Seq(Seq(Var)) /\ t \in DOMAIN locals
  BY <1>1 DEF TypeOK, Basic
<1> HIDE DEF l
<1>7. l \in Seq(Var)
  BY <1>4
<1>8. /\ locals' \in Seq(Seq(Var)) /\ Len(locals') = Len(locals) /\ DOMAIN locals' = DOMAIN locals
      /\ locals'[t] = l
      /\ \A f \in DOMAIN locals : f # t => locals'[f] = locals[f]
  <2> DEFINE T == Seq(Var)
  <2>1. locals \in Seq(T) /\ l \in T
    BY <1>6, <1>7
  <2> HIDE DEF T, t
  <2>2. /\ [locals EXCEPT ![t] = l] \in Seq(T) /\ Len([locals EXCEPT ![t] = l]) = Len(locals)
        /\ DOMAIN [locals EXCEPT ![t] = l] = DOMAIN locals
        /\ [locals EXCEPT ![t] = l][t] = l
        /\ \A f \in DOMAIN locals : f # t => [locals EXCEPT ![t] = l][f] = locals[f]
    BY <1>6, <2>1, Replaced
  <2> QED BY <1>5, <2>2 DEF T
<1>9. \A f \in DOMAIN frames : f # t => locals'[f] = locals[f]
  BY <1>1, <1>8 DEF Basic
<1> QED BY <1>1, <1>2, <1>4, <1>8, <1>9

(* What VariablesAdded asks about the new local.                           *)
LEMMA LocalIsNew ==
  ASSUME TypeOK, frames # <<>>, NEW new \in NewVars(1), UNCHANGED frames,
         locals' = [locals EXCEPT ![Len(locals)] = @ \o new]
  PROVE  /\ \A f \in DOMAIN locals : \A i \in DOMAIN locals[f] :
              /\ f \in DOMAIN locals' /\ i \in DOMAIN locals'[f]
              /\ locals'[f][i] = locals[f][i] /\ frames'[f].slots = frames[f].slots
         /\ \A e, f \in DOMAIN locals' : \A i \in DOMAIN locals'[e], j \in DOMAIN locals'[f] :
              New(f, j) => /\ locals'[f][j] \notin UsedVars
                           /\ New(e, i) /\ locals'[e][i] = locals'[f][j] => e = f /\ i = j
<1> DEFINE t == Len(frames)
<1>1. Basic /\ t \in DOMAIN frames /\ Top(locals) = locals[t] /\ DOMAIN locals = DOMAIN frames
  BY TypesBasic, TopIsHighest DEF Basic
<1>2. /\ DOMAIN locals[t] = 1 .. Len(Top(locals)) /\ Len(Top(locals)) \in Nat
  BY <1>1 DEF Basic
<1>3. ASSUME NEW f \in DOMAIN locals, NEW i \in DOMAIN locals[f]
      PROVE  /\ f \in DOMAIN locals' /\ i \in DOMAIN locals'[f]
             /\ locals'[f][i] = locals[f][i] /\ frames'[f].slots = frames[f].slots
  <2>1. CASE f = t
    BY <2>1, <1>1, <1>2, LocalAdded
  <2>2. CASE f # t
    BY <2>2, <1>1, LocalAdded
  <2> QED BY <2>1, <2>2
<1>4. ASSUME NEW f \in DOMAIN locals', NEW j \in DOMAIN locals'[f], New(f, j)
      PROVE  f = t /\ j = Len(Top(locals)) + 1 /\ locals'[f][j] = new[1]
  <2>1. f \in DOMAIN locals /\ j \notin DOMAIN locals[f]
    BY <1>4, LocalAdded DEF New
  <2>2. f = t
    BY <2>1, <1>1, LocalAdded
  <2>3. j \in 1 .. Len(Top(locals)) + 1
    BY <2>2, LocalAdded
  <2>4. j = Len(Top(locals)) + 1
    BY <2>1, <2>2, <2>3, <1>1, <1>2
  <2> QED BY <2>2, <2>4, LocalAdded
<1>5. new[1] \notin UsedVars
  BY NewVarsAre
<1> QED BY <1>3, <1>4, <1>5

LEMMA DefineVariableStep == ASSUME IInv, define_variable PROVE IInv'
<1>1. TypeOK /\ Shape /\ Basic /\ frames # <<>>
  BY TypesBasic DEF IInv, Running, define_variable
<1>2. PICK new \in NewVars(1) : locals' = [locals EXCEPT ![Len(locals)] = @ \o new]
  BY DEF define_variable
<1>3. UNCHANGED <<stack, frames, open, upvalue, upvalues, capturing, named>>
  BY DEF define_variable, machine
<1>4. TypeOK'
  <2>1. /\ locals' \in Seq(Seq(Var)) /\ Len(locals') = Len(locals)
        /\ \A f \in DOMAIN frames : f # Len(frames) => locals'[f] = locals[f]
        /\ Len(locals'[Len(frames)]) = Len(Top(locals)) + 1
    BY <1>1, <1>2, LocalAdded
  <2>2. Base + Len(locals'[Len(frames)]) <= Len(stack') + 1
    <3>1. Temporaries = 1
      BY DEF define_variable
    <3> QED BY <3>1, <2>1, <1>1, <1>3, TopIsHighest DEF Temporaries, Basic
  <2>3. FramesApart'
    <3>1. Len(stack') \in Nat /\ Len(locals'[Len(frames)]) \in Nat
      BY <1>1, <1>3, <2>1, TopIsHighest DEF Basic
    <3> QED BY <3>1, <2>1, <2>2, <1>1, <1>3, TopFrameFits
  <2> QED BY <2>1, <2>3, <1>1, <1>3 DEF TypeOK
<1>5. Shape'
  BY <1>1, <1>3 DEF Shape
<1>6. \A p \in DOMAIN open : open[p] \in DOMAIN upvalue
  BY DEF IInv, OpenExact
<1> QED BY <1>1, <1>2, <1>3, <1>4, <1>5, <1>6, LocalIsNew, VariablesAdded

LEMMA MakeClosureStep == ASSUME IInv, NEW n \in Nat, MakeClosure(n) PROVE IInv'
<1>1. TypeOK /\ Shape /\ Basic /\ frames # <<>>
  BY TypesBasic DEF IInv, Running, MakeClosure
<1>2. PICK cl \in Closure \ DOMAIN upvalues :
        /\ stack' = Append(stack, cl)
        /\ upvalues' = [x \in DOMAIN upvalues \cup {cl} |-> IF x = cl THEN <<>> ELSE upvalues[x]]
        /\ named' = [x \in DOMAIN named \cup {cl} |-> IF x = cl THEN <<>> ELSE named[x]]
  BY DEF MakeClosure, Push
<1>3. UNCHANGED <<frames, open, upvalue>> /\ capturing' = n
  BY DEF MakeClosure
<1>4. /\ stack' \in Seq(Value) /\ Len(stack') = Len(stack) + 1 /\ stack' # <<>>
      /\ stack'[Len(stack) + 1] = cl
  <2>1. stack \in Seq(Value) /\ cl \in Value
    BY <1>1 DEF TypeOK, Value
  <2> QED BY <2>1, <1>2, AppendProperties
<1>5. /\ DOMAIN upvalues' = DOMAIN upvalues \cup {cl} /\ DOMAIN upvalues' \subseteq Closure
      /\ upvalues' \in [DOMAIN upvalues' -> Seq(Upvalue)] /\ named' \in [DOMAIN upvalues' -> Seq(Var)]
      /\ upvalues'[cl] = <<>> /\ named'[cl] = <<>>
      /\ \A x \in DOMAIN upvalues : upvalues'[x] = upvalues[x] /\ named'[x] = named[x]
  <2>1. /\ <<>> \in Seq(Upvalue) /\ <<>> \in Seq(Var)
    OBVIOUS
  <2> QED BY <2>1, <1>1, <1>2 DEF Basic
<1>6. Shape'
  <2>1. Top(stack') = cl
    BY <1>4 DEF Top
  <2>2. ASSUME NEW x \in DOMAIN upvalues'
        PROVE  /\ Len(named'[x]) = Len(upvalues'[x])
               /\ \A k \in DOMAIN upvalues'[x] : upvalues'[x][k] \in DOMAIN upvalue'
    <3>1. CASE x = cl
      BY <3>1, <1>5
    <3>2. CASE x # cl
      BY <3>2, <1>1, <1>3, <1>5 DEF Shape
    <3> QED BY <3>1, <3>2
  <2>3. \A f \in DOMAIN frames' : frames'[f].closure \in DOMAIN upvalues'
    BY <1>1, <1>3, <1>5 DEF Shape
  <2> QED BY <2>1, <2>2, <2>3, <1>1, <1>3, <1>4, <1>5 DEF Shape
<1>7. \A p \in DOMAIN open : open[p] \in DOMAIN upvalue
  BY DEF IInv, OpenExact
<1>8. \A x \in DOMAIN upvalues' : \A k \in DOMAIN upvalues'[x] :
        /\ x \in DOMAIN upvalues /\ k \in DOMAIN upvalues[x]
        /\ upvalues'[x][k] = upvalues[x][k] /\ named'[x][k] = named[x][k]
  BY <1>5
<1>9. CASE UNCHANGED locals
  <2>1. FramesApart'
    <3>1. /\ Len(stack') \in Nat /\ Len(locals'[Len(frames)]) \in Nat
          /\ Base + Len(locals'[Len(frames)]) <= Len(stack') + 1
      BY <1>1, <1>4, <1>9, TopIsHighest DEF Basic
    <3> QED BY <3>1, <1>1, <1>3, <1>9, TopFrameFits
  <2>2. TypeOK'
    BY <2>1, <1>1, <1>3, <1>4, <1>5, <1>9 DEF TypeOK
  <2>3. \A f \in DOMAIN locals : \A i \in DOMAIN locals[f] : ~New(f, i)
    BY DEF New
  <2> QED BY <2>2, <2>3, <1>3, <1>6, <1>7, <1>8, <1>9, VariablesAdded
<1>10. CASE /\ Temporaries = 0
            /\ \E new \in NewVars(1) : locals' = [locals EXCEPT ![Len(locals)] = @ \o new]
  <2>1. PICK new \in NewVars(1) : locals' = [locals EXCEPT ![Len(locals)] = @ \o new]
    BY <1>10
  <2>2. /\ locals' \in Seq(Seq(Var)) /\ Len(locals') = Len(locals)
        /\ \A f \in DOMAIN frames : f # Len(frames) => locals'[f] = locals[f]
        /\ Len(locals'[Len(frames)]) = Len(Top(locals)) + 1
    BY <1>1, <2>1, LocalAdded
  <2>3. FramesApart'
    <3>1. /\ Len(stack') \in Nat /\ Len(locals'[Len(frames)]) \in Nat
          /\ Base + Len(locals'[Len(frames)]) <= Len(stack') + 1
      BY <1>1, <1>4, <1>10, <2>2, TopIsHighest DEF Basic, Temporaries
    <3> QED BY <3>1, <2>2, <1>1, <1>3, TopFrameFits
  <2>4. TypeOK'
    BY <2>2, <2>3, <1>1, <1>3, <1>4, <1>5 DEF TypeOK
  <2> QED BY <1>1, <2>1, <2>4, <1>3, <1>6, <1>7, <1>8, LocalIsNew, VariablesAdded
<1> QED BY <1>9, <1>10 DEF MakeClosure

(* A frame begins where the locals of the others have ended.               *)
LEMMA CallStep == ASSUME IInv, NEW argc \in Nat, Call(argc) PROVE IInv'
<1> DEFINE t == Len(frames)
<1> DEFINE base == Len(stack) - argc
<1> DEFINE frame == [closure |-> Peek(argc), slots |-> base]
<1>1. TypeOK /\ Shape /\ Basic /\ FramesApart /\ frames # <<>> /\ capturing = 0
  BY TypesBasic DEF IInv, TypeOK, Running, Call
<1>2. /\ UNCHANGED <<stack, open, upvalue, upvalues, capturing, named>>
      /\ frames' = Append(frames, frame) /\ Peek(argc) \in DOMAIN upvalues
      /\ \E new \in NewVars(argc + 1) : locals' = Append(locals, new)
  BY DEF Call
<1>3. PICK new \in NewVars(argc + 1) : locals' = Append(locals, new)
  BY <1>2
<1>4. /\ new \in Seq(Var) /\ Len(new) = argc + 1 /\ DOMAIN new = 1 .. argc + 1
      /\ \A i \in DOMAIN new : new[i] \notin UsedVars
      /\ \A i, j \in DOMAIN new : new[i] = new[j] => i = j
  BY NewVarsAre
<1>5. /\ base \in Nat \ {0} /\ Base + Len(Top(locals)) <= base /\ base + (argc + 1) = Len(stack) + 1
      /\ \A f \in DOMAIN frames : frames[f].slots + Len(locals[f]) <= base
  <2>1. Temporaries >= argc + 1
    BY DEF Call
  <2>2. base \in Nat \ {0} /\ Base + Len(Top(locals)) <= base /\ base + (argc + 1) = Len(stack) + 1
    <3>1. Base \in Nat \ {0} /\ Len(Top(locals)) \in Nat /\ Len(stack) \in Nat
      BY <1>1, TopIsHighest DEF Basic
    <3>2. Len(stack) - Base + 1 - Len(Top(locals)) >= argc + 1
      BY <2>1 DEF Temporaries
    <3> QED BY <3>1, <3>2
  <2>3. ASSUME NEW f \in DOMAIN frames PROVE frames[f].slots + Len(locals[f]) <= base
    <3>1. frames[f].slots + Len(locals[f]) <= Base + Len(Top(locals))
      BY <1>1, TopIsHighest
    <3>2. frames[f].slots + Len(locals[f]) \in Nat /\ Base + Len(Top(locals)) \in Nat
      BY <1>1, TopIsHighest DEF Basic
    <3> QED BY <3>1, <3>2, <2>2
  <2> QED BY <2>2, <2>3
<1>6. /\ frames' \in Seq([closure : Closure, slots : Nat \ {0}])
      /\ Len(frames') = t + 1 /\ DOMAIN frames' = 1 .. t + 1
      /\ \A f \in DOMAIN frames : frames'[f] = frames[f]
      /\ frames'[t + 1] = frame
  <2>1. frames \in Seq([closure : Closure, slots : Nat \ {0}]) /\ DOMAIN frames = 1 .. Len(frames)
    BY <1>1 DEF TypeOK, Basic
  <2>2. frame \in [closure : Closure, slots : Nat \ {0}]
    BY <1>1, <1>2, <1>5 DEF Basic
  <2> HIDE DEF frame
  <2> QED BY <2>1, <2>2, <1>2, AppendProperties
<1>7. /\ locals' \in Seq(Seq(Var))
      /\ Len(locals') = t + 1 /\ DOMAIN locals' = 1 .. t + 1
      /\ \A f \in DOMAIN locals : locals'[f] = locals[f]
      /\ locals'[t + 1] = new
  <2>1. locals \in Seq(Seq(Var)) /\ DOMAIN locals = 1 .. Len(locals) /\ Len(locals) = t
    BY <1>1 DEF TypeOK, Basic
  <2>2. new \in Seq(Var)
    BY <1>4
  <2> QED BY <2>1, <2>2, <1>3, AppendProperties
<1>8. DOMAIN frames = 1 .. t /\ DOMAIN locals = 1 .. t /\ t \in Nat
  BY <1>1 DEF Basic
<1> HIDE DEF t, base
<1>9. FramesApart'
  <2>1. ASSUME NEW f \in 1 .. t
        PROVE  /\ frames'[f].slots + Len(locals'[f]) <= Len(stack') + 1
               /\ \A e \in 1 .. f - 1 : frames'[e].slots + Len(locals'[e]) <= frames'[f].slots
    <3>1. frames'[f] = frames[f] /\ locals'[f] = locals[f]
      BY <1>6, <1>7, <1>8
    <3>2. ASSUME NEW e \in 1 .. f - 1
          PROVE  frames'[e].slots + Len(locals'[e]) <= frames'[f].slots
      <4>1. e \in DOMAIN frames /\ e \in DOMAIN locals
        BY <1>8, EarlierIndex
      <4>2. frames'[e] = frames[e] /\ locals'[e] = locals[e]
        BY <4>1, <1>6, <1>7
      <4> QED BY <4>2, <3>1, <1>1, <1>8 DEF FramesApart
    <3> QED BY <3>1, <3>2, <1>1, <1>2, <1>8 DEF FramesApart
  <2>2. frames'[t + 1].slots + Len(locals'[t + 1]) <= Len(stack') + 1
    <3>1. frames'[t + 1].slots = base /\ Len(locals'[t + 1]) = argc + 1 /\ Len(stack') = Len(stack)
      BY <1>2, <1>4, <1>6, <1>7
    <3>2. base + (argc + 1) <= Len(stack) + 1
      BY <1>1, <1>5 DEF Basic
    <3> QED BY <3>1, <3>2
  <2>3. ASSUME NEW e \in 1 .. t
        PROVE  frames'[e].slots + Len(locals'[e]) <= frames'[t + 1].slots
    BY <1>5, <1>6, <1>7, <1>8
  <2>4. \A f \in 1 .. t + 1 : f \in 1 .. t \/ f = t + 1
    BY <1>8
  <2>5. \A e \in 1 .. (t + 1) - 1 : e \in 1 .. t
    BY <1>8
  <2> QED BY <2>1, <2>2, <2>3, <2>4, <2>5, <1>6 DEF FramesApart
<1>10. TypeOK'
  BY <1>1, <1>2, <1>6, <1>7, <1>9 DEF TypeOK
<1>11. Shape'
  <2>1. ASSUME NEW f \in DOMAIN frames' PROVE frames'[f].closure \in DOMAIN upvalues'
    <3>1. f \in DOMAIN frames \/ f = t + 1
      BY <1>6, <1>8
    <3> QED BY <3>1, <1>1, <1>2, <1>6 DEF Shape
  <2> QED BY <2>1, <1>1, <1>2 DEF Shape
<1>12. /\ \A p \in DOMAIN open : open[p] \in DOMAIN upvalue'
       /\ \A cl \in DOMAIN upvalues' : \A k \in DOMAIN upvalues'[cl] :
            /\ cl \in DOMAIN upvalues /\ k \in DOMAIN upvalues[cl]
            /\ upvalues'[cl][k] = upvalues[cl][k] /\ named'[cl][k] = named[cl][k]
  BY <1>2 DEF IInv, OpenExact
<1>13. \A f \in DOMAIN locals : \A i \in DOMAIN locals[f] :
         /\ f \in DOMAIN locals' /\ i \in DOMAIN locals'[f]
         /\ locals'[f][i] = locals[f][i] /\ frames'[f].slots = frames[f].slots
  BY <1>6, <1>7, <1>8
<1>14. ASSUME NEW f \in DOMAIN locals', NEW j \in DOMAIN locals'[f], New(f, j)
       PROVE  f = t + 1 /\ j \in DOMAIN new /\ locals'[f][j] = new[j]
  <2>1. f \in DOMAIN locals \/ f = t + 1
    BY <1>7, <1>8
  <2> QED BY <2>1, <1>7, <1>14 DEF New
<1>15. \A e, f \in DOMAIN locals' : \A i \in DOMAIN locals'[e], j \in DOMAIN locals'[f] :
         New(f, j) => /\ locals'[f][j] \notin UsedVars
                      /\ New(e, i) /\ locals'[e][i] = locals'[f][j] => e = f /\ i = j
  BY <1>4, <1>14
<1> QED BY <1>2, <1>10, <1>11, <1>12, <1>13, <1>15, VariablesAdded

(* Garbage is in nothing that is kept.                                     *)
LEMMA CollectStep == ASSUME IInv, Collect PROVE IInv'
<1>1. TypeOK /\ Shape /\ Basic /\ OpenExact
  BY TypesBasic DEF IInv
<1> DEFINE Kept(S) == DOMAIN upvalues \ S
<1> DEFINE Using(S) == Elements(open) \cup UNION {Elements(upvalues[cl]) : cl \in Kept(S)}
<1>2. PICK S \in SUBSET DOMAIN upvalues :
        /\ S \cap Elements(stack) = {}
        /\ \A f \in DOMAIN frames : frames[f].closure \notin S
        /\ upvalues' = [cl \in Kept(S) |-> upvalues[cl]]
        /\ named' = [cl \in Kept(S) |-> named[cl]]
        /\ upvalue' = [u \in Using(S) |-> upvalue[u]]
  BY DEF Collect
<1>3. UNCHANGED <<stack, frames, open, capturing, locals>>
  BY DEF Collect
<1>4. /\ \A p \in DOMAIN open : open[p] \in Using(S) /\ open[p] \in DOMAIN upvalue
      /\ \A cl \in Kept(S) : \A k \in DOMAIN upvalues[cl] :
           upvalues[cl][k] \in Using(S) /\ upvalues[cl][k] \in DOMAIN upvalue
  <2>1. \A p \in DOMAIN open : open[p] \in Elements(open) /\ open[p] \in DOMAIN upvalue
    BY <1>1 DEF OpenExact, Elements
  <2>2. ASSUME NEW cl \in Kept(S), NEW k \in DOMAIN upvalues[cl]
        PROVE  upvalues[cl][k] \in Using(S) /\ upvalues[cl][k] \in DOMAIN upvalue
    <3>1. upvalues[cl][k] \in Elements(upvalues[cl])
      BY DEF Elements
    <3> QED BY <3>1, <1>1 DEF Shape
  <2> QED BY <2>1, <2>2
<1>5. Using(S) \subseteq DOMAIN upvalue
  <2> SUFFICES ASSUME NEW u \in Using(S) PROVE u \in DOMAIN upvalue
    OBVIOUS
  <2>1. CASE u \in Elements(open)
    BY <2>1, <1>4 DEF Elements
  <2>2. CASE u \in UNION {Elements(upvalues[cl]) : cl \in Kept(S)}
    <3>1. PICK cl \in Kept(S) : u \in Elements(upvalues[cl])
      BY <2>2
    <3> QED BY <3>1, <1>4 DEF Elements
  <2> QED BY <2>1, <2>2
<1> DEFINE used == Using(S)
<1> DEFINE kept == Kept(S)
<1>6. /\ DOMAIN upvalue' = used /\ used \subseteq DOMAIN upvalue
      /\ \A u \in used : upvalue'[u] = upvalue[u]
  BY <1>2, <1>5
<1>7. /\ DOMAIN upvalues' = kept /\ DOMAIN named' = kept /\ kept \subseteq DOMAIN upvalues
      /\ \A cl \in kept : upvalues'[cl] = upvalues[cl] /\ named'[cl] = named[cl]
  BY <1>2
<1>8. /\ upvalue' = [u \in used |-> upvalue[u]]
      /\ upvalues' = [cl \in kept |-> upvalues[cl]] /\ named' = [cl \in kept |-> named[cl]]
  BY <1>2
<1>9. \A f \in DOMAIN frames : frames[f].closure \in kept
  BY <1>1, <1>2 DEF Shape
<1>10. capturing > 0 => Top(stack) \in kept
  <2> SUFFICES ASSUME capturing > 0 PROVE Top(stack) \notin S /\ Top(stack) \in DOMAIN upvalues
    OBVIOUS
  <2>1. stack # <<>> /\ Top(stack) \in DOMAIN upvalues /\ stack \in Seq(Value)
    BY <1>1 DEF Shape, TypeOK
  <2>2. Len(stack) \in DOMAIN stack
    BY <2>1, EmptySeq
  <2>3. Top(stack) \in Elements(stack)
    BY <2>2 DEF Top, Elements
  <2> QED BY <2>1, <2>3, <1>2
<1>11. \A cl \in kept : \A k \in DOMAIN upvalues[cl] : upvalues[cl][k] \in used
  BY <1>4
<1>12. \A p \in DOMAIN open : open[p] \in used
  BY <1>4
<1> HIDE DEF used, kept
<1>13. TypeOK'
  <2>1. FramesApart'
    BY <1>1, <1>3 DEF TypeOK, FramesApart
  <2>2. upvalue' \in [used -> [location : Nat, closed : Value]]
    <3>1. \A u \in used : upvalue[u] \in [location : Nat, closed : Value]
      BY <1>1, <1>6 DEF TypeOK
    <3> QED BY <3>1, <1>8
  <2>3. upvalues' \in [kept -> Seq(Upvalue)] /\ named' \in [kept -> Seq(Var)]
    <3>1. \A cl \in kept : upvalues[cl] \in Seq(Upvalue) /\ named[cl] \in Seq(Var)
      BY <1>1, <1>7 DEF Basic
    <3> QED BY <3>1, <1>8
  <2>4. DOMAIN upvalue' \subseteq Upvalue /\ DOMAIN upvalues' \subseteq Closure
    BY <1>1, <1>6, <1>7 DEF TypeOK
  <2> QED BY <2>1, <2>2, <2>3, <2>4, <1>1, <1>3, <1>6, <1>7 DEF TypeOK
<1>14. Shape'
  BY <1>1, <1>3, <1>6, <1>7, <1>9, <1>10, <1>11 DEF Shape
<1>15. \A f \in DOMAIN locals : \A i \in DOMAIN locals[f] : ~New(f, i)
  BY DEF New
<1> QED BY <1>3, <1>6, <1>7, <1>12, <1>13, <1>14, <1>15, VariablesAdded
-----------------------------------------------------------------------------
(* Capturing.                                                              *)

LEMMA AppendOne ==
  ASSUME NEW S, NEW s \in Seq(S), NEW e \in S
  PROVE  /\ Append(s, e) \in Seq(S) /\ Len(Append(s, e)) = Len(s) + 1
         /\ DOMAIN Append(s, e) = 1 .. Len(s) + 1
         /\ \A i \in 1 .. Len(s) : Append(s, e)[i] = s[i]
         /\ Append(s, e)[Len(s) + 1] = e
BY AppendProperties

(* The closure on top of the stack gets u for v, which stands for v alone. *)
LEMMA ClosureFilled ==
  ASSUME IInv, UNCHANGED <<stack, frames, locals>>, capturing > 0, capturing' \in Nat,
         open' \in Seq(Upvalue), DOMAIN upvalue' \subseteq Upvalue,
         upvalue' \in [DOMAIN upvalue' -> [location : Nat, closed : Value]],
         OpenExact', DOMAIN upvalue \subseteq DOMAIN upvalue',
         \A w \in DOMAIN upvalue : upvalue'[w] = upvalue[w],
         NEW u \in Upvalue, NEW v \in Var, u \in DOMAIN upvalue', Captured(u, v),
         \A f \in DOMAIN locals : \A i \in DOMAIN locals[f] :
           locals[f][i] = v => upvalue'[u].location = At(f, i),
         upvalue'[u].location # CLOSED =>
           \E f \in DOMAIN locals : \E i \in DOMAIN locals[f] : locals[f][i] = v,
         \A cm \in DOMAIN upvalues : \A l \in DOMAIN upvalues[cm] :
           named[cm][l] = v <=> upvalues[cm][l] = u
  PROVE  IInv'
<1> DEFINE cl == Top(stack)
<1>1. TypeOK /\ Shape /\ Basic /\ Distinct /\ Means /\ OneUpvaluePerVariable
  BY TypesBasic DEF IInv
<1>2. cl \in DOMAIN upvalues /\ frames # <<>> /\ stack # <<>> /\ cl \in DOMAIN named
  BY <1>1 DEF Shape, Basic
<1>3. Peek(0) = cl
  BY <1>1 DEF Peek, Top, Basic
<1> HIDE DEF cl
<1>4. /\ upvalues' = [upvalues EXCEPT ![cl] = Append(upvalues[cl], u)]
      /\ named' = [named EXCEPT ![cl] = Append(named[cl], v)]
  BY <1>3 DEF Captured
<1> DEFINE n == Len(upvalues[cl])
<1>5. /\ n \in Nat /\ Len(named[cl]) = n
      /\ upvalues[cl] \in Seq(Upvalue) /\ named[cl] \in Seq(Var)
      /\ DOMAIN upvalues[cl] = 1 .. n /\ DOMAIN named[cl] = 1 .. n
  BY <1>1, <1>2 DEF Basic, Shape
<1>6. /\ DOMAIN upvalues' = DOMAIN upvalues /\ DOMAIN named' = DOMAIN upvalues
      /\ \A x \in DOMAIN upvalues : x # cl => upvalues'[x] = upvalues[x] /\ named'[x] = named[x]
      /\ upvalues'[cl] = Append(upvalues[cl], u) /\ named'[cl] = Append(named[cl], v)
  BY <1>1, <1>2, <1>4 DEF Basic
<1> HIDE DEF n
<1>7. /\ upvalues'[cl] \in Seq(Upvalue) /\ DOMAIN upvalues'[cl] = 1 .. n + 1
      /\ Len(upvalues'[cl]) = n + 1
      /\ \A k \in 1 .. n : upvalues'[cl][k] = upvalues[cl][k]
      /\ upvalues'[cl][n + 1] = u
  BY <1>5, <1>6, AppendOne DEF n
<1>8. /\ named'[cl] \in Seq(Var) /\ Len(named'[cl]) = n + 1
      /\ \A k \in 1 .. n : named'[cl][k] = named[cl][k]
      /\ named'[cl][n + 1] = v
  <2>1. /\ Append(named[cl], v) \in Seq(Var) /\ Len(Append(named[cl], v)) = Len(named[cl]) + 1
        /\ \A k \in 1 .. Len(named[cl]) : Append(named[cl], v)[k] = named[cl][k]
        /\ Append(named[cl], v)[Len(named[cl]) + 1] = v
    BY <1>5, AppendOne
  <2> QED BY <2>1, <1>5, <1>6
<1> DEFINE Old(x, k) == /\ x \in DOMAIN upvalues /\ k \in DOMAIN upvalues[x]
                        /\ upvalues'[x][k] = upvalues[x][k] /\ named'[x][k] = named[x][k]
           Added(x, k) == x = cl /\ k = n + 1 /\ upvalues'[x][k] = u /\ named'[x][k] = v
<1>9. ASSUME NEW x \in DOMAIN upvalues', NEW k \in DOMAIN upvalues'[x]
      PROVE  Old(x, k) \/ Added(x, k)
  <2>1. CASE x # cl
    BY <2>1, <1>6
  <2>2. CASE x = cl
    <3>1. k \in 1 .. n \/ k = n + 1
      BY <2>2, <1>5, <1>7
    <3> QED BY <3>1, <2>2, <1>2, <1>5, <1>7, <1>8
  <2> QED BY <2>1, <2>2
<1>10. \A x \in DOMAIN upvalues : \A k \in DOMAIN upvalues[x] :
         /\ upvalues[x][k] \in DOMAIN upvalue
         /\ upvalue'[upvalues[x][k]] = upvalue[upvalues[x][k]]
  BY <1>1 DEF Shape
<1>11. TypeOK'
  <2>1. FramesApart'
    BY <1>1 DEF TypeOK, FramesApart
  <2>2. /\ upvalues' \in [DOMAIN upvalues' -> Seq(Upvalue)] /\ named' \in [DOMAIN upvalues' -> Seq(Var)]
        /\ DOMAIN upvalues' \subseteq Closure
    <3>1. \A x \in DOMAIN upvalues : upvalues'[x] \in Seq(Upvalue) /\ named'[x] \in Seq(Var)
      BY <1>1, <1>6, <1>7, <1>8 DEF Basic
    <3>2. DOMAIN upvalues \subseteq Closure
      BY <1>1 DEF TypeOK
    <3> QED BY <3>1, <3>2, <1>4, <1>6
  <2> QED BY <2>1, <2>2, <1>1 DEF TypeOK
<1>12. Shape'
  <2>1. ASSUME NEW x \in DOMAIN upvalues' PROVE Len(named'[x]) = Len(upvalues'[x])
    <3>1. CASE x = cl
      BY <3>1, <1>7, <1>8
    <3>2. CASE x # cl
      BY <3>2, <1>1, <1>6 DEF Shape
    <3> QED BY <3>1, <3>2
  <2>2. ASSUME NEW x \in DOMAIN upvalues', NEW k \in DOMAIN upvalues'[x]
        PROVE  upvalues'[x][k] \in DOMAIN upvalue'
    BY <1>9, <1>10
  <2>3. /\ \A f \in DOMAIN frames : frames[f].closure \in DOMAIN upvalues'
        /\ Top(stack) \in DOMAIN upvalues'
    BY <1>1, <1>2, <1>6 DEF Shape, cl
  <2> QED BY <2>1, <2>2, <2>3, <1>2 DEF Shape
<1>13. Distinct'
  BY <1>1 DEF Distinct
<1>14. Means'
  <2> SUFFICES ASSUME NEW x \in DOMAIN upvalues', NEW k \in DOMAIN upvalues'[x]
               PROVE  /\ \A f \in DOMAIN locals : \A i \in DOMAIN locals[f] :
                           locals[f][i] = named'[x][k] =>
                             upvalue'[upvalues'[x][k]].location = At(f, i)
                      /\ upvalue'[upvalues'[x][k]].location # CLOSED =>
                           \E f \in DOMAIN locals : \E i \in DOMAIN locals[f] :
                             locals[f][i] = named'[x][k]
    BY DEF Means, At
  <2>1. CASE Old(x, k)
    BY <2>1, <1>1, <1>10 DEF Means
  <2>2. CASE Added(x, k)
    BY <2>2
  <2> QED BY <2>1, <2>2, <1>9
<1>15. OneUpvaluePerVariable'
  <2> SUFFICES ASSUME NEW x \in DOMAIN upvalues', NEW k \in DOMAIN upvalues'[x],
                      NEW y \in DOMAIN upvalues', NEW l \in DOMAIN upvalues'[y]
               PROVE  named'[x][k] = named'[y][l] <=> upvalues'[x][k] = upvalues'[y][l]
    BY DEF OneUpvaluePerVariable
  <2>1. (Old(x, k) \/ Added(x, k)) /\ (Old(y, l) \/ Added(y, l))
    BY <1>9
  <2>2. CASE Old(x, k) /\ Old(y, l)
    BY <2>2, <1>1 DEF OneUpvaluePerVariable
  <2>3. CASE Old(x, k) /\ Added(y, l)
    BY <2>3
  <2>4. CASE Added(x, k) /\ Old(y, l)
    BY <2>4
  <2>5. CASE Added(x, k) /\ Added(y, l)
    BY <2>5
  <2> QED BY <2>1, <2>2, <2>3, <2>4, <2>5
<1> QED BY <1>11, <1>12, <1>13, <1>14, <1>15 DEF IInv

(* A set of naturals that is not empty has a least element.                *)
LEMMA LeastElement ==
  ASSUME NEW S \in SUBSET Nat, S # {}
  PROVE  \E d \in S : \A e \in S : d <= e
<1> DEFINE R == {ss \in Nat \X Nat : ss[1] < ss[2]}
<1>1. IsWellFoundedOn(R, Nat)
  BY NatLessThanWellFounded DEF OpToRel
<1> HIDE DEF R
<1>2. PICK d \in S : \A e \in S : ~(<<e, d>> \in R)
  BY <1>1, WFMin
<1>3. ASSUME NEW e \in S PROVE d <= e
  <2>1. d \in Nat /\ e \in Nat
    OBVIOUS
  <2>2. e < d => <<e, d>> \in R
    BY <2>1 DEF R
  <2> QED BY <1>2, <2>1, <2>2
<1> QED BY <1>3

(* The walk down the list ends at the first upvalue that is low enough.    *)
LEMMA FirstLow ==
  ASSUME TypeOK, OpenExact, NEW slot \in Nat
  PROVE  \E p \in 1 .. Len(open) + 1 :
           /\ p \in DOMAIN open => upvalue[open[p]].location <= slot
           /\ \A q \in 1 .. p - 1 : upvalue[open[q]].location > slot
<1> DEFINE n == Len(open)
<1> DEFINE Low == {p \in 1 .. n + 1 : p \in DOMAIN open => upvalue[open[p]].location <= slot}
<1>1. Basic
  BY TypesBasic
<1>2. n \in Nat /\ DOMAIN open = 1 .. n /\ \A q \in 1 .. n : upvalue[open[q]].location \in Nat
  BY <1>1 DEF Basic, OpenExact
<1> HIDE DEF n
<1>3. Low \in SUBSET Nat /\ n + 1 \in Low
  BY <1>2
<1>4. PICK p \in Low : \A e \in Low : p <= e
  BY <1>3, LeastElement
<1>5. ASSUME NEW q \in 1 .. p - 1 PROVE upvalue[open[q]].location > slot
  <2>1. q \in 1 .. n /\ ~(p <= q)
    BY <1>2, <1>4
  <2>2. ~(upvalue[open[q]].location <= slot)
    BY <2>1, <1>2, <1>4
  <2> QED BY <2>1, <2>2, <1>2
<1> QED BY <1>4, <1>5 DEF n

LEMMA PositionIs ==
  ASSUME TypeOK, OpenExact, NEW slot \in Nat
  PROVE  /\ Position(slot) \in 1 .. Len(open) + 1
         /\ Position(slot) \in DOMAIN open => upvalue[open[Position(slot)]].location <= slot
         /\ \A q \in 1 .. Position(slot) - 1 : upvalue[open[q]].location > slot
BY FirstLow DEF Position

With(s, p, one) == (SubSeq(s, 1, p - 1) \o one) \o SubSeq(s, p, Len(s))

LEMMA Inserted ==
  ASSUME NEW S, NEW s \in Seq(S), NEW p \in 1 .. Len(s) + 1, NEW one \in Seq(S),
         Len(one) = 1
  PROVE  LET t == With(s, p, one) IN
         /\ t \in Seq(S) /\ Len(t) = Len(s) + 1 /\ DOMAIN t = 1 .. Len(s) + 1
         /\ \A i \in 1 .. p - 1 : t[i] = s[i]
         /\ t[p] = one[1]
         /\ \A i \in p + 1 .. Len(s) + 1 : t[i] = s[i - 1]
<1> DEFINE n == Len(s)
<1> DEFINE a == SubSeq(s, 1, p - 1)
<1> DEFINE c == SubSeq(s, p, Len(s))
<1> DEFINE b == a \o one
<1> DEFINE t == b \o c
<1>1. n \in Nat /\ p \in Nat /\ p - 1 \in 0 .. n /\ (p - 1) + 1 = p
  BY LenProperties
<1>2. a \in Seq(S) /\ Len(a) = p - 1 /\ \A i \in 1 .. p - 1 : a[i] = s[i]
  BY <1>1, Prefix
<1>3. c \in Seq(S) /\ Len(c) = n - (p - 1) /\ \A i \in 1 .. n - (p - 1) : c[i] = s[(p - 1) + i]
  BY <1>1, Suffix
<1>4. one \in Seq(S) /\ Len(one) = 1
  OBVIOUS
<1> HIDE DEF a, c
<1>5. /\ b \in Seq(S) /\ Len(b) = (p - 1) + 1
      /\ \A i \in 1 .. p - 1 : b[i] = a[i]
      /\ b[(p - 1) + 1] = one[1]
  <2>1. /\ b \in Seq(S) /\ Len(b) = Len(a) + 1
        /\ \A i \in 1 .. Len(a) : b[i] = a[i]
        /\ b[Len(a) + 1] = one[1]
    BY <1>2, <1>4, ConcatOne
  <2> HIDE DEF b
  <2> QED BY <2>1, <1>2, <1>4
<1>6. Len(b) = p /\ b[p] = one[1]
  BY <1>1, <1>5
<1> HIDE DEF b
<1>7. t = b \o c
  OBVIOUS
<1> HIDE DEF t
<1>8. /\ t \in Seq(S) /\ Len(t) = Len(b) + Len(c)
      /\ \A i \in 1 .. Len(b) + Len(c) : t[i] = IF i <= Len(b) THEN b[i] ELSE c[i - Len(b)]
  <2>1. /\ b \o c \in Seq(S) /\ Len(b \o c) = Len(b) + Len(c)
        /\ \A i \in 1 .. Len(b) + Len(c) : (b \o c)[i] = IF i <= Len(b) THEN b[i] ELSE c[i - Len(b)]
    BY <1>3, <1>5, ConcatProperties
  <2> QED BY <2>1, <1>7
<1>9. Len(b) + Len(c) = n + 1
  BY <1>1, <1>3, <1>6
<1> HIDE DEF n
<1>10. \A i \in 1 .. n + 1 : t[i] = IF i <= p THEN b[i] ELSE c[i - p]
  BY <1>6, <1>8, <1>9
<1>11. ASSUME NEW i \in 1 .. p - 1 PROVE t[i] = s[i]
  <2>1. i \in 1 .. n + 1 /\ i <= p
    BY <1>1
  <2> QED BY <2>1, <1>2, <1>5, <1>10
<1>12. t[p] = one[1]
  <2>1. p \in 1 .. n + 1 /\ p <= p
    BY <1>1
  <2> QED BY <2>1, <1>6, <1>10
<1>13. ASSUME NEW i \in p + 1 .. n + 1 PROVE t[i] = s[i - 1]
  <2>1. i \in 1 .. n + 1 /\ ~(i <= p) /\ i - p \in 1 .. n - (p - 1) /\ (p - 1) + (i - p) = i - 1
    BY <1>1
  <2> QED BY <2>1, <1>3, <1>10
<1>14. DOMAIN t = 1 .. n + 1
  BY <1>8, <1>9, LenProperties
<1> QED BY <1>8, <1>9, <1>11, <1>12, <1>13, <1>14 DEF n, t, a, b, c, With

(* The slot of a local, and the upvalue open there.                        *)
LEMMA OpenThere ==
  ASSUME IInv, NEW f \in DOMAIN locals, NEW i \in DOMAIN locals[f],
         NEW cm \in DOMAIN upvalues, NEW l \in DOMAIN upvalues[cm]
  PROVE  /\ upvalue[upvalues[cm][l]].location = At(f, i) <=> named[cm][l] = locals[f][i]
         /\ At(f, i) \in Nat \ {0}
         /\ upvalue[upvalues[cm][l]].location = At(f, i) =>
              \E q \in DOMAIN open : open[q] = upvalues[cm][l]
<1>1. Basic /\ Layout /\ Shape /\ OpenExact /\ Means
  BY TypesBasic, SlotsApart DEF IInv
<1>2. At(f, i) \in Nat \ {0}
  BY <1>1 DEF Layout, Basic
<1>3. named[cm][l] = locals[f][i] => upvalue[upvalues[cm][l]].location = At(f, i)
  BY <1>1 DEF Means
<1>4. ASSUME upvalue[upvalues[cm][l]].location = At(f, i)
      PROVE  named[cm][l] = locals[f][i]
  <2>1. upvalue[upvalues[cm][l]].location # CLOSED
    BY <1>2, <1>4 DEF CLOSED
  <2>2. PICK e \in DOMAIN locals : \E j \in DOMAIN locals[e] : locals[e][j] = named[cm][l]
    BY <2>1, <1>1 DEF Means
  <2>3. PICK j \in DOMAIN locals[e] : locals[e][j] = named[cm][l]
    BY <2>2
  <2>4. At(e, j) = At(f, i)
    BY <2>3, <1>1, <1>4 DEF Means
  <2> QED BY <2>3, <2>4, <1>1 DEF Layout
<1>5. ASSUME upvalue[upvalues[cm][l]].location = At(f, i)
      PROVE  \E q \in DOMAIN open : open[q] = upvalues[cm][l]
  <2>1. upvalue[upvalues[cm][l]].location # CLOSED
    BY <1>2, <1>5 DEF CLOSED
  <2>2. upvalues[cm][l] \in DOMAIN upvalue
    BY <1>1 DEF Shape
  <2> QED BY <2>1, <2>2, <1>1 DEF OpenExact
<1> QED BY <1>2, <1>3, <1>4, <1>5

(* A local that has an open upvalue: it is the one in the list.            *)
LEMMA CaptureKnown ==
  ASSUME IInv, NEW f \in DOMAIN locals, NEW i \in DOMAIN locals[f], NEW p \in DOMAIN open,
         upvalue[open[p]].location = At(f, i),
         UNCHANGED <<stack, frames, locals, open, upvalue>>, capturing > 0, capturing' \in Nat,
         Captured(open[p], locals[f][i])
  PROVE  IInv'
<1> DEFINE u == open[p]
<1> DEFINE v == locals[f][i]
<1>1. TypeOK /\ Basic /\ OpenExact /\ Distinct
  BY TypesBasic DEF IInv
<1>2. u \in Upvalue /\ v \in Var /\ u \in DOMAIN upvalue
  <2>1. open \in Seq(Upvalue) /\ locals[f] \in Seq(Var)
    BY <1>1 DEF TypeOK, Basic
  <2> QED BY <2>1, <1>1, ElementOfSeq DEF OpenExact
<1>3. \A e \in DOMAIN locals : \A j \in DOMAIN locals[e] :
        locals[e][j] = v => upvalue'[u].location = At(e, j)
  BY <1>1 DEF Distinct
<1>4. ASSUME NEW cm \in DOMAIN upvalues, NEW l \in DOMAIN upvalues[cm]
      PROVE  named[cm][l] = v <=> upvalues[cm][l] = u
  <2>1. ASSUME named[cm][l] = v PROVE upvalues[cm][l] = u
    <3>1. upvalue[upvalues[cm][l]].location = At(f, i)
      BY <2>1, OpenThere
    <3>2. PICK q \in DOMAIN open : open[q] = upvalues[cm][l]
      BY <3>1, OpenThere
    <3>3. q \in Nat /\ p \in Nat /\ At(f, i) \in Nat
      BY <1>1, OpenThere DEF Basic
    <3>4. ~(q < p) /\ ~(p < q)
      BY <3>1, <3>2, <3>3, <1>1 DEF OpenExact
    <3> QED BY <3>2, <3>3, <3>4
  <2>2. upvalues[cm][l] = u => named[cm][l] = v
    BY OpenThere
  <2> QED BY <2>1, <2>2
<1>5. OpenExact'
  <2>1. \A e, j : At(e, j)' = At(e, j)
    BY DEF At
  <2> QED BY <2>1, <1>1 DEF OpenExact
<1>6. /\ open' \in Seq(Upvalue) /\ DOMAIN upvalue' \subseteq Upvalue
      /\ upvalue' \in [DOMAIN upvalue' -> [location : Nat, closed : Value]]
  BY <1>1 DEF TypeOK
<1>7. /\ DOMAIN upvalue \subseteq DOMAIN upvalue' /\ u \in DOMAIN upvalue'
      /\ \A w \in DOMAIN upvalue : upvalue'[w] = upvalue[w]
  BY <1>2
<1>8. Captured(u, v) /\ \E e \in DOMAIN locals : \E j \in DOMAIN locals[e] : locals[e][j] = v
  OBVIOUS
<1> HIDE DEF u, v
<1> QED BY <1>2, <1>3, <1>4, <1>5, <1>6, <1>7, <1>8, ClosureFilled

LEMMA InsertedOpen ==
  ASSUME TypeOK, NEW p \in 1 .. Len(open) + 1, NEW u \in Upvalue,
         open' = SubSeq(open, 1, p - 1) \o <<u>> \o SubSeq(open, p, Len(open))
  PROVE  /\ open' \in Seq(Upvalue) /\ Len(open') = Len(open) + 1 /\ DOMAIN open' = 1 .. Len(open) + 1
         /\ \A q \in 1 .. p - 1 : open'[q] = open[q]
         /\ open'[p] = u
         /\ \A q \in p + 1 .. Len(open) + 1 : open'[q] = open[q - 1]
<1>1. open \in Seq(Upvalue)
  BY DEF TypeOK
<1> DEFINE one == <<u>>
<1>2. one \in Seq(Upvalue) /\ Len(one) = 1 /\ one[1] = u
  OBVIOUS
<1> DEFINE t == With(open, p, one)
<1>3. open' = t
  BY DEF With
<1> HIDE DEF one
<1>4. /\ t \in Seq(Upvalue) /\ Len(t) = Len(open) + 1 /\ DOMAIN t = 1 .. Len(open) + 1
      /\ \A q \in 1 .. p - 1 : t[q] = open[q]
      /\ t[p] = u
      /\ \A q \in p + 1 .. Len(open) + 1 : t[q] = open[q - 1]
  BY <1>1, <1>2, Inserted
<1> QED BY <1>3, <1>4

LEMMA AroundOne ==
  ASSUME NEW n \in Nat, NEW p \in 1 .. n + 1, NEW q \in 1 .. n + 1
  PROVE  \/ q \in 1 .. p - 1 /\ q \in 1 .. n
         \/ q = p
         \/ q \in p + 1 .. n + 1 /\ q - 1 \in 1 .. n
OBVIOUS

LEMMA InOrder ==
  ASSUME NEW n \in Nat, NEW p \in 1 .. n + 1, NEW q \in 1 .. n + 1, NEW r \in 1 .. n + 1, q < r
  PROVE  /\ ~(q = p /\ r = p) /\ ~(q = p /\ r \in 1 .. p - 1)
         /\ ~(q \in p + 1 .. n + 1 /\ r = p) /\ ~(q \in p + 1 .. n + 1 /\ r \in 1 .. p - 1)
OBVIOUS

(* A local without one: a new upvalue goes in where the walk ended.        *)
LEMMA CaptureNew ==
  ASSUME IInv, NEW f \in DOMAIN locals, NEW i \in DOMAIN locals[f], NEW p \in 1 .. Len(open) + 1,
         p \in DOMAIN open => upvalue[open[p]].location <= At(f, i),
         \A q \in 1 .. p - 1 : upvalue[open[q]].location > At(f, i),
         ~(p \in DOMAIN open /\ upvalue[open[p]].location = At(f, i)),
         NEW u \in Upvalue, u \notin DOMAIN upvalue,
         upvalue' = [x \in DOMAIN upvalue \cup {u} |->
                       IF x = u THEN [location |-> At(f, i), closed |-> NIL] ELSE upvalue[x]],
         open' = SubSeq(open, 1, p - 1) \o <<u>> \o SubSeq(open, p, Len(open)),
         UNCHANGED <<stack, frames, locals>>, capturing > 0, capturing' \in Nat,
         Captured(u, locals[f][i])
  PROVE  IInv'
<1> DEFINE v == locals[f][i]
<1> DEFINE slot == At(f, i)
<1> DEFINE n == Len(open)
<1>1. TypeOK /\ Basic /\ OpenExact /\ Distinct /\ Shape /\ Layout
  BY TypesBasic, SlotsApart DEF IInv
<1>2. slot \in Nat \ {0} /\ v \in Var
  <2>1. slot \in Nat \ {0}
    BY <1>1 DEF Layout, Basic
  <2>2. locals[f] \in Seq(Var)
    BY <1>1 DEF Basic
  <2>3. v \in Var
    BY <2>2, ElementOfSeq
  <2> QED BY <2>1, <2>3
<1>3. /\ n \in Nat /\ DOMAIN open = 1 .. n /\ open \in Seq(Upvalue) /\ p \in 1 .. n + 1
      /\ \A q \in 1 .. n : open[q] \in DOMAIN upvalue /\ upvalue[open[q]].location \in Nat
  BY <1>1 DEF Basic, OpenExact, TypeOK
<1> HIDE DEF n
<1>4. /\ open' \in Seq(Upvalue) /\ Len(open') = n + 1 /\ DOMAIN open' = 1 .. n + 1
      /\ \A q \in 1 .. p - 1 : open'[q] = open[q]
      /\ open'[p] = u
      /\ \A q \in p + 1 .. n + 1 : open'[q] = open[q - 1]
  BY <1>1, <1>3, InsertedOpen DEF n
<1> HIDE DEF slot, v
<1>5. /\ upvalue' = [x \in DOMAIN upvalue \cup {u} |->
                       IF x = u THEN [location |-> slot, closed |-> NIL] ELSE upvalue[x]]
      /\ Captured(u, v)
  BY DEF slot, v
<1>6. /\ DOMAIN upvalue' = DOMAIN upvalue \cup {u}
      /\ \A w \in DOMAIN upvalue : upvalue'[w] = upvalue[w]
      /\ upvalue'[u].location = slot
  BY <1>5
<1>7. /\ DOMAIN upvalue' \subseteq Upvalue
      /\ upvalue' \in [DOMAIN upvalue' -> [location : Nat, closed : Value]]
  <2>1. \A w \in DOMAIN upvalue : upvalue[w] \in [location : Nat, closed : Value]
    BY <1>1 DEF TypeOK
  <2>2. [location |-> slot, closed |-> NIL] \in [location : Nat, closed : Value]
    BY <1>2 DEF Value
  <2>3. DOMAIN upvalue \subseteq Upvalue
    BY <1>1 DEF TypeOK
  <2>4. \A w \in DOMAIN upvalue \cup {u} :
          (IF w = u THEN [location |-> slot, closed |-> NIL] ELSE upvalue[w])
            \in [location : Nat, closed : Value]
    BY <2>1, <2>2
  <2> QED BY <2>3, <2>4, <1>5, <1>6
<1> DEFINE Earlier(q) == q \in 1 .. p - 1 /\ q \in 1 .. n /\ open'[q] = open[q]
           Later(q) == q \in p + 1 .. n + 1 /\ q - 1 \in 1 .. n /\ open'[q] = open[q - 1]
<1>8. ASSUME NEW q \in 1 .. n + 1 PROVE Earlier(q) \/ q = p \/ Later(q)
  <2>1. \/ q \in 1 .. p - 1 /\ q \in 1 .. n
        \/ q = p
        \/ q \in p + 1 .. n + 1 /\ q - 1 \in 1 .. n
    BY <1>3, AroundOne
  <2> QED BY <2>1, <1>4
(* Upvalues before the new one are higher, those after it are lower.       *)
<1>9. \A q \in 1 .. n + 1 : Earlier(q) => upvalue[open[q]].location > slot
  BY DEF slot
<1>10. ASSUME NEW q \in 1 .. n + 1, Later(q) PROVE upvalue[open[q - 1]].location < slot
  <2>1. p \in 1 .. n /\ q - 1 \in 1 .. n /\ p <= q - 1
    BY <1>3, <1>10
  <2>2. upvalue[open[p]].location < slot
    <3>1. upvalue[open[p]].location <= slot /\ upvalue[open[p]].location # slot
      BY <2>1, <1>3 DEF slot
    <3> QED BY <3>1, <2>1, <1>2, <1>3
  <2>3. CASE p = q - 1
    BY <2>2, <2>3
  <2>4. CASE p < q - 1
    <3>1. upvalue[open[p]].location > upvalue[open[q - 1]].location
      BY <2>1, <2>4, <1>1, <1>3 DEF OpenExact
    <3> QED BY <3>1, <2>1, <2>2, <1>2, <1>3
  <2> QED BY <2>1, <2>3, <2>4
<1>11. \A q \in 1 .. n : upvalue[open[q]].location # slot
  <2> SUFFICES ASSUME NEW q \in 1 .. n, upvalue[open[q]].location = slot PROVE FALSE
    OBVIOUS
  <2>1. CASE q \in 1 .. p - 1
    <3>1. slot > slot
      <4>1. q \in 1 .. n + 1 /\ Earlier(q)
        <5>1. q \in 1 .. n + 1
          BY <1>3
        <5>2. open'[q] = open[q]
          BY <2>1, <1>4
        <5> QED BY <5>1, <5>2, <2>1
      <4>2. upvalue[open[q]].location > slot
        BY <4>1, <1>9
      <4> HIDE DEF Earlier
      <4> QED BY <4>2
    <3> QED BY <3>1, <1>2
  <2>2. CASE q = p
    BY <2>2, <1>3 DEF slot
  <2>3. CASE q \notin 1 .. p - 1 /\ q # p
    <3>1. q + 1 \in p + 1 .. n + 1 /\ (q + 1) - 1 = q /\ q + 1 \in 1 .. n + 1
      BY <2>3, <1>3
    <3>2. Later(q + 1)
      BY <3>1, <1>4
    <3>3. upvalue[open[q]].location < slot
      BY <3>1, <3>2, <1>10
    <3> QED BY <3>3, <1>2
  <2> QED BY <2>1, <2>2, <2>3
<1>12. OpenExact'
  <2>1. ASSUME NEW q \in 1 .. n + 1 PROVE open'[q] \in DOMAIN upvalue'
    BY <1>3, <1>4, <1>6, <1>8
  <2>2. ASSUME NEW w \in DOMAIN upvalue'
        PROVE  upvalue'[w].location # CLOSED <=> \E q \in 1 .. n + 1 : open'[q] = w
    <3>1. CASE w = u
      BY <3>1, <1>2, <1>3, <1>4, <1>6 DEF CLOSED
    <3>2. CASE w # u
      <4>1. w \in DOMAIN upvalue /\ upvalue'[w] = upvalue[w]
        BY <3>2, <1>6
      <4>2. ASSUME NEW q \in 1 .. n, open[q] = w PROVE \E r \in 1 .. n + 1 : open'[r] = w
        <5>1. q \in 1 .. p - 1 \/ (q + 1 \in p + 1 .. n + 1 /\ (q + 1) - 1 = q)
          BY <1>3
        <5>2. q \in 1 .. n + 1 /\ q + 1 \in 1 .. n + 1
          BY <1>3
        <5> QED BY <5>1, <5>2, <4>2, <1>4
      <4>3. ASSUME NEW r \in 1 .. n + 1, open'[r] = w PROVE \E q \in 1 .. n : open[q] = w
        BY <3>2, <4>3, <1>4, <1>8
      <4>4. upvalue[w].location # CLOSED <=> \E q \in 1 .. n : open[q] = w
        BY <4>1, <1>1, <1>3 DEF OpenExact
      <4> QED BY <4>1, <4>2, <4>3, <4>4
    <3> QED BY <3>1, <3>2
  <2>3. ASSUME NEW q \in 1 .. n + 1, NEW r \in 1 .. n + 1, q < r
        PROVE  upvalue'[open'[q]].location > upvalue'[open'[r]].location
    <3>1. CASE Earlier(q) /\ Earlier(r)
      <4>1. upvalue[open[q]].location > upvalue[open[r]].location
        BY <3>1, <2>3, <1>1, <1>3 DEF OpenExact
      <4> QED BY <4>1, <3>1, <1>3, <1>6
    <3>2. CASE Earlier(q) /\ r = p
      BY ZenonT(30), <3>2, <1>3, <1>4, <1>6, <1>9
    <3>3. CASE Earlier(q) /\ Later(r)
      <4>1. upvalue[open[q]].location > slot /\ upvalue[open[r - 1]].location < slot
        BY <3>3, <1>9, <1>10
      <4>2. upvalue[open[q]].location \in Nat /\ upvalue[open[r - 1]].location \in Nat
        BY <3>3, <1>3
      <4>3. upvalue[open[q]].location > upvalue[open[r - 1]].location
        BY <4>1, <4>2, <1>2
      <4> QED BY <4>3, <3>3, <1>3, <1>6
    <3>4. CASE q = p /\ Later(r)
      <4>1. upvalue[open[r - 1]].location < slot /\ upvalue[open[r - 1]].location \in Nat
        BY <3>4, <1>3, <1>10
      <4>2. slot > upvalue[open[r - 1]].location
        BY <4>1, <1>2
      <4> QED BY <4>2, <3>4, <1>3, <1>4, <1>6
    <3>5. CASE Later(q) /\ Later(r)
      <4>1. q - 1 < r - 1
        BY <2>3
      <4>2. upvalue[open[q - 1]].location > upvalue[open[r - 1]].location
        BY <4>1, <3>5, <1>1, <1>3 DEF OpenExact
      <4> QED BY <4>2, <3>5, <1>3, <1>6
    <3>6. ~(q = p /\ r = p) /\ ~(q = p /\ Earlier(r)) /\ ~(Later(q) /\ r = p) /\ ~(Later(q) /\ Earlier(r))
      <4>1. /\ Earlier(r) => r \in 1 .. p - 1
            /\ Later(q) => q \in p + 1 .. n + 1
        OBVIOUS
      <4> HIDE DEF Earlier, Later
      <4> QED BY <4>1, <2>3, <1>3, InOrder
    <3> HIDE DEF Earlier, Later
    <3>7. (Earlier(q) \/ q = p \/ Later(q)) /\ (Earlier(r) \/ r = p \/ Later(r))
      BY <1>8
    <3> QED BY <3>1, <3>2, <3>3, <3>4, <3>5, <3>6, <3>7
  <2>4. ASSUME NEW q \in 1 .. n + 1
        PROVE  \E e \in DOMAIN locals : \E j \in DOMAIN locals[e] :
                 upvalue'[open'[q]].location = At(e, j)
    <3>1. CASE q = p
      BY <3>1, <1>4, <1>6 DEF slot
    <3>2. CASE \E r \in 1 .. n : open'[q] = open[r]
      <4>1. PICK r \in 1 .. n : open'[q] = open[r]
        BY <3>2
      <4>2. upvalue'[open'[q]].location = upvalue[open[r]].location
        BY <4>1, <1>3, <1>6
      <4>3. PICK e \in DOMAIN locals : \E j \in DOMAIN locals[e] : upvalue[open[r]].location = At(e, j)
        BY <1>1, <1>3 DEF OpenExact
      <4> QED BY <4>2, <4>3
    <3> QED BY <3>1, <3>2, <1>8
  <2>5. \A e, j : At(e, j)' = At(e, j)
    BY DEF At
  <2> HIDE DEF Earlier, Later
  <2>6. \A q \in DOMAIN open' : open'[q] \in DOMAIN upvalue'
    BY <2>1, <1>4
  <2>7. \A w \in DOMAIN upvalue' :
          upvalue'[w].location # CLOSED <=> \E q \in DOMAIN open' : open'[q] = w
    BY <2>2, <1>4
  <2>8. \A q, r \in DOMAIN open' :
          q < r => upvalue'[open'[q]].location > upvalue'[open'[r]].location
    BY <2>3, <1>4
  <2>9. \A q \in DOMAIN open' : \E e \in DOMAIN locals' : \E j \in DOMAIN locals'[e] :
          upvalue'[open'[q]].location = At(e, j)'
    BY <2>4, <2>5, <1>4
  <2> QED BY <2>6, <2>7, <2>8, <2>9 DEF OpenExact
<1>13. ASSUME NEW cm \in DOMAIN upvalues, NEW l \in DOMAIN upvalues[cm]
       PROVE  named[cm][l] = v <=> upvalues[cm][l] = u
  <2>1. upvalues[cm][l] # u
    BY <1>1 DEF Shape
  <2>2. ASSUME named[cm][l] = v PROVE FALSE
    <3>1. upvalue[upvalues[cm][l]].location = slot
      BY <2>2, OpenThere DEF slot, v
    <3>2. PICK q \in DOMAIN open : open[q] = upvalues[cm][l]
      BY <3>1, OpenThere DEF slot
    <3> QED BY <3>1, <3>2, <1>3, <1>11
  <2> QED BY <2>1, <2>2
<1>14. /\ \A e \in DOMAIN locals : \A j \in DOMAIN locals[e] :
            locals[e][j] = v => upvalue'[u].location = At(e, j)
       /\ \E e \in DOMAIN locals : \E j \in DOMAIN locals[e] : locals[e][j] = v
  BY <1>1, <1>6 DEF Distinct, slot, v
<1>15. DOMAIN upvalue \subseteq DOMAIN upvalue' /\ u \in DOMAIN upvalue'
  BY <1>6
<1> HIDE DEF Earlier, Later
<1> QED BY <1>2, <1>4, <1>5, <1>6, <1>7, <1>12, <1>13, <1>14, <1>15, ClosureFilled

LEMMA CaptureStep == ASSUME IInv, Capture PROVE IInv'
<1>1. TypeOK /\ Basic /\ OpenExact /\ Shape /\ Layout
  BY TypesBasic, SlotsApart DEF IInv
<1>2. /\ capturing > 0 /\ capturing' \in Nat /\ UNCHANGED <<stack, frames, locals>>
      /\ frames # <<>>
  <2>1. capturing > 0 /\ capturing' = capturing - 1 /\ capturing \in Nat
    BY <1>1 DEF Capture, TypeOK
  <2> QED BY <2>1, <1>1 DEF Capture, Shape
<1>3. ASSUME NEW i \in DOMAIN Top(locals), NEW u \in Upvalue,
             capture_upvalue(Slot(i), u), Captured(u, Top(locals)[i])
      PROVE  IInv'
  <2> DEFINE t == Len(frames)
  <2> DEFINE p == Position(Slot(i))
  <2>1. Top(locals) = locals[t] /\ t \in DOMAIN locals /\ Slot(i) = At(t, i)
    BY <1>1, <1>2, TopIsHighest DEF Slot, At, Basic
  <2>2. i \in DOMAIN locals[t] /\ Captured(u, locals[t][i])
    BY <2>1, <1>3
  <2>3. Slot(i) \in Nat
    BY SMTT(30), <2>1, <2>2, <1>1 DEF Layout, Basic
  <2>4. /\ p \in 1 .. Len(open) + 1
        /\ p \in DOMAIN open => upvalue[open[p]].location <= Slot(i)
        /\ \A q \in 1 .. p - 1 : upvalue[open[q]].location > Slot(i)
    BY <2>3, <1>1, PositionIs
  <2>5. \/ /\ p \in DOMAIN open /\ upvalue[open[p]].location = Slot(i)
           /\ u = open[p]
           /\ UNCHANGED <<open, upvalue>>
        \/ /\ ~(p \in DOMAIN open /\ upvalue[open[p]].location = Slot(i))
           /\ u \notin DOMAIN upvalue
           /\ upvalue' = [x \in DOMAIN upvalue \cup {u} |->
                            IF x = u THEN [location |-> Slot(i), closed |-> NIL] ELSE upvalue[x]]
           /\ open' = SubSeq(open, 1, p - 1) \o <<u>> \o SubSeq(open, p, Len(open))
    BY <1>3 DEF capture_upvalue
  <2> HIDE DEF p, t
  <2>6. CASE p \in DOMAIN open /\ upvalue[open[p]].location = Slot(i)
    <3>1. u = open[p] /\ UNCHANGED <<open, upvalue>> /\ upvalue[open[p]].location = At(t, i)
      BY <2>1, <2>5, <2>6
    <3> QED BY <3>1, <2>1, <2>2, <2>6, <1>2, CaptureKnown
  <2>7. CASE ~(p \in DOMAIN open /\ upvalue[open[p]].location = Slot(i))
    <3>1. /\ u \notin DOMAIN upvalue
          /\ upvalue' = [x \in DOMAIN upvalue \cup {u} |->
                           IF x = u THEN [location |-> At(t, i), closed |-> NIL] ELSE upvalue[x]]
          /\ open' = SubSeq(open, 1, p - 1) \o <<u>> \o SubSeq(open, p, Len(open))
      BY <2>1, <2>5, <2>7
    <3>2. /\ p \in DOMAIN open => upvalue[open[p]].location <= At(t, i)
          /\ \A q \in 1 .. p - 1 : upvalue[open[q]].location > At(t, i)
          /\ ~(p \in DOMAIN open /\ upvalue[open[p]].location = At(t, i))
      BY <2>1, <2>4, <2>7
    <3> QED BY <3>1, <3>2, <2>1, <2>2, <2>4, <1>2, CaptureNew
  <2> QED BY <2>6, <2>7
<1>4. ASSUME NEW k \in DOMAIN upvalues[Top(frames).closure],
             Captured(upvalues[Top(frames).closure][k], named[Top(frames).closure][k]),
             UNCHANGED <<open, upvalue>>
      PROVE  IInv'
  <2> DEFINE cl == Top(frames).closure
  <2> DEFINE u == upvalues[cl][k]
  <2> DEFINE v == named[cl][k]
  <2>1. cl \in DOMAIN upvalues
    BY <1>1, <1>2, TopIsHighest DEF Shape
  <2>2. u \in Upvalue /\ v \in Var /\ u \in DOMAIN upvalue
    <3>1. upvalues[cl] \in Seq(Upvalue) /\ named[cl] \in Seq(Var) /\ k \in DOMAIN named[cl]
      BY <2>1, <1>1 DEF Basic, Shape
    <3>2. upvalues[cl][k] \in DOMAIN upvalue
      BY <2>1, <1>1 DEF Shape
    <3>3. upvalues[cl][k] \in Upvalue
      BY <3>1, ElementOfSeq
    <3>4. named[cl][k] \in Var
      BY <3>1, ElementOfSeq
    <3> QED BY <3>2, <3>3, <3>4
  <2>3. /\ \A f \in DOMAIN locals : \A i \in DOMAIN locals[f] :
             locals[f][i] = v => upvalue[u].location = At(f, i)
        /\ upvalue[u].location # CLOSED =>
             \E f \in DOMAIN locals : \E i \in DOMAIN locals[f] : locals[f][i] = v
    BY <2>1 DEF IInv, Means
  <2>4. \A cm \in DOMAIN upvalues : \A l \in DOMAIN upvalues[cm] :
          named[cm][l] = v <=> upvalues[cm][l] = u
    BY <2>1 DEF IInv, OneUpvaluePerVariable
  <2>5. OpenExact'
    <3>1. \A e, j : At(e, j)' = At(e, j)
      BY <1>2 DEF At
    <3> QED BY <3>1, <1>1, <1>2, <1>4 DEF OpenExact
  <2>6. /\ open' \in Seq(Upvalue) /\ DOMAIN upvalue' \subseteq Upvalue
        /\ upvalue' \in [DOMAIN upvalue' -> [location : Nat, closed : Value]]
    BY <1>1, <1>4 DEF TypeOK
  <2>7. /\ DOMAIN upvalue \subseteq DOMAIN upvalue' /\ u \in DOMAIN upvalue'
        /\ \A w \in DOMAIN upvalue : upvalue'[w] = upvalue[w]
        /\ upvalue'[u].location = upvalue[u].location
    BY <2>2, <1>4
  <2>8. Captured(u, v)
    BY <1>4
  <2> HIDE DEF u, v
  <2> QED BY <2>2, <2>3, <2>4, <2>5, <2>6, <2>7, <2>8, <1>2, ClosureFilled
<1> QED BY <1>3, <1>4 DEF Capture
-----------------------------------------------------------------------------
(* Closing.                                                                *)

(* Upvalues at a slot from last on are closed, and have left the list.     *)
ClosedFrom(last) ==
  /\ open' \in Seq(Upvalue)
  /\ upvalue' = [u \in DOMAIN upvalue |->
                   IF upvalue[u].location >= last
                   THEN [location |-> CLOSED, closed |-> stack[upvalue[u].location]]
                   ELSE upvalue[u]]
  /\ \E n \in 0 .. Len(open) :
       /\ Len(open') = Len(open) - n /\ DOMAIN open' = 1 .. Len(open) - n
       /\ \A q \in 1 .. Len(open) - n : open'[q] = open[n + q]
       /\ \A q \in 1 .. n : upvalue[open[q]].location >= last
       /\ \A q \in n + 1 .. Len(open) : upvalue[open[q]].location < last

(* Somewhere the walk of close_upvalues ends.                              *)
LEMMA WalkEnds ==
  ASSUME IInv, NEW last \in Nat \ {0}
  PROVE  \E i \in 0 .. Len(open) :
           /\ \A q \in 1 .. i : upvalue[open[q]].location >= last
           /\ i < Len(open) => upvalue[open[i + 1]].location < last
<1> DEFINE N(i) == /\ \A q \in 1 .. i : upvalue[open[q]].location >= last
                   /\ i < Len(open) => upvalue[open[i + 1]].location < last
<1> DEFINE len == Len(open)
<1>1. TypeOK /\ Basic /\ OpenExact
  BY TypesBasic DEF IInv
<1>2. /\ len \in Nat /\ DOMAIN open = 1 .. len /\ open \in Seq(Upvalue)
      /\ \A q \in 1 .. len : open[q] \in DOMAIN upvalue /\ upvalue[open[q]].location \in Nat
  BY <1>1 DEF Basic, OpenExact, TypeOK
<1>3. \E i \in 0 .. len : N(i)
  <2>1. last - 1 \in Nat
    OBVIOUS
  <2>2. PICK p \in 1 .. len + 1 :
          /\ p \in DOMAIN open => upvalue[open[p]].location <= last - 1
          /\ \A q \in 1 .. p - 1 : upvalue[open[q]].location > last - 1
    BY <2>1, <1>1, FirstLow
  <2>3. p - 1 \in 0 .. len /\ (p - 1) + 1 = p /\ (p - 1 < len => p \in 1 .. len)
    BY <1>2
  <2>4. ASSUME NEW q \in 1 .. p - 1 PROVE upvalue[open[q]].location >= last
    <3>1. q \in 1 .. len
      BY <1>2
    <3> QED BY <3>1, <2>2, <1>2
  <2>5. p - 1 < len => upvalue[open[(p - 1) + 1]].location < last
    BY <2>2, <2>3, <1>2
  <2> QED BY <2>3, <2>4, <2>5
<1> QED BY <1>3

LEMMA CloseUpvalues ==
  ASSUME IInv, NEW last \in Nat \ {0}, close_upvalues(last)
  PROVE  ClosedFrom(last)
<1> DEFINE N(i) == /\ \A q \in 1 .. i : upvalue[open[q]].location >= last
                   /\ i < Len(open) => upvalue[open[i + 1]].location < last
<1> DEFINE n == CHOOSE i \in 0 .. Len(open) : N(i)
<1> DEFINE len == Len(open)
<1>1. TypeOK /\ Basic /\ OpenExact
  BY TypesBasic DEF IInv
<1>2. /\ len \in Nat /\ DOMAIN open = 1 .. len /\ open \in Seq(Upvalue)
      /\ \A q \in 1 .. len : open[q] \in DOMAIN upvalue /\ upvalue[open[q]].location \in Nat
  BY <1>1 DEF Basic, OpenExact, TypeOK
<1>3. \E i \in 0 .. len : N(i)
  BY WalkEnds
<1>4. n \in 0 .. len /\ N(n)
  <2> HIDE DEF N
  <2> QED BY <1>3
<1>5. /\ upvalue' = [u \in DOMAIN upvalue |->
                       IF u \in {open[q] : q \in 1 .. n}
                       THEN [location |-> CLOSED, closed |-> stack[upvalue[u].location]]
                       ELSE upvalue[u]]
      /\ open' = SubSeq(open, n + 1, Len(open))
  BY DEF close_upvalues
<1>6. /\ \A q \in 1 .. n : upvalue[open[q]].location >= last
      /\ n < len => upvalue[open[n + 1]].location < last
  BY <1>4
<1> HIDE DEF n, N
<1>7. /\ open' \in Seq(Upvalue) /\ Len(open') = len - n
      /\ \A q \in 1 .. len - n : open'[q] = open[n + q]
  <2>1. open \in Seq(Upvalue) /\ n \in 0 .. Len(open)
    BY <1>2, <1>4
  <2> QED BY <2>1, <1>5, Suffix
<1>8. DOMAIN open' = 1 .. len - n
  BY <1>7, LenProperties
<1> HIDE DEF len
<1>9. ASSUME NEW q \in n + 1 .. len PROVE upvalue[open[q]].location < last
  <2>1. n + 1 \in 1 .. len /\ q \in 1 .. len /\ n < len /\ (q = n + 1 \/ n + 1 < q)
    BY <1>2, <1>4
  <2>2. CASE q = n + 1
    BY <2>1, <2>2, <1>6
  <2>3. CASE n + 1 < q
    <3>1. upvalue[open[n + 1]].location > upvalue[open[q]].location
      BY <2>1, <2>3, <1>1, <1>2 DEF OpenExact
    <3> QED BY <3>1, <2>1, <1>2, <1>6
  <2> QED BY <2>1, <2>2, <2>3
<1>10. ASSUME NEW u \in DOMAIN upvalue
       PROVE  u \in {open[q] : q \in 1 .. n} <=> upvalue[u].location >= last
  <2>1. ASSUME upvalue[u].location >= last PROVE u \in {open[q] : q \in 1 .. n}
    <3>1. upvalue[u].location # CLOSED
      BY <2>1 DEF CLOSED
    <3>2. PICK q \in 1 .. len : open[q] = u
      BY <3>1, <1>1, <1>2 DEF OpenExact
    <3>3. q \in 1 .. n \/ q \in n + 1 .. len
      BY <1>2, <1>4
    <3>4. ~(upvalue[u].location < last)
      BY <2>1, <3>2, <1>2
    <3> QED BY <3>2, <3>3, <3>4, <1>9
  <2> QED BY <2>1, <1>6
<1>11. upvalue' = [u \in DOMAIN upvalue |->
                     IF upvalue[u].location >= last
                     THEN [location |-> CLOSED, closed |-> stack[upvalue[u].location]]
                     ELSE upvalue[u]]
  BY <1>5, <1>10
<1>13. \E m \in 0 .. Len(open) :
         /\ Len(open') = Len(open) - m /\ DOMAIN open' = 1 .. Len(open) - m
         /\ \A q \in 1 .. Len(open) - m : open'[q] = open[m + q]
         /\ \A q \in 1 .. m : upvalue[open[q]].location >= last
         /\ \A q \in m + 1 .. Len(open) : upvalue[open[q]].location < last
  <2>1. n \in 0 .. len
    BY <1>4
  <2> QED BY <2>1, <1>6, <1>7, <1>8, <1>9 DEF len
<1> QED BY <1>7, <1>11, <1>13 DEF ClosedFrom

(* Closing keeps the types of upvalues: they point at values.              *)
LEMMA ClosedTypes ==
  ASSUME IInv, NEW last \in Nat \ {0}, ClosedFrom(last)
  PROVE  /\ DOMAIN upvalue' = DOMAIN upvalue
         /\ upvalue' \in [DOMAIN upvalue' -> [location : Nat, closed : Value]]
         /\ \A u \in DOMAIN upvalue :
              IF upvalue[u].location >= last
              THEN upvalue'[u].location = CLOSED /\ upvalue[u].location \in DOMAIN stack
                   /\ upvalue'[u].closed = stack[upvalue[u].location]
              ELSE upvalue'[u] = upvalue[u]
<1>1. TypeOK /\ Basic /\ OpenExact /\ Layout
  BY TypesBasic, SlotsApart DEF IInv
<1>2. ASSUME NEW u \in DOMAIN upvalue, upvalue[u].location >= last
      PROVE  upvalue[u].location \in DOMAIN stack
  <2>1. upvalue[u].location # CLOSED
    BY <1>2 DEF CLOSED
  <2>2. PICK p \in DOMAIN open : open[p] = u
    BY <2>1, <1>1 DEF OpenExact
  <2>3. PICK f \in DOMAIN locals : \E i \in DOMAIN locals[f] : upvalue[u].location = At(f, i)
    BY <2>2, <1>1 DEF OpenExact
  <2> QED BY <2>3, <1>1 DEF Layout
<1>3. DOMAIN upvalue' = DOMAIN upvalue
  BY DEF ClosedFrom
<1>4. \A u \in DOMAIN upvalue :
        upvalue'[u] = IF upvalue[u].location >= last
                      THEN [location |-> CLOSED, closed |-> stack[upvalue[u].location]]
                      ELSE upvalue[u]
  BY DEF ClosedFrom
<1>5. ASSUME NEW u \in DOMAIN upvalue PROVE upvalue'[u] \in [location : Nat, closed : Value]
  <2>1. CASE upvalue[u].location >= last
    <3>1. stack[upvalue[u].location] \in Value
      BY <2>1, <1>1, <1>2 DEF Basic
    <3>2. upvalue'[u] = [location |-> 0, closed |-> stack[upvalue[u].location]]
      BY <2>1, <1>4 DEF CLOSED
    <3> QED BY <3>1, <3>2
  <2>2. CASE ~(upvalue[u].location >= last)
    <3>1. upvalue[u] \in [location : Nat, closed : Value]
      BY <1>1 DEF TypeOK
    <3> QED BY <3>1, <2>2, <1>4
  <2> QED BY <2>1, <2>2
<1>6. upvalue' \in [DOMAIN upvalue' -> [location : Nat, closed : Value]]
  <2>1. upvalue' = [u \in DOMAIN upvalue' |-> upvalue'[u]]
    BY DEF ClosedFrom
  <2> QED BY <2>1, <1>3, <1>5
<1> QED BY <1>2, <1>3, <1>4, <1>6

(* The variables from slot last on go, and their upvalues are closed.      *)
LEMMA VariablesRemoved ==
  ASSUME IInv, TypeOK', Shape', UNCHANGED <<upvalues, named>>,
         NEW last \in Nat \ {0}, ClosedFrom(last),
         \A f \in DOMAIN locals' : \A i \in DOMAIN locals'[f] :
           /\ f \in DOMAIN locals /\ i \in DOMAIN locals[f]
           /\ locals'[f][i] = locals[f][i] /\ frames'[f].slots = frames[f].slots
           /\ At(f, i) < last,
         \A f \in DOMAIN locals : \A i \in DOMAIN locals[f] :
           At(f, i) < last => f \in DOMAIN locals' /\ i \in DOMAIN locals'[f]
  PROVE  IInv'
<1>1. Basic /\ Distinct /\ OpenExact /\ Means /\ OneUpvaluePerVariable /\ Shape
  BY TypesBasic DEF IInv
<1>2. /\ DOMAIN upvalue' = DOMAIN upvalue
      /\ \A u \in DOMAIN upvalue :
           IF upvalue[u].location >= last THEN upvalue'[u].location = CLOSED
                                          ELSE upvalue'[u] = upvalue[u]
  BY ClosedTypes
<1>3. \A f \in DOMAIN locals' : \A i \in DOMAIN locals'[f] : At(f, i)' = At(f, i)
  BY DEF At
<1>4. Distinct'
  BY <1>1 DEF Distinct
<1>5. PICK n \in 0 .. Len(open) :
        /\ DOMAIN open' = 1 .. Len(open) - n
        /\ \A q \in 1 .. Len(open) - n : open'[q] = open[n + q]
        /\ \A q \in 1 .. n : upvalue[open[q]].location >= last
        /\ \A q \in n + 1 .. Len(open) : upvalue[open[q]].location < last
  BY DEF ClosedFrom
<1> DEFINE len == Len(open)
<1>6. /\ len \in Nat /\ DOMAIN open = 1 .. len /\ n \in 0 .. len /\ DOMAIN open' = 1 .. len - n
      /\ \A q \in 1 .. len : open[q] \in DOMAIN upvalue /\ upvalue[open[q]].location \in Nat
  BY <1>1, <1>5 DEF Basic, OpenExact
<1> HIDE DEF len
<1>7. ASSUME NEW q \in 1 .. len - n
      PROVE  /\ n + q \in 1 .. len /\ open'[q] = open[n + q]
             /\ upvalue[open[n + q]].location < last
             /\ upvalue'[open[n + q]] = upvalue[open[n + q]]
  <2>1. n + q \in 1 .. len /\ n + q \in n + 1 .. len
    BY <1>6
  <2>2. open'[q] = open[n + q] /\ upvalue[open[n + q]].location < last
    BY <2>1, <1>5 DEF len
  <2> QED BY <2>1, <2>2, <1>2, <1>6
<1>8. OpenExact'
  <2>1. \A q \in 1 .. len - n : open'[q] \in DOMAIN upvalue'
    BY <1>2, <1>6, <1>7
  <2>2. ASSUME NEW u \in DOMAIN upvalue'
        PROVE  upvalue'[u].location # CLOSED <=> \E q \in 1 .. len - n : open'[q] = u
    <3>1. ASSUME NEW q \in 1 .. len - n, open'[q] = u PROVE upvalue'[u].location # CLOSED
      <4>1. upvalue[open[n + q]].location # CLOSED
        BY <1>1, <1>6, <1>7 DEF OpenExact
      <4> QED BY <4>1, <3>1, <1>7
    <3>2. ASSUME upvalue'[u].location # CLOSED PROVE \E q \in 1 .. len - n : open'[q] = u
      <4>1. ~(upvalue[u].location >= last) /\ upvalue[u].location # CLOSED
        BY <3>2, <1>2
      <4>2. PICK r \in 1 .. len : open[r] = u
        BY <4>1, <1>1, <1>2, <1>6 DEF OpenExact
      <4>3. r \notin 1 .. n
        BY <4>1, <4>2, <1>5
      <4>4. r - n \in 1 .. len - n /\ n + (r - n) = r
        BY <4>3, <1>6
      <4> QED BY <4>2, <4>4, <1>7
    <3> QED BY <3>1, <3>2
  <2>3. ASSUME NEW q \in 1 .. len - n, NEW r \in 1 .. len - n, q < r
        PROVE  upvalue'[open'[q]].location > upvalue'[open'[r]].location
    <3>1. n + q < n + r /\ n + q \in 1 .. len /\ n + r \in 1 .. len
      BY <2>3, <1>6, <1>7
    <3>2. upvalue[open[n + q]].location > upvalue[open[n + r]].location
      BY <3>1, <1>1, <1>6 DEF OpenExact
    <3> QED BY <3>2, <1>7
  <2>4. ASSUME NEW q \in 1 .. len - n
        PROVE  \E f \in DOMAIN locals' : \E i \in DOMAIN locals'[f] :
                 upvalue'[open'[q]].location = At(f, i)'
    <3>1. PICK f \in DOMAIN locals :
            \E i \in DOMAIN locals[f] : upvalue[open[n + q]].location = At(f, i)
      BY <1>1, <1>6, <1>7 DEF OpenExact
    <3>2. PICK i \in DOMAIN locals[f] : upvalue[open[n + q]].location = At(f, i)
      BY <3>1
    <3>3. f \in DOMAIN locals' /\ i \in DOMAIN locals'[f]
      BY <3>2, <1>7
    <3> QED BY <3>2, <3>3, <1>3, <1>7
  <2>5. DOMAIN open' = 1 .. len - n
    BY <1>6
  <2> QED BY <2>1, <2>2, <2>3, <2>4, <2>5 DEF OpenExact
<1>9. Means'
  <2> SUFFICES ASSUME NEW cl \in DOMAIN upvalues, NEW k \in DOMAIN upvalues[cl]
               PROVE  /\ \A f \in DOMAIN locals' : \A i \in DOMAIN locals'[f] :
                           locals'[f][i] = named[cl][k] =>
                             upvalue'[upvalues[cl][k]].location = At(f, i)'
                      /\ upvalue'[upvalues[cl][k]].location # CLOSED =>
                           \E f \in DOMAIN locals' : \E i \in DOMAIN locals'[f] :
                             locals'[f][i] = named[cl][k]
    BY DEF Means
  <2> DEFINE u == upvalues[cl][k]
  <2>1. u \in DOMAIN upvalue
    BY <1>1 DEF Shape
  <2>2. ASSUME NEW f \in DOMAIN locals', NEW i \in DOMAIN locals'[f], locals'[f][i] = named[cl][k]
        PROVE  upvalue'[u].location = At(f, i)'
    <3>1. upvalue[u].location = At(f, i) /\ At(f, i) < last
      BY <2>2, <1>1 DEF Means
    <3>2. upvalue[u].location \in Nat
      BY <2>1, <1>1 DEF Basic
    <3>3. ~(upvalue[u].location >= last)
      BY <3>1, <3>2
    <3> QED BY <3>1, <3>3, <2>1, <1>2, <1>3
  <2>3. ASSUME upvalue'[u].location # CLOSED
        PROVE  \E f \in DOMAIN locals' : \E i \in DOMAIN locals'[f] : locals'[f][i] = named[cl][k]
    <3>1. ~(upvalue[u].location >= last) /\ upvalue[u].location # CLOSED
      BY <2>1, <2>3, <1>2
    <3>2. PICK f \in DOMAIN locals : \E i \in DOMAIN locals[f] : locals[f][i] = named[cl][k]
      BY <3>1, <1>1 DEF Means
    <3>3. PICK i \in DOMAIN locals[f] : locals[f][i] = named[cl][k]
      BY <3>2
    <3>4. At(f, i) = upvalue[u].location /\ upvalue[u].location \in Nat
      BY <3>3, <2>1, <1>1 DEF Means, Basic
    <3>5. f \in DOMAIN locals' /\ i \in DOMAIN locals'[f]
      BY <3>1, <3>4
    <3> QED BY <3>3, <3>5
  <2> QED BY <2>2, <2>3
<1>10. OneUpvaluePerVariable'
  BY <1>1 DEF OneUpvaluePerVariable
<1> QED BY <1>4, <1>8, <1>9, <1>10 DEF IInv

(* When nothing points at the slot on top, closing it changes nothing.     *)
LEMMA NothingToClose ==
  ASSUME IInv, UNCHANGED <<open, upvalue>>, Len(stack) > 0,
         \A u \in Elements(open) : upvalue[u].location # Len(stack)
  PROVE  ClosedFrom(Len(stack))
<1>1. TypeOK /\ Basic /\ OpenExact /\ Layout
  BY TypesBasic, SlotsApart DEF IInv
<1>2. ASSUME NEW q \in DOMAIN open PROVE upvalue[open[q]].location < Len(stack)
  <2>1. upvalue[open[q]].location # Len(stack)
    BY DEF Elements
  <2>2. PICK f \in DOMAIN locals : \E i \in DOMAIN locals[f] : upvalue[open[q]].location = At(f, i)
    BY <1>1 DEF OpenExact
  <2>3. upvalue[open[q]].location \in 1 .. Len(stack)
    BY <2>2, <1>1 DEF Layout, Basic
  <2> QED BY <2>1, <2>3, <1>1 DEF Basic
<1>3. ASSUME NEW u \in DOMAIN upvalue PROVE ~(upvalue[u].location >= Len(stack))
  <2>1. CASE upvalue[u].location = CLOSED
    BY <2>1, <1>1 DEF CLOSED, Basic
  <2>2. CASE upvalue[u].location # CLOSED
    <3>1. PICK q \in DOMAIN open : open[q] = u
      BY <2>2, <1>1 DEF OpenExact
    <3> QED BY <3>1, <1>1, <1>2 DEF Basic
  <2> QED BY <2>1, <2>2
<1>4. upvalue' = [u \in DOMAIN upvalue |->
                    IF upvalue[u].location >= Len(stack)
                    THEN [location |-> CLOSED, closed |-> stack[upvalue[u].location]]
                    ELSE upvalue[u]]
  <2>1. upvalue = [u \in DOMAIN upvalue |-> upvalue[u]]
    BY <1>1 DEF TypeOK
  <2> QED BY <2>1, <1>3
<1>5. open' \in Seq(Upvalue)
  BY <1>1 DEF TypeOK
<1>6. /\ 0 \in 0 .. Len(open) /\ Len(open') = Len(open) - 0 /\ DOMAIN open' = 1 .. Len(open) - 0
      /\ \A q \in 1 .. Len(open) - 0 : open'[q] = open[0 + q]
      /\ \A q \in 1 .. 0 : upvalue[open[q]].location >= Len(stack)
      /\ \A q \in 0 + 1 .. Len(open) : upvalue[open[q]].location < Len(stack)
  BY <1>1, <1>2 DEF Basic
<1> QED BY <1>4, <1>5, <1>6 DEF ClosedFrom

(* One variable less in the frame on top.                                  *)
LEMMA LocalCut ==
  ASSUME TypeOK, frames # <<>>, Len(Top(locals)) > 1,
         locals' = [locals EXCEPT ![Len(locals)] = Cut(@, 1)]
  PROVE  /\ locals' \in Seq(Seq(Var)) /\ Len(locals') = Len(locals) /\ DOMAIN locals' = DOMAIN locals
         /\ \A f \in DOMAIN frames : f # Len(frames) => locals'[f] = locals[f]
         /\ Len(locals'[Len(frames)]) = Len(Top(locals)) - 1
         /\ DOMAIN locals'[Len(frames)] = 1 .. Len(Top(locals)) - 1
         /\ \A i \in 1 .. Len(Top(locals)) - 1 : locals'[Len(frames)][i] = locals[Len(frames)][i]
<1> DEFINE t == Len(frames)
<1> DEFINE l == Cut(locals[t], 1)
<1>1. Basic /\ t \in DOMAIN frames /\ Top(locals) = locals[t] /\ Len(locals) = t
  BY TypesBasic, TopIsHighest DEF Basic
<1>2. locals[t] \in Seq(Var) /\ Len(locals[t]) \in Nat /\ Len(locals[t]) > 1
  BY <1>1 DEF Basic
<1>3. /\ l \in Seq(Var) /\ Len(l) = Len(locals[t]) - 1
      /\ \A i \in 1 .. Len(locals[t]) - 1 : l[i] = locals[t][i]
  <2>1. Len(locals[t]) >= 1
    BY <1>2
  <2> QED BY <1>2, <2>1, CutOne
<1>4. locals' = [locals EXCEPT ![t] = l]
  BY <1>1
<1>5. locals \in Seq(Seq(Var)) /\ t \in DOMAIN locals
  BY <1>1 DEF TypeOK, Basic
<1> HIDE DEF l
<1>6. DOMAIN l = 1 .. Len(locals[t]) - 1
  BY <1>2, <1>3, LenProperties
<1>7. /\ locals' \in Seq(Seq(Var)) /\ Len(locals') = Len(locals) /\ DOMAIN locals' = DOMAIN locals
      /\ locals'[t] = l
      /\ \A f \in DOMAIN locals : f # t => locals'[f] = locals[f]
  <2> DEFINE T == Seq(Var)
  <2>1. locals \in Seq(T) /\ l \in T
    BY <1>3, <1>5
  <2> HIDE DEF T, t
  <2>2. /\ [locals EXCEPT ![t] = l] \in Seq(T) /\ Len([locals EXCEPT ![t] = l]) = Len(locals)
        /\ DOMAIN [locals EXCEPT ![t] = l] = DOMAIN locals
        /\ [locals EXCEPT ![t] = l][t] = l
        /\ \A f \in DOMAIN locals : f # t => [locals EXCEPT ![t] = l][f] = locals[f]
    BY <1>5, <2>1, Replaced
  <2> QED BY <1>4, <2>2 DEF T
<1>8. \A f \in DOMAIN frames : f # t => locals'[f] = locals[f]
  BY <1>1, <1>7 DEF Basic
<1> QED BY <1>1, <1>3, <1>6, <1>7, <1>8

LEMMA EndScopeStep == ASSUME IInv, end_scope PROVE IInv'
<1> DEFINE t == Len(frames)
<1> DEFINE n == Len(Top(locals))
<1> DEFINE last == Len(stack)
<1>1. TypeOK /\ Basic /\ Shape /\ Layout /\ frames # <<>> /\ capturing = 0
  BY TypesBasic, SlotsApart DEF IInv, Running, end_scope
<1>2. /\ n > 1 /\ Temporaries = 0 /\ stack' = Cut(stack, 1)
      /\ locals' = [locals EXCEPT ![Len(locals)] = Cut(@, 1)]
      /\ UNCHANGED <<frames, upvalues, capturing, named>>
      /\ \/ close_upvalues(last)
         \/ /\ \A u \in Elements(open) : upvalue[u].location # last
            /\ UNCHANGED <<open, upvalue>>
  BY DEF end_scope
<1>3. /\ t \in DOMAIN frames /\ Base \in Nat \ {0} /\ Base = frames[t].slots /\ n \in Nat
      /\ Top(locals) = locals[t] /\ DOMAIN locals[t] = 1 .. n /\ DOMAIN locals = DOMAIN frames
  BY <1>1, TopIsHighest DEF Basic
<1>4. last \in Nat \ {0} /\ Base + n = last + 1
  <2>1. last \in Nat
    BY <1>1 DEF Basic
  <2>2. last - Base + 1 - n = 0
    BY <1>2 DEF Temporaries
  <2> HIDE DEF last, n
  <2> QED BY <2>1, <2>2, <1>2, <1>3
<1>5. /\ locals' \in Seq(Seq(Var)) /\ Len(locals') = Len(locals) /\ DOMAIN locals' = DOMAIN locals
      /\ \A f \in DOMAIN frames : f # t => locals'[f] = locals[f]
      /\ Len(locals'[t]) = n - 1 /\ DOMAIN locals'[t] = 1 .. n - 1
      /\ \A i \in 1 .. n - 1 : locals'[t][i] = locals[t][i]
  BY <1>1, <1>2, LocalCut
<1>6. stack' \in Seq(Value) /\ Len(stack') = last - 1
  <2>1. stack \in Seq(Value) /\ Len(stack) >= 1
    BY <1>1, <1>4 DEF TypeOK
  <2> QED BY <2>1, <1>2, CutOne
<1> HIDE DEF n, last
<1>7. ClosedFrom(last)
  <2>1. CASE close_upvalues(last)
    BY <2>1, <1>4, CloseUpvalues
  <2>2. CASE /\ \A u \in Elements(open) : upvalue[u].location # last
             /\ UNCHANGED <<open, upvalue>>
    <3>1. Len(stack) > 0
      BY <1>4 DEF last
    <3> QED BY <2>2, <3>1, NothingToClose DEF last
  <2> QED BY <2>1, <2>2, <1>2
<1>8. TypeOK'
  <2>1. FramesApart'
    <3>1. Len(stack') \in Nat /\ Len(locals'[t]) \in Nat /\ Base + Len(locals'[t]) <= Len(stack') + 1
      BY <1>2, <1>3, <1>4, <1>5, <1>6
    <3> QED BY <3>1, <1>1, <1>2, <1>5, TopFrameFits
  <2>2. open' \in Seq(Upvalue)
    BY <1>7 DEF ClosedFrom
  <2>3. DOMAIN upvalue' \subseteq Upvalue /\ upvalue' \in [DOMAIN upvalue' -> [location : Nat, closed : Value]]
    <3>1. DOMAIN upvalue \subseteq Upvalue
      BY <1>1 DEF TypeOK
    <3> QED BY <3>1, <1>4, <1>7, ClosedTypes
  <2> QED BY <2>1, <2>2, <2>3, <1>1, <1>2, <1>5, <1>6 DEF TypeOK
<1>9. Shape'
  <2>1. DOMAIN upvalue' = DOMAIN upvalue
    BY <1>7 DEF ClosedFrom
  <2> QED BY <2>1, <1>1, <1>2 DEF Shape
<1>10. ASSUME NEW f \in DOMAIN locals', NEW i \in DOMAIN locals'[f]
       PROVE  /\ f \in DOMAIN locals /\ i \in DOMAIN locals[f]
              /\ locals'[f][i] = locals[f][i] /\ frames'[f].slots = frames[f].slots
              /\ At(f, i) < last
  <2>1. f \in DOMAIN locals /\ frames'[f].slots = frames[f].slots
    BY <1>2, <1>5
  <2>2. CASE f = t
    <3>1. i \in 1 .. n - 1
      BY <2>2, <1>5
    <3>2. i \in 1 .. n /\ Base + i - 1 < last
      BY <3>1, <1>3, <1>4
    <3> QED BY <2>1, <2>2, <3>1, <3>2, <1>3, <1>5 DEF At
  <2>3. CASE f # t
    <3>1. i \in DOMAIN locals[f] /\ locals'[f][i] = locals[f][i]
      BY <2>1, <2>3, <1>3, <1>5
    <3>2. f < t
      BY <2>1, <2>3, <1>1, <1>3 DEF Basic
    <3>3. 1 \in DOMAIN locals[t] /\ t \in DOMAIN locals
      BY <1>2, <1>3
    <3>4. At(f, i) < frames[t].slots
      BY <2>1, <3>1, <3>2, <3>3, <1>1 DEF Layout
    <3>5. At(f, i) \in Nat
      BY <2>1, <3>1, <3>3, <1>1 DEF Layout, Basic
    <3> HIDE DEF t
    <3>6. Base <= last
      BY <1>2, <1>3, <1>4
    <3>7. At(f, i) < last
      BY <3>4, <3>5, <3>6, <1>3, <1>4
    <3> QED BY <2>1, <3>1, <3>7
  <2> QED BY <2>2, <2>3
<1>11. ASSUME NEW f \in DOMAIN locals, NEW i \in DOMAIN locals[f], At(f, i) < last
       PROVE  f \in DOMAIN locals' /\ i \in DOMAIN locals'[f]
  <2>1. CASE f = t
    <3>1. i \in 1 .. n /\ Base + i - 1 < last
      BY <2>1, <1>3, <1>11 DEF At
    <3>2. i \in 1 .. n - 1
      BY <3>1, <1>3, <1>4
    <3> QED BY <2>1, <3>2, <1>5
  <2>2. CASE f # t
    BY <2>2, <1>3, <1>5
  <2> QED BY <2>1, <2>2
<1> QED BY <1>2, <1>4, <1>7, <1>8, <1>9, <1>10, <1>11, VariablesRemoved

LEMMA ReturnStep == ASSUME IInv, Return PROVE IInv'
<1> DEFINE t == Len(frames)
<1>1. TypeOK /\ Basic /\ Shape /\ Layout /\ FramesApart /\ frames # <<>> /\ capturing = 0
  BY TypesBasic, SlotsApart DEF IInv, TypeOK, Running, Return
<1>2. /\ Temporaries >= 1 /\ close_upvalues(Base)
      /\ IF t = 1 THEN Len(stack) = 2 /\ stack' = Cut(stack, 2)
                  ELSE stack' = Append(SubSeq(stack, 1, Base - 1), Peek(0))
      /\ frames' = Cut(frames, 1) /\ locals' = Cut(locals, 1)
      /\ UNCHANGED <<upvalues, capturing, named>>
  BY DEF Return
<1>3. /\ t \in DOMAIN frames /\ Base \in Nat \ {0} /\ Base = frames[t].slots
      /\ t \in Nat /\ t >= 1 /\ DOMAIN frames = 1 .. t /\ DOMAIN locals = 1 .. t
  BY <1>1, TopIsHighest DEF Basic
<1>4. ClosedFrom(Base)
  BY <1>2, <1>3, CloseUpvalues
<1>5. /\ frames' \in Seq([closure : Closure, slots : Nat \ {0}]) /\ Len(frames') = t - 1
      /\ \A f \in 1 .. t - 1 : frames'[f] = frames[f]
  <2>1. frames \in Seq([closure : Closure, slots : Nat \ {0}]) /\ Len(frames) >= 1
    BY <1>1, <1>3 DEF TypeOK
  <2> DEFINE T == [closure : Closure, slots : Nat \ {0}]
  <2>2. frames \in Seq(T)
    BY <2>1
  <2> HIDE DEF T
  <2>3. frames' \in Seq(T) /\ Len(frames') = t - 1 /\ \A f \in 1 .. t - 1 : frames'[f] = frames[f]
    BY <2>1, <2>2, <1>2, CutOne
  <2> QED BY <2>3 DEF T
<1>6. /\ locals' \in Seq(Seq(Var)) /\ Len(locals') = t - 1
      /\ \A f \in 1 .. t - 1 : locals'[f] = locals[f]
  <2>1. locals \in Seq(Seq(Var)) /\ Len(locals) = t
    BY <1>1 DEF TypeOK
  <2> DEFINE T == Seq(Var)
  <2>2. locals \in Seq(T)
    BY <2>1
  <2> HIDE DEF T
  <2>3. locals' \in Seq(T) /\ Len(locals') = t - 1 /\ \A f \in 1 .. t - 1 : locals'[f] = locals[f]
    BY <2>1, <2>2, <1>2, <1>3, CutOne
  <2> QED BY <2>3 DEF T
<1>7. DOMAIN frames' = 1 .. t - 1 /\ DOMAIN locals' = 1 .. t - 1
  BY <1>3, <1>5, <1>6, LenProperties
<1>8. stack' \in Seq(Value) /\ (t # 1 => Len(stack') = Base)
  <2>1. stack \in Seq(Value)
    BY <1>1 DEF TypeOK
  <2>2. CASE t = 1
    <3>1. stack' = SubSeq(stack, 1, Len(stack) - 2) /\ Len(stack) - 2 \in 0 .. Len(stack)
      <4>1. Len(stack) = 2 /\ stack' = Cut(stack, 2)
        BY <2>2, <1>2
      <4>2. Len(stack) - 2 \in 0 .. Len(stack)
        BY <4>1
      <4> QED BY <4>1, <4>2 DEF Cut
    <3> QED BY <2>1, <2>2, <3>1, Prefix
  <2>3. CASE t # 1
    <3>1. stack' = Append(SubSeq(stack, 1, Base - 1), Peek(0))
      BY <2>3, <1>2
    <3>2. Peek(0) \in Value
      BY <1>1, <1>2, OperandIsValue
    <3>3. Base - 1 \in 0 .. Len(stack)
      BY <1>1, <1>3, TopIsHighest DEF Basic
    <3>4. SubSeq(stack, 1, Base - 1) \in Seq(Value) /\ Len(SubSeq(stack, 1, Base - 1)) = Base - 1
      BY <2>1, <3>3, Prefix
    <3>5. stack' \in Seq(Value) /\ Len(stack') = (Base - 1) + 1
      BY <3>1, <3>2, <3>4, AppendOne
    <3> QED BY <3>5, <1>3
  <2> QED BY <2>2, <2>3
<1> HIDE DEF t
<1>9. ASSUME NEW f \in 1 .. t - 1
      PROVE  /\ f \in 1 .. t /\ t # 1 /\ f < t
             /\ frames[f].slots + Len(locals[f]) <= Base
             /\ frames'[f] = frames[f] /\ locals'[f] = locals[f]
  <2>1. f \in 1 .. t /\ t # 1 /\ f < t
    BY <1>3
  <2>2. frames[f].slots + Len(locals[f]) <= Base
    BY <1>1, <1>3 DEF FramesApart
  <2> QED BY <2>1, <2>2, <1>5, <1>6
<1>10. TypeOK'
  <2>1. FramesApart'
    <3>1. ASSUME NEW f \in 1 .. t - 1
          PROVE  /\ frames'[f].slots + Len(locals'[f]) <= Len(stack') + 1
                 /\ \A e \in 1 .. f - 1 : frames'[e].slots + Len(locals'[e]) <= frames'[f].slots
      <4>1. frames'[f].slots + Len(locals'[f]) <= Base /\ Len(stack') = Base
        BY <1>8, <1>9
      <4>2. frames'[f].slots + Len(locals'[f]) \in Nat
        <5>1. frames'[f] = frames[f] /\ locals'[f] = locals[f] /\ f \in DOMAIN frames
          BY <1>3, <1>9
        <5>2. frames[f].slots \in Nat /\ Len(locals[f]) \in Nat
          BY <5>1, <1>1 DEF Basic
        <5> QED BY <5>1, <5>2
      <4>3. frames'[f].slots + Len(locals'[f]) <= Len(stack') + 1
        BY <4>1, <4>2, <1>3
      <4>4. ASSUME NEW e \in 1 .. f - 1
            PROVE  frames'[e].slots + Len(locals'[e]) <= frames'[f].slots
        <5>1. e \in 1 .. t - 1
          BY <1>3
        <5> QED BY <5>1, <1>1, <1>3, <1>9 DEF FramesApart
      <4> QED BY <4>3, <4>4
    <3> QED BY <3>1, <1>7 DEF FramesApart
  <2>2. open' \in Seq(Upvalue)
    BY <1>4 DEF ClosedFrom
  <2>3. DOMAIN upvalue' \subseteq Upvalue /\ upvalue' \in [DOMAIN upvalue' -> [location : Nat, closed : Value]]
    <3>1. DOMAIN upvalue \subseteq Upvalue
      BY <1>1 DEF TypeOK
    <3> QED BY <3>1, <1>3, <1>4, ClosedTypes
  <2> QED BY <2>1, <2>2, <2>3, <1>1, <1>2, <1>5, <1>6, <1>8 DEF TypeOK
<1>11. Shape'
  <2>1. DOMAIN upvalue' = DOMAIN upvalue
    BY <1>4 DEF ClosedFrom
  <2>2. \A f \in DOMAIN frames' : frames'[f].closure \in DOMAIN upvalues'
    BY <1>1, <1>2, <1>3, <1>7, <1>9 DEF Shape
  <2> QED BY <2>1, <2>2, <1>1, <1>2 DEF Shape
<1>12. ASSUME NEW f \in DOMAIN locals', NEW i \in DOMAIN locals'[f]
       PROVE  /\ f \in DOMAIN locals /\ i \in DOMAIN locals[f]
              /\ locals'[f][i] = locals[f][i] /\ frames'[f].slots = frames[f].slots
              /\ At(f, i) < Base
  <2>1. /\ f \in DOMAIN locals /\ i \in DOMAIN locals[f]
        /\ locals'[f][i] = locals[f][i] /\ frames'[f].slots = frames[f].slots
    BY <1>3, <1>7, <1>9
  <2>2. frames[f].slots + Len(locals[f]) <= Base
    BY <1>7, <1>9
  <2>3. i \in 1 .. Len(locals[f]) /\ Len(locals[f]) \in Nat /\ frames[f].slots \in Nat
    BY <2>1, <1>1, <1>3 DEF Basic
  <2> QED BY <2>1, <2>2, <2>3, <1>3 DEF At
<1>13. ASSUME NEW f \in DOMAIN locals, NEW i \in DOMAIN locals[f], At(f, i) < Base
       PROVE  f \in DOMAIN locals' /\ i \in DOMAIN locals'[f]
  <2>1. f # t
    <3>1. ASSUME f = t PROVE FALSE
      <4>1. i \in 1 .. Len(locals[f]) /\ Len(locals[f]) \in Nat
        BY <1>1, <1>3 DEF Basic
      <4>2. At(f, i) = Base + i - 1
        BY <3>1, <1>3 DEF At
      <4> QED BY <4>1, <4>2, <1>3, <1>13
    <3> QED BY <3>1
  <2>2. f \in 1 .. t - 1
    BY <2>1, <1>3
  <2> QED BY <2>2, <1>7, <1>9
<1> QED BY <1>2, <1>3, <1>4, <1>10, <1>11, <1>12, <1>13, VariablesRemoved
-----------------------------------------------------------------------------
LEMMA InitIInv == Init => IInv
<1> SUFFICES ASSUME Init PROVE IInv
  OBVIOUS
<1> DEFINE var == CHOOSE v \in Var : TRUE
<1>1. PICK cl \in Closure :
        /\ stack = <<cl>> /\ frames = <<[closure |-> cl, slots |-> 1]>>
        /\ open = <<>> /\ upvalue = [u \in {} |-> NIL]
        /\ upvalues = [x \in {cl} |-> <<>>] /\ named = [x \in {cl} |-> <<>>]
        /\ capturing = 0
        /\ locals = <<<<var>>>>
  BY DEF Init
<1>2. var \in Var
  BY ClosureAssumption
<1> HIDE DEF var
<1>3. /\ Len(stack) = 1
      /\ Len(frames) = 1 /\ DOMAIN frames = {1} /\ frames[1].slots = 1 /\ frames[1].closure = cl
      /\ Len(locals) = 1 /\ DOMAIN locals = {1} /\ Len(locals[1]) = 1 /\ DOMAIN locals[1] = {1}
      /\ DOMAIN open = {} /\ DOMAIN upvalue = {} /\ DOMAIN upvalues = {cl}
      /\ upvalues[cl] = <<>> /\ named[cl] = <<>> /\ DOMAIN upvalues[cl] = {}
  BY <1>1
<1>4. TypeOK
  <2>1. stack \in Seq(Value)
    BY <1>1 DEF Value
  <2>2. frames \in Seq([closure : Closure, slots : Nat \ {0}])
    BY <1>1
  <2>3. open \in Seq(Upvalue) /\ capturing \in Nat
    BY <1>1
  <2>4. upvalue \in [DOMAIN upvalue -> [location : Nat, closed : Value]] /\ DOMAIN upvalue \subseteq Upvalue
    BY <1>1
  <2>5. /\ DOMAIN upvalues \subseteq Closure /\ upvalues \in [DOMAIN upvalues -> Seq(Upvalue)]
        /\ named \in [DOMAIN upvalues -> Seq(Var)]
    BY <1>1
  <2>6. locals \in Seq(Seq(Var)) /\ Len(locals) = Len(frames)
    BY <1>1, <1>2
  <2>7. FramesApart
    <3> SUFFICES ASSUME NEW f \in DOMAIN frames
                 PROVE  /\ frames[f].slots + Len(locals[f]) <= Len(stack) + 1
                        /\ \A e \in 1 .. f - 1 : frames[e].slots + Len(locals[e]) <= frames[f].slots
      BY DEF FramesApart
    <3>1. f = 1
      BY <1>3
    <3>2. frames[1].slots + Len(locals[1]) <= Len(stack) + 1
      BY ONLY <1>3
    <3>3. 1 .. f - 1 = {}
      BY ONLY <3>1
    <3> QED BY ONLY <3>1, <3>2, <3>3
  <2> QED BY <2>1, <2>2, <2>3, <2>4, <2>5, <2>6, <2>7 DEF TypeOK
<1>5. Distinct
  BY <1>3 DEF Distinct
<1>6. Shape
  BY <1>1, <1>3 DEF Shape
<1>7. OpenExact
  BY <1>3 DEF OpenExact
<1>8. Means /\ OneUpvaluePerVariable
  BY <1>3 DEF Means, OneUpvaluePerVariable
<1> QED BY <1>4, <1>5, <1>6, <1>7, <1>8 DEF IInv

LEMMA NextIInv == IInv /\ [Next]_vars => IInv'
<1> SUFFICES ASSUME IInv, [Next]_vars PROVE IInv'
  OBVIOUS
<1>1. CASE Constant
  BY <1>1, ConstantStep
<1>2. CASE Pop
  BY <1>2, PopStep
<1>3. CASE \E i \in 1 .. MaxStack : GetLocal(i) \/ SetLocal(i)
  BY <1>3, GetLocalStep, SetLocalStep
<1>4. CASE \E k \in 1 .. MaxUpvalues : GetUpvalue(k) \/ SetUpvalue(k)
  BY <1>4, GetUpvalueStep, SetUpvalueStep
<1>5. CASE define_variable
  BY <1>5, DefineVariableStep
<1>6. CASE end_scope
  BY <1>6, EndScopeStep
<1>7. CASE \E n \in 0 .. MaxUpvalues : MakeClosure(n)
  <2>1. PICK n \in 0 .. MaxUpvalues : MakeClosure(n)
    BY <1>7
  <2>2. n \in Nat
    BY ClosureAssumption
  <2> QED BY <2>1, <2>2, MakeClosureStep
<1>8. CASE Capture
  BY <1>8, CaptureStep
<1>9. CASE \E argc \in 0 .. MaxArgs : Call(argc)
  <2>1. PICK argc \in 0 .. MaxArgs : Call(argc)
    BY <1>9
  <2>2. argc \in Nat
    BY ClosureAssumption
  <2> QED BY <2>1, <2>2, CallStep
<1>10. CASE Return
  BY <1>10, ReturnStep
<1>11. CASE Collect
  BY <1>11, CollectStep
<1>12. CASE UNCHANGED vars
  <2>1. UNCHANGED <<stack, frames, open, upvalue, upvalues, capturing, locals, named>>
    BY <1>12 DEF vars, machine
  <2>2. TypeOK' /\ Shape'
    BY <2>1 DEF IInv, TypeOK, FramesApart, Shape
  <2> QED BY <2>1, <2>2, Unmoved
<1> QED BY <1>1, <1>2, <1>3, <1>4, <1>5, <1>6, <1>7, <1>8, <1>9, <1>10, <1>11, <1>12 DEF Next

(* The inductive invariant holds in every state of every run.              *)
THEOREM InvariantHolds == Spec => []IInv
BY InitIInv, NextIInv, PTL DEF Spec

(* The slots of frames do not overlap, values are where the instructions   *)
(* look for them, and upvalues and closures are what the heap says.        *)
THEOREM TypesHold == Spec => []TypeOK
<1>1. IInv => TypeOK
  BY DEF IInv
<1> QED BY <1>1, InvariantHolds, PTL

LEMMA ListIsOrdered == IInv => OpenList
<1> SUFFICES ASSUME IInv PROVE OpenList
  OBVIOUS
<1>1. Layout /\ OpenExact
  BY SlotsApart DEF IInv
<1>2. ASSUME NEW i \in DOMAIN open
      PROVE  open[i] \in DOMAIN upvalue /\ upvalue[open[i]].location \in DOMAIN stack
  <2>1. PICK f \in DOMAIN locals : \E j \in DOMAIN locals[f] : upvalue[open[i]].location = At(f, j)
    BY <1>1 DEF OpenExact
  <2> QED BY <2>1, <1>1 DEF Layout, OpenExact
<1> QED BY <1>1, <1>2 DEF OpenList, OpenExact

(* The list of open upvalues is strictly sorted and inside the stack, so   *)
(* the loops of capture_upvalue and close_upvalues stop where they should, *)
(* whatever closures are made, called and left.                            *)
THEOREM OpenListHolds == Spec => []OpenList
BY ListIsOrdered, InvariantHolds, PTL

LEMMA OnStackIs ==
  ASSUME NEW v
  PROVE  v \in OnStack <=> \E f \in DOMAIN locals : \E i \in DOMAIN locals[f] : locals[f][i] = v
BY DEF OnStack, Elements

(* A variable on the stack is in one slot.                                 *)
LEMMA SlotIs ==
  ASSUME IInv, NEW f \in DOMAIN locals, NEW i \in DOMAIN locals[f]
  PROVE  SlotOf(locals[f][i]) = At(f, i)
<1> DEFINE v == locals[f][i]
<1> DEFINE Is(s) == \E e \in DOMAIN locals : \E j \in DOMAIN locals[e] : locals[e][j] = v /\ s = At(e, j)
<1>1. Layout /\ Distinct
  BY SlotsApart DEF IInv
<1>2. At(f, i) \in DOMAIN stack /\ Is(At(f, i))
  BY <1>1 DEF Layout
<1>3. \A s : Is(s) => s = At(f, i)
  BY <1>1 DEF Distinct
<1>4. SlotOf(v) = CHOOSE s \in DOMAIN stack : Is(s)
  BY DEF SlotOf, At
<1> HIDE DEF Is, v
<1> QED BY <1>2, <1>3, <1>4 DEF v

LEMMA ClosuresMean == IInv => UpvaluesMeanVariables
<1> SUFFICES ASSUME IInv, NEW cl \in DOMAIN upvalues, NEW k \in DOMAIN upvalues[cl]
             PROVE  IF named[cl][k] \in OnStack
                    THEN upvalue[upvalues[cl][k]].location = SlotOf(named[cl][k])
                    ELSE upvalue[upvalues[cl][k]].location = CLOSED
  BY DEF UpvaluesMeanVariables
<1>1. Means
  BY DEF IInv
<1>2. CASE named[cl][k] \in OnStack
  <2>1. PICK f \in DOMAIN locals : \E i \in DOMAIN locals[f] : locals[f][i] = named[cl][k]
    BY <1>2, OnStackIs
  <2>2. PICK i \in DOMAIN locals[f] : locals[f][i] = named[cl][k]
    BY <2>1
  <2>3. SlotOf(named[cl][k]) = At(f, i)
    BY <2>2, SlotIs
  <2> QED BY <2>2, <2>3, <1>1, <1>2 DEF Means
<1>3. CASE named[cl][k] \notin OnStack
  BY <1>1, <1>3, OnStackIs DEF Means
<1> QED BY <1>2, <1>3

(* An upvalue of a closure points at the slot of the variable the closure  *)
(* means for as long as the variable has one, and at its own copy of the   *)
(* value from then on, in whatever order frames and scopes are left.       *)
THEOREM UpvaluesMeanVariablesHolds == Spec => []UpvaluesMeanVariables
BY ClosuresMean, InvariantHolds, PTL

(* Closures that share a variable share its upvalue, and no upvalue stands *)
(* for two variables, such as the locals of two calls of one function.     *)
THEOREM OneUpvaluePerVariableHolds == Spec => []OneUpvaluePerVariable
<1>1. IInv => OneUpvaluePerVariable
  BY DEF IInv
<1> QED BY <1>1, InvariantHolds, PTL
-----------------------------------------------------------------------------
(* Stack slots and upvalues together implement the cells of Variables.     *)

(* What the k-th upvalue of a closure finds.                               *)
Cell(cl, k) == Found(upvalues[cl][k])

OnStackNow(v) == \E f \in DOMAIN locals : \E i \in DOMAIN locals[f] : locals[f][i] = v
NamedNow(v) == \E cl \in DOMAIN upvalues : \E k \in DOMAIN upvalues[cl] : named[cl][k] = v

(* Every way to a variable leads to the same value.                        *)
StoreRight ==
  /\ UsedVars \subseteq Var /\ Store \in [UsedVars -> Value]
  /\ \A v : v \in UsedVars <=> OnStackNow(v) \/ NamedNow(v)
  /\ \A f \in DOMAIN locals : \A i \in DOMAIN locals[f] : Store[locals[f][i]] = stack[At(f, i)]
  /\ \A cl \in DOMAIN upvalues : \A k \in DOMAIN upvalues[cl] :
       /\ Store[named[cl][k]] = Cell(cl, k)
       /\ upvalue[upvalues[cl][k]].location # CLOSED =>
            \E f \in DOMAIN locals : \E i \in DOMAIN locals[f] :
              locals[f][i] = named[cl][k] /\ upvalue[upvalues[cl][k]].location = At(f, i)

LEMMA UsedIs ==
  ASSUME IInv, NEW v
  PROVE  v \in UsedVars <=> OnStackNow(v) \/ NamedNow(v)
<1>1. Basic /\ Shape
  BY TypesBasic DEF IInv
<1>2. v \in OnStack <=> OnStackNow(v)
  BY OnStackIs DEF OnStackNow
<1>3. \A cl \in DOMAIN upvalues : DOMAIN named[cl] = DOMAIN upvalues[cl]
  BY <1>1 DEF Basic, Shape
<1>4. v \in UNION {Elements(named[cl]) : cl \in DOMAIN named} <=> NamedNow(v)
  BY <1>1, <1>3 DEF Elements, NamedNow, Basic
<1> QED BY <1>2, <1>4 DEF UsedVars

(* The upvalue of a variable is the same through every closure.            *)
LEMMA UpvalueIs ==
  ASSUME IInv, NEW cl \in DOMAIN upvalues, NEW k \in DOMAIN upvalues[cl]
  PROVE  UpvalueOf(named[cl][k]) = upvalues[cl][k]
<1> DEFINE v == named[cl][k]
<1> DEFINE Is(u) == \E cm \in DOMAIN upvalues : \E l \in DOMAIN upvalues[cm] :
                      named[cm][l] = v /\ upvalues[cm][l] = u
<1>1. OneUpvaluePerVariable /\ Shape
  BY DEF IInv
<1>2. upvalues[cl][k] \in DOMAIN upvalue /\ Is(upvalues[cl][k])
  BY <1>1 DEF Shape
<1>3. \A u : Is(u) => u = upvalues[cl][k]
  BY <1>1 DEF OneUpvaluePerVariable
<1>4. UpvalueOf(v) = CHOOSE u \in DOMAIN upvalue : Is(u)
  BY DEF UpvalueOf
<1> HIDE DEF Is, v
<1> QED BY <1>2, <1>3, <1>4 DEF v

LEMMA StoreIsRight == IInv => StoreRight
<1> SUFFICES ASSUME IInv PROVE StoreRight
  OBVIOUS
<1>1. Basic /\ Shape /\ Layout /\ Means /\ TypeOK
  BY TypesBasic, SlotsApart DEF IInv
<1>2. \A v : v \in UsedVars <=> OnStackNow(v) \/ NamedNow(v)
  BY UsedIs
<1>3. DOMAIN Store = UsedVars /\ Store = [v \in UsedVars |-> Store[v]]
  BY DEF Store
<1>4. \A v \in UsedVars : Store[v] = IF v \in OnStack THEN stack[SlotOf(v)]
                                                     ELSE upvalue[UpvalueOf(v)].closed
  BY DEF Store
<1>5. \A v : v \in OnStack <=> OnStackNow(v)
  BY OnStackIs DEF OnStackNow
<1>6. ASSUME NEW f \in DOMAIN locals, NEW i \in DOMAIN locals[f]
      PROVE  /\ locals[f][i] \in UsedVars /\ locals[f][i] \in Var
             /\ Store[locals[f][i]] = stack[At(f, i)] /\ Store[locals[f][i]] \in Value
  <2>1. locals[f][i] \in UsedVars /\ locals[f][i] \in OnStack
    BY <1>2, <1>5 DEF OnStackNow
  <2>2. Store[locals[f][i]] = stack[At(f, i)]
    BY <2>1, <1>4, SlotIs
  <2>3. stack[At(f, i)] \in Value
    BY <1>1 DEF Layout, Basic
  <2>4. locals[f] \in Seq(Var)
    BY <1>1 DEF Basic
  <2>5. locals[f][i] \in Var
    BY <2>4, ElementOfSeq
  <2> QED BY <2>1, <2>2, <2>3, <2>5
<1>7. ASSUME NEW cl \in DOMAIN upvalues, NEW k \in DOMAIN upvalues[cl],
             upvalue[upvalues[cl][k]].location # CLOSED
      PROVE  \E f \in DOMAIN locals : \E i \in DOMAIN locals[f] :
               locals[f][i] = named[cl][k] /\ upvalue[upvalues[cl][k]].location = At(f, i)
  BY <1>1, <1>7 DEF Means
<1>8. ASSUME NEW cl \in DOMAIN upvalues, NEW k \in DOMAIN upvalues[cl]
      PROVE  /\ named[cl][k] \in UsedVars /\ named[cl][k] \in Var
             /\ Store[named[cl][k]] = Cell(cl, k) /\ Store[named[cl][k]] \in Value
  <2> DEFINE u == upvalues[cl][k]
  <2>1. named[cl][k] \in UsedVars
    BY <1>2 DEF NamedNow
  <2>2. named[cl][k] \in Var
    <3>1. named[cl] \in Seq(Var) /\ k \in DOMAIN named[cl]
      BY <1>1 DEF Basic, Shape
    <3> QED BY <3>1, ElementOfSeq
  <2>3. Found(u) \in Value
    BY FoundIsValue
  <2>4. CASE named[cl][k] \in OnStack
    <3>1. PICK f \in DOMAIN locals : \E i \in DOMAIN locals[f] : locals[f][i] = named[cl][k]
      BY <2>4, <1>5 DEF OnStackNow
    <3>2. PICK i \in DOMAIN locals[f] : locals[f][i] = named[cl][k]
      BY <3>1
    <3>3. upvalue[u].location = At(f, i) /\ At(f, i) # CLOSED
      BY <3>2, <1>1 DEF Means, Layout, Basic, CLOSED
    <3>4. Found(u) = stack[At(f, i)]
      BY <3>3 DEF Found
    <3>5. Store[named[cl][k]] = Found(u)
      BY <3>2, <3>4, <1>6
    <3> QED BY <3>5, <2>1, <2>2, <2>3 DEF Cell
  <2>5. CASE named[cl][k] \notin OnStack
    <3>1. upvalue[u].location = CLOSED
      BY <2>5, <1>5, <1>7 DEF OnStackNow
    <3>2. Store[named[cl][k]] = upvalue[u].closed
      BY <2>1, <2>5, <1>4, UpvalueIs
    <3>3. Store[named[cl][k]] = Found(u)
      BY <3>1, <3>2 DEF Found
    <3> QED BY <3>3, <2>1, <2>2, <2>3 DEF Cell
  <2> QED BY <2>4, <2>5
<1>9. ASSUME NEW v \in UsedVars PROVE v \in Var /\ Store[v] \in Value
  <2>1. CASE OnStackNow(v)
    BY <2>1, <1>6 DEF OnStackNow
  <2>2. CASE NamedNow(v)
    BY <2>2, <1>8 DEF NamedNow
  <2> QED BY <2>1, <2>2, <1>2
<1>10. Store \in [UsedVars -> Value]
  BY <1>3, <1>9
<1> QED BY <1>2, <1>6, <1>7, <1>8, <1>9, <1>10 DEF StoreRight

LEMMA StoreIsRightNext == IInv' => StoreRight'
BY StoreIsRight, PTL
-----------------------------------------------------------------------------
(* What is added leaves the variables that were there as they are.         *)
LEMMA Kept ==
  ASSUME IInv, IInv',
         \A f \in DOMAIN locals : \A i \in DOMAIN locals[f] :
           /\ f \in DOMAIN locals' /\ i \in DOMAIN locals'[f]
           /\ locals'[f][i] = locals[f][i] /\ frames'[f].slots = frames[f].slots
           /\ stack'[At(f, i)] = stack[At(f, i)],
         \A cl \in DOMAIN upvalues : \A k \in DOMAIN upvalues[cl] :
           /\ cl \in DOMAIN upvalues' /\ k \in DOMAIN upvalues'[cl]
           /\ upvalues'[cl][k] = upvalues[cl][k] /\ named'[cl][k] = named[cl][k],
         \A u \in DOMAIN upvalue : upvalue'[u] = upvalue[u]
  PROVE  UsedVars \subseteq UsedVars' /\ \A v \in UsedVars : Store'[v] = Store[v]
<1>1. StoreRight /\ StoreRight' /\ Shape
  BY StoreIsRight, StoreIsRightNext DEF IInv
<1> SUFFICES ASSUME NEW v \in UsedVars PROVE v \in UsedVars' /\ Store'[v] = Store[v]
  OBVIOUS
<1>2. OnStackNow(v) \/ NamedNow(v)
  BY <1>1 DEF StoreRight
<1>3. CASE OnStackNow(v)
  <2>1. PICK f \in DOMAIN locals : \E i \in DOMAIN locals[f] : locals[f][i] = v
    BY <1>3 DEF OnStackNow
  <2>2. PICK i \in DOMAIN locals[f] : locals[f][i] = v
    BY <2>1
  <2>3. f \in DOMAIN locals' /\ i \in DOMAIN locals'[f] /\ locals'[f][i] = v
    BY <2>2
  <2>4. OnStackNow(v)'
    BY <2>3 DEF OnStackNow
  <2>5. At(f, i)' = At(f, i)
    BY <2>2 DEF At
  <2>6. Store'[v] = stack'[At(f, i)'] /\ v \in UsedVars'
    BY <2>3, <2>4, <1>1 DEF StoreRight
  <2>7. Store[v] = stack[At(f, i)]
    BY <2>2, <1>1 DEF StoreRight
  <2>8. stack'[At(f, i)] = stack[At(f, i)]
    BY <2>2
  <2> QED BY <2>5, <2>6, <2>7, <2>8
<1>4. CASE NamedNow(v)
  <2>1. PICK cl \in DOMAIN upvalues : \E k \in DOMAIN upvalues[cl] : named[cl][k] = v
    BY <1>4 DEF NamedNow
  <2>2. PICK k \in DOMAIN upvalues[cl] : named[cl][k] = v
    BY <2>1
  <2>3. /\ cl \in DOMAIN upvalues' /\ k \in DOMAIN upvalues'[cl] /\ named'[cl][k] = v
        /\ upvalues'[cl][k] = upvalues[cl][k]
    BY <2>2
  <2>4. NamedNow(v)'
    BY <2>3 DEF NamedNow
  <2>5. Store'[v] = Cell(cl, k)' /\ v \in UsedVars'
    BY <2>3, <2>4, <1>1 DEF StoreRight
  <2>6. Store[v] = Cell(cl, k)
    BY <2>2, <1>1 DEF StoreRight
  <2> DEFINE u == upvalues[cl][k]
  <2>7. u \in DOMAIN upvalue /\ upvalue'[u] = upvalue[u]
    BY <1>1 DEF Shape
  <2>8. upvalue[u].location # CLOSED => stack'[upvalue[u].location] = stack[upvalue[u].location]
    BY <1>1 DEF StoreRight
  <2>9. Cell(cl, k)' = Cell(cl, k)
    BY <2>3, <2>7, <2>8 DEF Cell, Found
  <2> QED BY <2>5, <2>6, <2>9
<1> QED BY <1>2, <1>3, <1>4

LEMMA Adds ==
  ASSUME IInv, IInv', access' = NoAccess,
         UsedVars \subseteq UsedVars', \A v \in UsedVars : Store'[v] = Store[v]
  PROVE  V!Next
<1> DEFINE S == UsedVars' \ UsedVars
<1>1. StoreRight /\ StoreRight'
  BY StoreIsRight, StoreIsRightNext
<1>2. /\ DOMAIN Store = UsedVars /\ DOMAIN Store' = UsedVars'
      /\ Store' \in [UsedVars' -> Value] /\ UsedVars' \subseteq Var
  BY <1>1 DEF StoreRight
<1>3. S \in SUBSET Var /\ S \cap UsedVars = {} /\ UsedVars \cup S = UsedVars'
  BY <1>2
<1>4. V!Declare(S)
  BY <1>2, <1>3 DEF V!Declare, V!NoAccess, NoAccess
<1> QED BY <1>3, <1>4 DEF V!Next

(* What goes leaves the other variables as they are.                       *)
LEMMA Removes ==
  ASSUME IInv, IInv', access' = NoAccess,
         \A f \in DOMAIN locals' : \A i \in DOMAIN locals'[f] :
           /\ f \in DOMAIN locals /\ i \in DOMAIN locals[f]
           /\ locals'[f][i] = locals[f][i] /\ frames'[f].slots = frames[f].slots
           /\ stack'[At(f, i)] = stack[At(f, i)],
         \A cl \in DOMAIN upvalues' : \A k \in DOMAIN upvalues'[cl] :
           /\ cl \in DOMAIN upvalues /\ k \in DOMAIN upvalues[cl]
           /\ upvalues'[cl][k] = upvalues[cl][k] /\ named'[cl][k] = named[cl][k],
         \A u \in DOMAIN upvalue' :
           \/ upvalue'[u] = upvalue[u]
           \/ /\ upvalue[u].location # CLOSED /\ upvalue'[u].location = CLOSED
              /\ upvalue'[u].closed = stack[upvalue[u].location]
  PROVE  V!Next
<1>1. StoreRight /\ StoreRight' /\ Shape'
  BY StoreIsRight, StoreIsRightNext DEF IInv
<1>2. ASSUME NEW v \in UsedVars' PROVE v \in UsedVars /\ Store'[v] = Store[v]
  <2>1. OnStackNow(v)' \/ NamedNow(v)'
    BY <1>1 DEF StoreRight
  <2>2. CASE OnStackNow(v)'
    <3>1. PICK f \in DOMAIN locals' : \E i \in DOMAIN locals'[f] : locals'[f][i] = v
      BY <2>2 DEF OnStackNow
    <3>2. PICK i \in DOMAIN locals'[f] : locals'[f][i] = v
      BY <3>1
    <3>3. /\ f \in DOMAIN locals /\ i \in DOMAIN locals[f] /\ locals[f][i] = v
          /\ stack'[At(f, i)] = stack[At(f, i)]
      BY <3>2
    <3>4. OnStackNow(v)
      BY <3>3 DEF OnStackNow
    <3>5. At(f, i)' = At(f, i)
      BY <3>2 DEF At
    <3>6. Store'[v] = stack'[At(f, i)']
      BY <3>2, <1>1 DEF StoreRight
    <3>7. Store[v] = stack[At(f, i)] /\ v \in UsedVars
      BY <3>3, <3>4, <1>1 DEF StoreRight
    <3> QED BY <3>3, <3>5, <3>6, <3>7
  <2>3. CASE NamedNow(v)' /\ ~OnStackNow(v)'
    <3>1. PICK cl \in DOMAIN upvalues' : \E k \in DOMAIN upvalues'[cl] : named'[cl][k] = v
      BY <2>3 DEF NamedNow
    <3>2. PICK k \in DOMAIN upvalues'[cl] : named'[cl][k] = v
      BY <3>1
    <3>3. /\ cl \in DOMAIN upvalues /\ k \in DOMAIN upvalues[cl] /\ named[cl][k] = v
          /\ upvalues'[cl][k] = upvalues[cl][k]
      BY <3>2
    <3>4. NamedNow(v)
      BY <3>3 DEF NamedNow
    <3> DEFINE u == upvalues[cl][k]
    <3>5. u \in DOMAIN upvalue'
      BY <3>2, <3>3, <1>1 DEF Shape
    <3>6. upvalue'[u].location = CLOSED
      BY <2>3, <3>2, <3>3, <1>1 DEF StoreRight, OnStackNow
    <3>7. Store'[v] = Cell(cl, k)' /\ Store[v] = Cell(cl, k) /\ v \in UsedVars
      BY <3>2, <3>3, <3>4, <1>1 DEF StoreRight
    <3>8. Cell(cl, k)' = Cell(cl, k)
      BY <3>3, <3>5, <3>6 DEF Cell, Found
    <3> QED BY <3>7, <3>8
  <2> QED BY <2>1, <2>2, <2>3
<1> DEFINE S == UsedVars \ UsedVars'
<1>3. /\ DOMAIN Store = UsedVars /\ Store' \in [UsedVars' -> Value] /\ UsedVars \subseteq Var
  BY <1>1 DEF StoreRight
<1>4. S \in SUBSET Var /\ UsedVars \ S = UsedVars'
  BY <1>2, <1>3
<1>5. Store' = [v \in UsedVars \ S |-> Store[v]]
  BY <1>2, <1>3, <1>4
<1>6. V!Forget(S)
  BY <1>3, <1>5 DEF V!Forget, V!NoAccess, NoAccess
<1> QED BY <1>4, <1>6 DEF V!Next
-----------------------------------------------------------------------------
(* Instructions that only read.                                            *)

LEMMA BelowTop ==
  ASSUME IInv, frames # <<>>, NEW f \in DOMAIN locals, NEW i \in DOMAIN locals[f]
  PROVE  /\ At(f, i) \in DOMAIN stack /\ At(f, i) \in Nat \ {0}
         /\ At(f, i) < Base + Len(Top(locals))
<1>1. TypeOK /\ Basic /\ Layout
  BY TypesBasic, SlotsApart DEF IInv
<1>2. f \in DOMAIN frames /\ i \in 1 .. Len(locals[f]) /\ Len(locals[f]) \in Nat /\ frames[f].slots \in Nat
  BY <1>1 DEF Basic
<1>3. frames[f].slots + Len(locals[f]) <= Base + Len(Top(locals))
  BY <1>1, <1>2, TopIsHighest
<1>4. Base + Len(Top(locals)) \in Nat
  BY <1>1, TopIsHighest
<1>5. At(f, i) < Base + Len(Top(locals))
  BY <1>2, <1>3, <1>4 DEF At
<1>6. At(f, i) \in DOMAIN stack /\ At(f, i) \in Nat \ {0}
  BY <1>1 DEF Layout, Basic
<1> QED BY <1>5, <1>6

LEMMA SameStore ==
  ASSUME IInv, IInv', UNCHANGED <<frames, upvalue, upvalues, locals, named>>,
         \A f \in DOMAIN locals : \A i \in DOMAIN locals[f] : stack'[At(f, i)] = stack[At(f, i)]
  PROVE  UsedVars' = UsedVars /\ Store' = Store
<1>1. UsedVars' = UsedVars
  BY DEF UsedVars, OnStack
<1>2. \A v \in UsedVars : Store'[v] = Store[v]
  BY Kept
<1>3. Store \in [UsedVars -> Value] /\ Store' \in [UsedVars' -> Value]
  BY StoreIsRight, StoreIsRightNext DEF StoreRight
<1> QED BY <1>1, <1>2, <1>3

LEMMA PushKeeps ==
  ASSUME IInv, IInv', Running, NEW val \in Value, Push(val),
         UNCHANGED <<frames, upvalue, upvalues, locals, named>>
  PROVE  UsedVars' = UsedVars /\ Store' = Store
<1>1. stack \in Seq(Value) /\ stack' = Append(stack, val) /\ frames # <<>>
  BY DEF IInv, TypeOK, Push, Running
<1>2. ASSUME NEW f \in DOMAIN locals, NEW i \in DOMAIN locals[f]
      PROVE  stack'[At(f, i)] = stack[At(f, i)]
  <2>1. At(f, i) \in 1 .. Len(stack)
    BY <1>1, BelowTop
  <2> QED BY <1>1, <2>1, AppendProperties
<1> QED BY <1>2, SameStore

LEMMA ConstantMaps == ASSUME IInv, IInv', Constant PROVE V!Next
<1>1. PICK val \in Data : Push(val)
  BY DEF Constant
<1>2. val \in Value
  BY DEF Value
<1>3. UsedVars' = UsedVars /\ Store' = Store
  BY <1>1, <1>2, PushKeeps DEF Constant
<1> QED BY <1>3, Adds DEF Constant

LEMMA PopMaps == ASSUME IInv, IInv', Pop PROVE V!Next
<1>1. /\ stack \in Seq(Value) /\ stack' = Cut(stack, 1) /\ frames # <<>> /\ TypeOK /\ Basic
      /\ Temporaries >= 1 /\ UNCHANGED <<frames, upvalue, upvalues, locals, named>>
  BY TypesBasic DEF IInv, TypeOK, Pop, Running
<1>2. Base + Len(Top(locals)) <= Len(stack) /\ Len(stack) \in Nat /\ Base + Len(Top(locals)) \in Nat
  BY <1>1, OperandIsValue, TopIsHighest DEF Basic
<1>3. ASSUME NEW f \in DOMAIN locals, NEW i \in DOMAIN locals[f]
      PROVE  stack'[At(f, i)] = stack[At(f, i)]
  <2>1. At(f, i) \in Nat \ {0} /\ At(f, i) < Base + Len(Top(locals))
    BY <1>1, BelowTop
  <2>2. At(f, i) \in 1 .. Len(stack) - 1 /\ Len(stack) >= 1
    BY <2>1, <1>2
  <2> QED BY <1>1, <2>2, CutOne
<1>4. UsedVars' = UsedVars /\ Store' = Store
  BY <1>1, <1>3, SameStore
<1> QED BY <1>4, Adds DEF Pop

(* An access finds the value of its variable.                              *)
LEMMA ReadMaps ==
  ASSUME IInv, NEW v \in UsedVars, Store' = Store, access' = [of |-> v, val |-> Store[v]]
  PROVE  V!Next
<1>1. UsedVars \subseteq Var /\ DOMAIN Store = UsedVars
  BY StoreIsRight DEF StoreRight
<1>2. V!Read(v)
  BY <1>1 DEF V!Read
<1> QED BY <1>1, <1>2 DEF V!Next

LEMMA GetLocalMaps == ASSUME IInv, IInv', NEW i, GetLocal(i) PROVE V!Next
<1> DEFINE t == Len(frames)
<1>1. Running /\ frames # <<>> /\ TypeOK /\ Basic /\ Layout /\ StoreRight
  BY TypesBasic, SlotsApart, StoreIsRight DEF IInv, Running, GetLocal
<1>2. Slot(i) = At(t, i) /\ t \in DOMAIN locals /\ i \in DOMAIN locals[t] /\ Top(locals) = locals[t]
  BY <1>1, TopIsHighest DEF Slot, At, GetLocal, Basic
<1>3. stack[Slot(i)] \in Value
  BY <1>1, <1>2 DEF Layout, Basic
<1>4. UsedVars' = UsedVars /\ Store' = Store
  BY <1>1, <1>3, PushKeeps DEF GetLocal
<1>5. locals[t][i] \in UsedVars /\ Store[locals[t][i]] = stack[Slot(i)]
  BY <1>1, <1>2 DEF StoreRight, OnStackNow
<1>6. access' = [of |-> locals[t][i], val |-> Store[locals[t][i]]]
  BY <1>2, <1>5 DEF GetLocal
<1> QED BY <1>4, <1>5, <1>6, ReadMaps

LEMMA GetUpvalueMaps == ASSUME IInv, IInv', NEW k, GetUpvalue(k) PROVE V!Next
<1> DEFINE cl == Top(frames).closure
<1>1. Running /\ frames # <<>> /\ TypeOK /\ Basic /\ StoreRight /\ k \in DOMAIN upvalues[cl]
  BY TypesBasic, StoreIsRight DEF IInv, Running, GetUpvalue
<1>2. cl \in DOMAIN upvalues
  BY <1>1, TopIsHighest DEF IInv, Shape
<1>3. Found(upvalues[cl][k]) \in Value
  BY <1>1, <1>2, FoundIsValue
<1>4. UsedVars' = UsedVars /\ Store' = Store
  BY <1>1, <1>3, PushKeeps DEF GetUpvalue
<1>5. named[cl][k] \in UsedVars /\ Store[named[cl][k]] = Found(upvalues[cl][k])
  BY <1>1, <1>2 DEF StoreRight, NamedNow, Cell
<1>6. access' = [of |-> named[cl][k], val |-> Store[named[cl][k]]]
  BY <1>5 DEF GetUpvalue
<1> QED BY <1>4, <1>5, <1>6, ReadMaps
-----------------------------------------------------------------------------
(* Instructions that assign.                                               *)

LEMMA AssignMaps ==
  ASSUME IInv, NEW v \in UsedVars, NEW val \in Value, Store' = [Store EXCEPT ![v] = val],
         access' = [of |-> v, val |-> val]
  PROVE  V!Next
<1>1. UsedVars \subseteq Var /\ DOMAIN Store = UsedVars
  BY StoreIsRight DEF StoreRight
<1>2. V!Assign(v, val)
  BY <1>1 DEF V!Assign
<1> QED BY <1>1, <1>2 DEF V!Next

(* To a variable on the stack.                                             *)
LEMMA StackAssigned ==
  ASSUME IInv, IInv', UNCHANGED <<frames, upvalue, upvalues, locals, named>>,
         NEW f \in DOMAIN locals, NEW i \in DOMAIN locals[f], NEW val \in Value,
         stack' = [stack EXCEPT ![At(f, i)] = val]
  PROVE  Store' = [Store EXCEPT ![locals[f][i]] = val] /\ locals[f][i] \in UsedVars
<1> DEFINE v == locals[f][i]
<1>1. StoreRight /\ StoreRight' /\ Layout
  BY StoreIsRight, StoreIsRightNext, SlotsApart DEF IInv
<1>2. UsedVars' = UsedVars
  BY DEF UsedVars, OnStack
<1>3. v \in UsedVars
  BY <1>1 DEF StoreRight, OnStackNow
<1>4. ASSUME NEW e \in DOMAIN locals, NEW j \in DOMAIN locals[e]
      PROVE  Store'[locals[e][j]] = IF locals[e][j] = v THEN val ELSE Store[locals[e][j]]
  <2>1. At(e, j) \in DOMAIN stack /\ At(e, j)' = At(e, j)
    BY <1>1 DEF Layout, At
  <2>2. Store'[locals[e][j]] = stack'[At(e, j)]
    BY <2>1, <1>1 DEF StoreRight
  <2>3. CASE At(e, j) = At(f, i)
    <3>1. e = f /\ j = i
      BY <2>3, <1>1 DEF Layout
    <3> QED BY <2>1, <2>2, <3>1
  <2>4. CASE At(e, j) # At(f, i)
    <3>1. locals[e][j] # v
      BY <2>4 DEF IInv, Distinct
    <3>2. stack'[At(e, j)] = stack[At(e, j)]
      BY <2>1, <2>4
    <3> QED BY <2>2, <3>1, <3>2, <1>1 DEF StoreRight
  <2> QED BY <2>3, <2>4
<1>5. ASSUME NEW w \in UsedVars PROVE Store'[w] = IF w = v THEN val ELSE Store[w]
  <2>1. CASE OnStackNow(w)
    BY <2>1, <1>4 DEF OnStackNow
  <2>2. CASE NamedNow(w) /\ ~OnStackNow(w)
    <3>1. PICK cl \in DOMAIN upvalues : \E k \in DOMAIN upvalues[cl] : named[cl][k] = w
      BY <2>2 DEF NamedNow
    <3>2. PICK k \in DOMAIN upvalues[cl] : named[cl][k] = w
      BY <3>1
    <3>3. upvalue[upvalues[cl][k]].location = CLOSED
      BY <2>2, <3>2, <1>1 DEF StoreRight, OnStackNow
    <3>4. Cell(cl, k)' = Cell(cl, k)
      BY <3>3 DEF Cell, Found
    <3>5. Store[w] = Cell(cl, k) /\ Store'[w] = Cell(cl, k)'
      BY <3>2, <1>1 DEF StoreRight
    <3>6. w # v
      BY <2>2 DEF OnStackNow
    <3> QED BY <3>4, <3>5, <3>6
  <2> QED BY <2>1, <2>2, <1>1 DEF StoreRight
<1>6. Store \in [UsedVars -> Value] /\ Store' \in [UsedVars -> Value]
  BY <1>1, <1>2 DEF StoreRight
<1> HIDE DEF v
<1>7. Store' = [Store EXCEPT ![v] = val]
  BY <1>3, <1>5, <1>6
<1> QED BY <1>3, <1>7 DEF v

LEMMA SetLocalMaps == ASSUME IInv, IInv', NEW i, SetLocal(i) PROVE V!Next
<1> DEFINE t == Len(frames)
<1>1. Running /\ frames # <<>> /\ TypeOK /\ Basic
  BY TypesBasic DEF IInv, Running, SetLocal
<1>2. Slot(i) = At(t, i) /\ t \in DOMAIN locals /\ i \in DOMAIN locals[t] /\ Top(locals) = locals[t]
  BY <1>1, TopIsHighest DEF Slot, At, SetLocal, Basic
<1>3. Peek(0) \in Value
  BY <1>1, OperandIsValue DEF SetLocal
<1>4. /\ stack' = [stack EXCEPT ![At(t, i)] = Peek(0)]
      /\ access' = [of |-> locals[t][i], val |-> Peek(0)]
      /\ UNCHANGED <<frames, upvalue, upvalues, locals, named>>
  BY <1>2 DEF SetLocal
<1>5. Store' = [Store EXCEPT ![locals[t][i]] = Peek(0)] /\ locals[t][i] \in UsedVars
  BY <1>2, <1>3, <1>4, StackAssigned
<1> QED BY <1>3, <1>4, <1>5, AssignMaps

(* To a variable that is in its upvalue.                                   *)
LEMMA ClosedAssigned ==
  ASSUME IInv, IInv', UNCHANGED <<stack, frames, upvalues, locals, named>>,
         NEW cl \in DOMAIN upvalues, NEW k \in DOMAIN upvalues[cl], NEW val \in Value,
         upvalue[upvalues[cl][k]].location = CLOSED,
         upvalue' = [upvalue EXCEPT ![upvalues[cl][k]].closed = val]
  PROVE  Store' = [Store EXCEPT ![named[cl][k]] = val] /\ named[cl][k] \in UsedVars
<1> DEFINE v == named[cl][k]
<1> DEFINE u == upvalues[cl][k]
<1>1. StoreRight /\ StoreRight' /\ Shape /\ TypeOK /\ OneUpvaluePerVariable /\ Means
  BY StoreIsRight, StoreIsRightNext DEF IInv
<1>2. UsedVars' = UsedVars
  BY DEF UsedVars, OnStack
<1>3. v \in UsedVars
  BY <1>1 DEF StoreRight, NamedNow
<1>4. u \in DOMAIN upvalue
  BY <1>1 DEF Shape
<1>5. upvalue'[u].location = CLOSED /\ upvalue'[u].closed = val
  <2>1. upvalue' = [upvalue EXCEPT ![u] = [upvalue[u] EXCEPT !.closed = val]]
    OBVIOUS
  <2>2. upvalue[u] \in [location : Nat, closed : Value]
    BY <1>1, <1>4 DEF TypeOK
  <2> QED BY <2>1, <2>2, <1>4
<1>6. \A w \in DOMAIN upvalue : w # u => upvalue'[w] = upvalue[w]
  OBVIOUS
<1>7. ~OnStackNow(v)
  <2> SUFFICES ASSUME NEW f \in DOMAIN locals, NEW i \in DOMAIN locals[f], locals[f][i] = v PROVE FALSE
    BY DEF OnStackNow
  <2>1. At(f, i) = CLOSED
    BY <1>1 DEF Means
  <2>2. At(f, i) \in Nat \ {0}
    BY OpenThere
  <2> QED BY <2>1, <2>2 DEF CLOSED
<1>8. ASSUME NEW w \in UsedVars PROVE Store'[w] = IF w = v THEN val ELSE Store[w]
  <2>1. CASE OnStackNow(w)
    <3>1. PICK f \in DOMAIN locals : \E i \in DOMAIN locals[f] : locals[f][i] = w
      BY <2>1 DEF OnStackNow
    <3>2. PICK i \in DOMAIN locals[f] : locals[f][i] = w
      BY <3>1
    <3>3. At(f, i)' = At(f, i)
      BY DEF At
    <3>4. Store'[w] = Store[w]
      BY <3>2, <3>3, <1>1 DEF StoreRight
    <3>5. w # v
      BY <2>1, <1>7
    <3> QED BY <3>4, <3>5
  <2>2. CASE NamedNow(w)
    <3>1. PICK cm \in DOMAIN upvalues : \E l \in DOMAIN upvalues[cm] : named[cm][l] = w
      BY <2>2 DEF NamedNow
    <3>2. PICK l \in DOMAIN upvalues[cm] : named[cm][l] = w
      BY <3>1
    <3>3. w = v <=> upvalues[cm][l] = u
      BY <3>2, <1>1 DEF OneUpvaluePerVariable
    <3>4. Store'[w] = Cell(cm, l)' /\ Store[w] = Cell(cm, l)
      BY <3>2, <1>1 DEF StoreRight
    <3>5. CASE upvalues[cm][l] = u
      BY <3>3, <3>4, <3>5, <1>5 DEF Cell, Found
    <3>6. CASE upvalues[cm][l] # u
      <4>1. upvalues[cm][l] \in DOMAIN upvalue
        BY <1>1 DEF Shape
      <4>2. upvalue'[upvalues[cm][l]] = upvalue[upvalues[cm][l]]
        BY <3>6, <4>1, <1>6
      <4>3. UNCHANGED <<stack, upvalues>>
        OBVIOUS
      <4>4. Cell(cm, l)' = Cell(cm, l)
        BY ONLY <4>2, <4>3 DEF Cell, Found
      <4> QED BY <3>3, <3>4, <3>6, <4>4
    <3> QED BY <3>5, <3>6
  <2> QED BY <2>1, <2>2, <1>1 DEF StoreRight
<1>9. Store \in [UsedVars -> Value] /\ Store' \in [UsedVars -> Value]
  BY <1>1, <1>2 DEF StoreRight
<1> HIDE DEF v
<1>10. Store' = [Store EXCEPT ![v] = val]
  BY <1>3, <1>8, <1>9
<1> QED BY <1>3, <1>10 DEF v

LEMMA SetUpvalueMaps == ASSUME IInv, IInv', NEW k, SetUpvalue(k) PROVE V!Next
<1> DEFINE cl == Top(frames).closure
<1> DEFINE u == upvalues[cl][k]
<1>1. Running /\ frames # <<>> /\ TypeOK /\ Basic /\ k \in DOMAIN upvalues[cl] /\ StoreRight
  BY TypesBasic, StoreIsRight DEF IInv, Running, SetUpvalue
<1>2. cl \in DOMAIN upvalues
  BY <1>1, TopIsHighest DEF IInv, Shape
<1>3. Peek(0) \in Value
  BY <1>1, OperandIsValue DEF SetUpvalue
<1>4. /\ access' = [of |-> named[cl][k], val |-> Peek(0)]
      /\ UNCHANGED <<frames, upvalues, locals, named>>
      /\ IF upvalue[u].location = CLOSED
         THEN upvalue' = [upvalue EXCEPT ![u].closed = Peek(0)] /\ UNCHANGED stack
         ELSE stack' = [stack EXCEPT ![upvalue[u].location] = Peek(0)] /\ UNCHANGED upvalue
  BY DEF SetUpvalue
<1> HIDE DEF cl
<1>5. CASE upvalue[u].location = CLOSED
  <2>1. Store' = [Store EXCEPT ![named[cl][k]] = Peek(0)] /\ named[cl][k] \in UsedVars
    BY <1>1, <1>2, <1>3, <1>4, <1>5, ClosedAssigned
  <2> QED BY <2>1, <1>3, <1>4, AssignMaps
<1>6. CASE upvalue[u].location # CLOSED
  <2>1. PICK f \in DOMAIN locals : \E i \in DOMAIN locals[f] :
          locals[f][i] = named[cl][k] /\ upvalue[u].location = At(f, i)
    BY <1>1, <1>2, <1>6 DEF StoreRight
  <2>2. PICK i \in DOMAIN locals[f] :
          locals[f][i] = named[cl][k] /\ upvalue[u].location = At(f, i)
    BY <2>1
  <2>3. stack' = [stack EXCEPT ![At(f, i)] = Peek(0)] /\ UNCHANGED upvalue
    BY <2>2, <1>4, <1>6
  <2>4. UNCHANGED <<frames, upvalue, upvalues, locals, named>>
    BY <2>3, <1>4
  <2>5. Store' = [Store EXCEPT ![locals[f][i]] = Peek(0)] /\ locals[f][i] \in UsedVars
    BY <2>2, <2>3, <2>4, <1>3, StackAssigned
  <2> QED BY <2>2, <2>5, <1>3, <1>4, AssignMaps
<1> QED BY <1>5, <1>6
-----------------------------------------------------------------------------
(* Instructions that declare variables or make them captured.              *)

LEMMA DefineVariableMaps == ASSUME IInv, IInv', define_variable PROVE V!Next
<1>1. TypeOK /\ frames # <<>>
  BY DEF IInv, Running, define_variable
<1>2. PICK new \in NewVars(1) : locals' = [locals EXCEPT ![Len(locals)] = @ \o new]
  BY DEF define_variable
<1>3. UNCHANGED <<stack, frames, upvalue, upvalues, named>> /\ access' = NoAccess
  BY DEF define_variable, machine
<1>4. \A f \in DOMAIN locals : \A i \in DOMAIN locals[f] :
        /\ f \in DOMAIN locals' /\ i \in DOMAIN locals'[f]
        /\ locals'[f][i] = locals[f][i] /\ frames'[f].slots = frames[f].slots
  BY <1>1, <1>2, <1>3, LocalIsNew
<1>5. UsedVars \subseteq UsedVars' /\ \A v \in UsedVars : Store'[v] = Store[v]
  BY <1>3, <1>4, Kept
<1> QED BY <1>3, <1>5, Adds

LEMMA MakeClosureMaps == ASSUME IInv, IInv', NEW n, MakeClosure(n) PROVE V!Next
<1>1. TypeOK /\ frames # <<>> /\ Layout /\ Basic /\ stack \in Seq(Value)
  BY SlotsApart, TypesBasic DEF IInv, TypeOK, Running, MakeClosure
<1>2. PICK cl \in Closure \ DOMAIN upvalues :
        /\ stack' = Append(stack, cl)
        /\ upvalues' = [x \in DOMAIN upvalues \cup {cl} |-> IF x = cl THEN <<>> ELSE upvalues[x]]
        /\ named' = [x \in DOMAIN named \cup {cl} |-> IF x = cl THEN <<>> ELSE named[x]]
  BY DEF MakeClosure, Push
<1>3. UNCHANGED <<frames, upvalue>> /\ access' = NoAccess
  BY DEF MakeClosure
<1>4. \A f \in DOMAIN locals : \A i \in DOMAIN locals[f] :
        /\ f \in DOMAIN locals' /\ i \in DOMAIN locals'[f]
        /\ locals'[f][i] = locals[f][i] /\ frames'[f].slots = frames[f].slots
  <2>1. CASE UNCHANGED locals
    BY <2>1, <1>3
  <2>2. CASE \E new \in NewVars(1) : locals' = [locals EXCEPT ![Len(locals)] = @ \o new]
    BY <2>2, <1>1, <1>3, LocalIsNew
  <2> QED BY <2>1, <2>2 DEF MakeClosure
<1>5. ASSUME NEW f \in DOMAIN locals, NEW i \in DOMAIN locals[f]
      PROVE  stack'[At(f, i)] = stack[At(f, i)]
  <2>1. At(f, i) \in 1 .. Len(stack) /\ cl \in Value
    BY <1>1 DEF Layout, Basic, Value
  <2> QED BY <2>1, <1>1, <1>2, AppendProperties
<1>6. \A x \in DOMAIN upvalues : \A k \in DOMAIN upvalues[x] :
        /\ x \in DOMAIN upvalues' /\ k \in DOMAIN upvalues'[x]
        /\ upvalues'[x][k] = upvalues[x][k] /\ named'[x][k] = named[x][k]
  BY <1>1, <1>2 DEF Basic
<1>7. UsedVars \subseteq UsedVars' /\ \A v \in UsedVars : Store'[v] = Store[v]
  BY <1>3, <1>4, <1>5, <1>6, Kept
<1> QED BY <1>3, <1>7, Adds

(* What is appended may be anything.                                       *)
LEMMA Longer ==
  ASSUME NEW S, NEW s \in Seq(S), NEW e
  PROVE  /\ DOMAIN Append(s, e) = 1 .. Len(s) + 1
         /\ \A i \in 1 .. Len(s) : Append(s, e)[i] = s[i]
<1> DEFINE T == S \cup {e}
<1>1. s \in Seq(T) /\ e \in T
  OBVIOUS
<1> HIDE DEF T
<1> QED BY <1>1, AppendOne

LEMMA CaptureMaps == ASSUME IInv, IInv', Capture PROVE V!Next
<1>1. TypeOK /\ Basic /\ Shape
  BY TypesBasic DEF IInv
<1>2. UNCHANGED <<stack, frames, locals>> /\ access' = NoAccess
  BY DEF Capture
<1>3. PICK u, v : /\ Captured(u, v)
                  /\ \/ UNCHANGED upvalue
                     \/ /\ u \notin DOMAIN upvalue
                        /\ \E r : upvalue' = [x \in DOMAIN upvalue \cup {u} |->
                                                IF x = u THEN r ELSE upvalue[x]]
  BY DEF Capture, capture_upvalue
<1>4. \A w \in DOMAIN upvalue : upvalue'[w] = upvalue[w]
  BY <1>3
<1> DEFINE cl == Peek(0)
<1>5. /\ upvalues' = [upvalues EXCEPT ![cl] = Append(upvalues[cl], u)]
      /\ named' = [named EXCEPT ![cl] = Append(named[cl], v)]
  BY <1>3 DEF Captured
<1> HIDE DEF cl
<1>6. ASSUME NEW x \in DOMAIN upvalues, NEW k \in DOMAIN upvalues[x]
      PROVE  /\ x \in DOMAIN upvalues' /\ k \in DOMAIN upvalues'[x]
             /\ upvalues'[x][k] = upvalues[x][k] /\ named'[x][k] = named[x][k]
  <2>1. x \in DOMAIN upvalues' /\ x \in DOMAIN named
    BY <1>1, <1>5 DEF Basic
  <2>2. CASE x # cl
    BY <2>1, <2>2, <1>5
  <2>3. CASE x = cl
    <3> DEFINE s == upvalues[cl]
    <3> DEFINE m == named[cl]
    <3>1. /\ s \in Seq(Upvalue) /\ m \in Seq(Var) /\ k \in 1 .. Len(s) /\ k \in 1 .. Len(m)
          /\ Len(s) \in Nat
      BY <2>3, <1>1 DEF Basic, Shape
    <3>2. upvalues'[cl] = Append(s, u) /\ named'[cl] = Append(m, v)
      BY <2>1, <2>3, <1>5
    <3> HIDE DEF s, m
    <3>3. Append(s, u)[k] = s[k] /\ k \in DOMAIN Append(s, u)
      BY <3>1, Longer
    <3>4. Append(m, v)[k] = m[k]
      BY <3>1, Longer
    <3> QED BY <2>1, <2>3, <3>2, <3>3, <3>4 DEF s, m
  <2> QED BY <2>2, <2>3
<1>7. UsedVars \subseteq UsedVars' /\ \A w \in UsedVars : Store'[w] = Store[w]
  BY <1>2, <1>4, <1>6, Kept
<1> QED BY <1>2, <1>7, Adds

LEMMA CallMaps == ASSUME IInv, IInv', NEW argc \in Nat, Call(argc) PROVE V!Next
<1>1. TypeOK /\ Basic
  BY TypesBasic DEF IInv
<1>2. UNCHANGED <<stack, upvalue, upvalues, named>> /\ access' = NoAccess
  BY DEF Call
<1> DEFINE frame == [closure |-> Peek(argc), slots |-> Len(stack) - argc]
<1>3. frames' = Append(frames, frame)
  BY DEF Call
<1>4. PICK new \in NewVars(argc + 1) : locals' = Append(locals, new)
  BY DEF Call
<1> HIDE DEF frame
<1>5. ASSUME NEW f \in DOMAIN locals, NEW i \in DOMAIN locals[f]
      PROVE  /\ f \in DOMAIN locals' /\ i \in DOMAIN locals'[f]
             /\ locals'[f][i] = locals[f][i] /\ frames'[f].slots = frames[f].slots
  <2>1. f \in 1 .. Len(locals) /\ f \in 1 .. Len(frames) /\ Len(locals) \in Nat
    BY <1>1 DEF Basic
  <2>2. locals'[f] = locals[f] /\ f \in DOMAIN locals'
    <3> DEFINE T == Seq(Var)
    <3>1. locals \in Seq(T)
      BY <1>1 DEF TypeOK
    <3> HIDE DEF T
    <3> QED BY <3>1, <2>1, <1>4, Longer
  <2>3. frames'[f] = frames[f]
    <3> DEFINE T == [closure : Closure, slots : Nat \ {0}]
    <3>1. frames \in Seq(T)
      BY <1>1 DEF TypeOK
    <3> HIDE DEF T
    <3> QED BY <3>1, <2>1, <1>3, Longer
  <2> QED BY <2>2, <2>3
<1>6. UsedVars \subseteq UsedVars' /\ \A v \in UsedVars : Store'[v] = Store[v]
  BY <1>2, <1>5, Kept
<1> QED BY <1>2, <1>6, Adds
-----------------------------------------------------------------------------
(* Instructions that forget variables.                                     *)

LEMMA LayoutNext == IInv' => Layout'
<1>1. IInv => Layout
  BY SlotsApart DEF IInv
<1> QED BY <1>1, PTL

(* What close_upvalues does to the upvalues, as Removes has it.            *)
LEMMA ClosedOrSame ==
  ASSUME IInv, NEW last \in Nat \ {0}, ClosedFrom(last), NEW u \in DOMAIN upvalue'
  PROVE  \/ upvalue'[u] = upvalue[u]
         \/ /\ upvalue[u].location # CLOSED /\ upvalue'[u].location = CLOSED
            /\ upvalue'[u].closed = stack[upvalue[u].location]
<1>1. u \in DOMAIN upvalue
  BY ClosedTypes
<1>2. CASE upvalue[u].location >= last
  <2>1. upvalue'[u].location = CLOSED /\ upvalue'[u].closed = stack[upvalue[u].location]
    BY <1>1, <1>2, ClosedTypes
  <2>2. upvalue[u].location # CLOSED
    BY <1>2 DEF CLOSED
  <2> QED BY <2>1, <2>2
<1>3. CASE ~(upvalue[u].location >= last)
  BY <1>1, <1>3, ClosedTypes
<1> QED BY <1>2, <1>3

LEMMA EndScopeMaps == ASSUME IInv, IInv', end_scope PROVE V!Next
<1> DEFINE t == Len(frames)
<1> DEFINE n == Len(Top(locals))
<1>1. TypeOK /\ Basic /\ frames # <<>> /\ Len(stack) \in Nat \ {0}
  <2>1. TypeOK /\ Basic /\ frames # <<>> /\ Temporaries = 0 /\ n > 1
    BY TypesBasic DEF IInv, Running, end_scope
  <2>2. Len(stack) \in Nat /\ Base \in Nat \ {0} /\ n \in Nat
    BY <2>1, TopIsHighest DEF Basic
  <2>3. Len(stack) - Base + 1 - n = 0
    BY <2>1 DEF Temporaries
  <2> HIDE DEF n
  <2>4. Len(stack) \in Nat \ {0}
    BY <2>1, <2>2, <2>3
  <2> QED BY <2>1, <2>4
<1>2. /\ n > 1 /\ stack' = Cut(stack, 1) /\ access' = NoAccess
      /\ locals' = [locals EXCEPT ![Len(locals)] = Cut(@, 1)]
      /\ UNCHANGED <<frames, upvalues, named>>
      /\ \/ close_upvalues(Len(stack))
         \/ /\ \A u \in Elements(open) : upvalue[u].location # Len(stack)
            /\ UNCHANGED <<open, upvalue>>
  BY DEF end_scope
<1>3. ClosedFrom(Len(stack))
  <2>1. CASE close_upvalues(Len(stack))
    BY <2>1, <1>1, CloseUpvalues
  <2>2. CASE /\ \A u \in Elements(open) : upvalue[u].location # Len(stack)
             /\ UNCHANGED <<open, upvalue>>
    <3>1. Len(stack) > 0
      BY <1>1
    <3> QED BY <2>2, <3>1, NothingToClose
  <2> QED BY <2>1, <2>2, <1>2
<1>4. \A u \in DOMAIN upvalue' :
        \/ upvalue'[u] = upvalue[u]
        \/ /\ upvalue[u].location # CLOSED /\ upvalue'[u].location = CLOSED
           /\ upvalue'[u].closed = stack[upvalue[u].location]
  BY <1>1, <1>3, ClosedOrSame
<1>5. ASSUME NEW f \in DOMAIN locals', NEW i \in DOMAIN locals'[f]
      PROVE  f \in DOMAIN locals /\ i \in DOMAIN locals[f] /\ locals'[f][i] = locals[f][i]
  <2>1. /\ DOMAIN locals' = DOMAIN locals /\ DOMAIN locals = DOMAIN frames
        /\ \A e \in DOMAIN frames : e # t => locals'[e] = locals[e]
        /\ DOMAIN locals'[t] = 1 .. n - 1
        /\ \A j \in 1 .. n - 1 : locals'[t][j] = locals[t][j]
    BY <1>1, <1>2, LocalCut DEF Basic
  <2>2. n \in Nat /\ t \in DOMAIN locals /\ DOMAIN locals[t] = 1 .. n
    BY <1>1, TopIsHighest DEF Basic
  <2> HIDE DEF n
  <2>3. CASE f = t
    BY <2>1, <2>2, <2>3
  <2>4. CASE f # t
    BY <2>1, <2>4
  <2> QED BY <2>3, <2>4
<1>6. ASSUME NEW f \in DOMAIN locals', NEW i \in DOMAIN locals'[f]
      PROVE  frames'[f].slots = frames[f].slots /\ stack'[At(f, i)] = stack[At(f, i)]
  <2>1. At(f, i)' = At(f, i) /\ frames'[f].slots = frames[f].slots
    BY <1>2 DEF At
  <2>2. At(f, i)' \in DOMAIN stack'
    BY LayoutNext DEF Layout
  <2>3. /\ stack' \in Seq(Value) /\ Len(stack') = Len(stack) - 1
        /\ \A s \in 1 .. Len(stack) - 1 : stack'[s] = stack[s]
    <3>1. stack \in Seq(Value) /\ Len(stack) >= 1
      BY <1>1 DEF TypeOK
    <3> QED BY <3>1, <1>2, CutOne
  <2>4. DOMAIN stack' = 1 .. Len(stack) - 1
    BY <2>3, LenProperties
  <2> QED BY <2>1, <2>2, <2>3, <2>4
<1> HIDE DEF n, t
<1> QED BY <1>2, <1>4, <1>5, <1>6, Removes

(* The frames below the top one lie below its slot 0.                      *)
LEMMA BelowBase ==
  ASSUME IInv, frames # <<>>, NEW f \in 1 .. Len(frames) - 1, NEW i \in DOMAIN locals[f]
  PROVE  At(f, i) \in 1 .. Base - 1
<1> DEFINE t == Len(frames)
<1>1. Basic /\ FramesApart /\ TypeOK
  BY TypesBasic DEF IInv, TypeOK
<1>2. t \in DOMAIN frames /\ Base \in Nat \ {0} /\ Base = frames[t].slots /\ t \in Nat
  BY <1>1, TopIsHighest DEF Basic
<1> HIDE DEF t
<1>3. f \in DOMAIN frames /\ f \in 1 .. t - 1
  BY <1>1, <1>2 DEF Basic, t
<1>4. frames[f].slots + Len(locals[f]) <= Base
  BY <1>1, <1>2, <1>3 DEF FramesApart
<1>5. i \in 1 .. Len(locals[f]) /\ Len(locals[f]) \in Nat /\ frames[f].slots \in Nat \ {0}
  BY <1>1, <1>3 DEF Basic
<1> DEFINE slots == frames[f].slots
<1> DEFINE len == Len(locals[f])
<1> DEFINE base == Base
<1>6. slots \in Nat \ {0} /\ len \in Nat /\ i \in 1 .. len /\ base \in Nat /\ slots + len <= base
  BY <1>2, <1>4, <1>5
<1>7. At(f, i) = slots + i - 1
  BY DEF At
<1> HIDE DEF slots, len, base
<1>8. slots + i - 1 \in 1 .. base - 1
  BY <1>6
<1> QED BY <1>7, <1>8 DEF base

LEMMA ReturnMaps == ASSUME IInv, IInv', Return PROVE V!Next
<1> DEFINE t == Len(frames)
<1>1. TypeOK /\ Basic /\ frames # <<>>
  BY TypesBasic DEF IInv, Running, Return
<1>2. /\ Temporaries >= 1 /\ close_upvalues(Base) /\ access' = NoAccess
      /\ IF t = 1 THEN Len(stack) = 2 /\ stack' = Cut(stack, 2)
                  ELSE stack' = Append(SubSeq(stack, 1, Base - 1), Peek(0))
      /\ frames' = Cut(frames, 1) /\ locals' = Cut(locals, 1)
      /\ UNCHANGED <<upvalues, named>>
  BY DEF Return
<1>3. /\ t \in Nat \ {0} /\ DOMAIN frames = 1 .. t /\ DOMAIN locals = 1 .. t /\ Len(locals) = t
      /\ Base \in Nat \ {0} /\ Base - 1 \in 0 .. Len(stack)
  BY <1>1, TopIsHighest DEF Basic
<1>4. \A u \in DOMAIN upvalue' :
        \/ upvalue'[u] = upvalue[u]
        \/ /\ upvalue[u].location # CLOSED /\ upvalue'[u].location = CLOSED
           /\ upvalue'[u].closed = stack[upvalue[u].location]
  <2>1. ClosedFrom(Base)
    BY <1>2, <1>3, CloseUpvalues
  <2> QED BY <1>3, <2>1, ClosedOrSame
<1>5. \A f \in 1 .. t - 1 : frames'[f] = frames[f]
  <2> DEFINE T == [closure : Closure, slots : Nat \ {0}]
  <2>1. frames \in Seq(T) /\ Len(frames) >= 1
    BY <1>1, <1>3 DEF TypeOK
  <2> HIDE DEF T
  <2> QED BY <2>1, <1>2, CutOne
<1>6. DOMAIN locals' = 1 .. t - 1 /\ \A f \in 1 .. t - 1 : locals'[f] = locals[f]
  <2> DEFINE T == Seq(Var)
  <2>1. locals \in Seq(T) /\ Len(locals) >= 1
    BY <1>1, <1>3 DEF TypeOK
  <2> HIDE DEF T
  <2>2. /\ locals' \in Seq(T) /\ Len(locals') = t - 1
        /\ \A f \in 1 .. t - 1 : locals'[f] = locals[f]
    BY <2>1, <1>2, <1>3, CutOne
  <2> QED BY <2>2, LenProperties
<1>7. ASSUME NEW f \in DOMAIN locals', NEW i \in DOMAIN locals'[f]
      PROVE  /\ f \in DOMAIN locals /\ i \in DOMAIN locals[f]
             /\ locals'[f][i] = locals[f][i] /\ frames'[f].slots = frames[f].slots
             /\ stack'[At(f, i)] = stack[At(f, i)]
  <2>1. f \in 1 .. t - 1 /\ f \in 1 .. t /\ t # 1
    BY <1>3, <1>6
  <2>2. At(f, i) \in 1 .. Base - 1
    BY <2>1, <1>1, <1>6, BelowBase
  <2>3. stack \in Seq(Value) /\ Peek(0) \in Value
    BY <1>1, <1>2, OperandIsValue DEF TypeOK
  <2> DEFINE below == SubSeq(stack, 1, Base - 1)
  <2>4. /\ below \in Seq(Value) /\ Len(below) = Base - 1
        /\ \A s \in 1 .. Base - 1 : below[s] = stack[s]
    BY <2>3, <1>3, Prefix
  <2>5. stack' = Append(below, Peek(0))
    BY <2>1, <1>2
  <2> HIDE DEF below
  <2>6. \A s \in 1 .. Base - 1 : stack'[s] = below[s]
    BY <2>3, <2>4, <2>5, AppendOne
  <2> QED BY <2>1, <2>2, <2>4, <2>6, <1>3, <1>5, <1>6
<1> HIDE DEF t
<1> QED BY <1>2, <1>4, <1>7, Removes

LEMMA CollectMaps == ASSUME IInv, IInv', Collect PROVE V!Next
<1>1. PICK S \in SUBSET DOMAIN upvalues :
        LET kept == DOMAIN upvalues \ S
            used == Elements(open) \cup UNION {Elements(upvalues[cl]) : cl \in kept}
        IN  /\ upvalues' = [cl \in kept |-> upvalues[cl]]
            /\ named' = [cl \in kept |-> named[cl]]
            /\ upvalue' = [u \in used |-> upvalue[u]]
  BY DEF Collect
<1>2. UNCHANGED <<stack, frames, open, locals>> /\ access' = NoAccess
  BY DEF Collect
<1>3. \A u \in DOMAIN upvalue' : upvalue'[u] = upvalue[u]
  BY <1>1
<1>4. \A cl \in DOMAIN upvalues' :
        cl \in DOMAIN upvalues /\ upvalues'[cl] = upvalues[cl] /\ named'[cl] = named[cl]
  BY <1>1
<1> QED BY <1>2, <1>3, <1>4, Removes
-----------------------------------------------------------------------------
LEMMA StutterMaps == ASSUME IInv, IInv', UNCHANGED vars PROVE UNCHANGED V!vars
<1>1. UNCHANGED <<stack, frames, upvalue, upvalues, locals, named, access>>
  BY DEF vars, machine
<1>2. Store' = Store
  BY <1>1, SameStore
<1> QED BY <1>1, <1>2 DEF V!vars

LEMMA InitMaps == Init => V!Init
<1> SUFFICES ASSUME Init PROVE V!Init
  OBVIOUS
<1>1. UsedVars \subseteq Var /\ Store \in [UsedVars -> Value]
  BY InitIInv, StoreIsRight DEF StoreRight
<1>2. access = NoAccess
  BY DEF Init
<1> QED BY <1>1, <1>2 DEF V!Init, V!NoAccess, NoAccess

LEMMA NextMaps == IInv /\ IInv' /\ [Next]_vars => [V!Next]_V!vars
<1> SUFFICES ASSUME IInv, IInv', [Next]_vars PROVE V!Next \/ UNCHANGED V!vars
  OBVIOUS
<1>1. CASE Constant
  BY <1>1, ConstantMaps
<1>2. CASE Pop
  BY <1>2, PopMaps
<1>3. CASE \E i \in 1 .. MaxStack : GetLocal(i) \/ SetLocal(i)
  BY <1>3, GetLocalMaps, SetLocalMaps
<1>4. CASE \E k \in 1 .. MaxUpvalues : GetUpvalue(k) \/ SetUpvalue(k)
  BY <1>4, GetUpvalueMaps, SetUpvalueMaps
<1>5. CASE define_variable
  BY <1>5, DefineVariableMaps
<1>6. CASE end_scope
  BY <1>6, EndScopeMaps
<1>7. CASE \E n \in 0 .. MaxUpvalues : MakeClosure(n)
  BY <1>7, MakeClosureMaps
<1>8. CASE Capture
  BY <1>8, CaptureMaps
<1>9. CASE \E argc \in 0 .. MaxArgs : Call(argc)
  <2>1. PICK argc \in 0 .. MaxArgs : Call(argc)
    BY <1>9
  <2>2. argc \in Nat
    BY ClosureAssumption
  <2> QED BY <2>1, <2>2, CallMaps
<1>10. CASE Return
  BY <1>10, ReturnMaps
<1>11. CASE Collect
  BY <1>11, CollectMaps
<1>12. CASE UNCHANGED vars
  BY <1>12, StutterMaps
<1> QED BY <1>1, <1>2, <1>3, <1>4, <1>5, <1>6, <1>7, <1>8, <1>9, <1>10, <1>11, <1>12 DEF Next

(* Every local is a cell of its own: whatever blocks, calls, returns and   *)
(* closures do to slots and upvalues, a read finds what was last assigned  *)
(* to the variable, through whichever closure, and each variable is there  *)
(* as long as code can name it.                                            *)
THEOREM VariablesImplemented == Spec => ImplementsVariables
<1>1. Spec => V!Init
  BY InitMaps, PTL DEF Spec
<1>2. Spec => [][V!Next]_V!vars
  BY InvariantHolds, NextMaps, PTL DEF Spec
<1> QED BY <1>1, <1>2, PTL DEF ImplementsVariables, V!Spec
=============================================================================
