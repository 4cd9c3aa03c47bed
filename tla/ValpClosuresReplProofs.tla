----------------------- MODULE ValpClosuresReplProofs -----------------------
(***************************************************************************)
(* Proofs about ValpClosuresRepl, for any number of lines and of anything  *)
(* else.  As far as variables are concerned, a line that failed might have *)
(* closed its upvalues: the state with the orphans closed, C, keeps the    *)
(* inductive invariant of ValpClosures, and most steps here are steps of   *)
(* ValpClosures there.                                                     *)
(***************************************************************************)
EXTENDS ValpClosuresRepl, SequenceTheorems, TLAPS

(* The upvalues, the orphans closed.                                       *)
Seen == [u \in DOMAIN upvalue |->
           IF u \in orphans THEN [location |-> CLOSED, closed |-> upvalue[u].closed]
                            ELSE upvalue[u]]

C == INSTANCE ValpClosuresProofs WITH upvalue <- Seen

UpvalueTypes == upvalue \in [DOMAIN upvalue -> [location : Nat, closed : Value]]

(* Values that are no garbage: whatever can be pushed is one.              *)
Live == Data \cup {NIL} \cup DOMAIN upvalues
AllLive ==
  /\ global \in Live /\ stack \in Seq(Live)
  /\ \A u \in DOMAIN upvalue : upvalue[u].closed \in Live

(* No orphan is in the list.                                               *)
Apart == orphans \subseteq DOMAIN upvalue /\ Elements(open) \cap orphans = {}

RInv == C!IInv /\ UpvalueTypes /\ AllLive /\ Apart
-----------------------------------------------------------------------------
(* What does not look at the upvalues is the same in both states.          *)
LEMMA SameWithout ==
  /\ C!Running <=> Running
  /\ C!Base = Base /\ C!Temporaries = Temporaries
  /\ C!Value = Value /\ C!CLOSED = CLOSED /\ C!NoAccess = NoAccess
  /\ C!UsedVars = UsedVars
  /\ C!Top(frames) = Top(frames) /\ C!Top(locals) = Top(locals)
  /\ C!Elements(open) = Elements(open)
<1>1. C!Running <=> Running
  BY DEF C!Running, Running
<1>2. C!Base = Base /\ C!Temporaries = Temporaries
  BY DEF C!Base, Base, C!Top, Top, C!Temporaries, Temporaries
<1>3. C!Value = Value /\ C!CLOSED = CLOSED /\ C!NoAccess = NoAccess
  BY DEF C!Value, Value, C!CLOSED, CLOSED, C!NoAccess, NoAccess
<1>4. C!UsedVars = UsedVars
  BY DEF C!UsedVars, UsedVars, C!OnStack, OnStack, C!Elements, Elements
<1>5. /\ C!Top(frames) = Top(frames) /\ C!Top(locals) = Top(locals)
      /\ C!Elements(open) = Elements(open)
  BY DEF C!Top, Top, C!Elements, Elements
<1> QED BY <1>1, <1>2, <1>3, <1>4, <1>5

LEMMA SameOf ==
  /\ \A n : C!Peek(n) = Peek(n) /\ C!Slot(n) = Slot(n) /\ C!NewVars(n) = NewVars(n)
  /\ \A v : C!Push(v) <=> Push(v)
  /\ \A s, n : C!Cut(s, n) = Cut(s, n)
<1>1. \A n : C!Peek(n) = Peek(n) /\ C!Slot(n) = Slot(n)
  BY SameWithout DEF C!Peek, Peek, C!Slot, Slot
<1>2. \A n : C!NewVars(n) = NewVars(n)
  BY SameWithout DEF C!NewVars, NewVars
<1>3. \A v : C!Push(v) <=> Push(v)
  BY DEF C!Push, Push
<1>4. \A s, n : C!Cut(s, n) = Cut(s, n)
  BY DEF C!Cut, Cut
<1> QED BY <1>1, <1>2, <1>3, <1>4

LEMMA SeenIs ==
  ASSUME UpvalueTypes
  PROVE  /\ DOMAIN Seen = DOMAIN upvalue
         /\ Seen \in [DOMAIN upvalue -> [location : Nat, closed : Value]]
         /\ \A u \in DOMAIN upvalue :
              /\ upvalue[u].location \in Nat /\ upvalue[u].closed \in Value
              /\ Seen[u].closed = upvalue[u].closed
              /\ u \in orphans => Seen[u].location = CLOSED
              /\ u \notin orphans => Seen[u] = upvalue[u]
<1>1. \A u \in DOMAIN upvalue : upvalue[u] \in [location : Nat, closed : Value]
  BY DEF UpvalueTypes
<1>2. CLOSED \in Nat
  BY DEF CLOSED
<1>3. ASSUME NEW u \in DOMAIN upvalue
      PROVE  [location |-> CLOSED, closed |-> upvalue[u].closed] \in [location : Nat, closed : Value]
  BY <1>1, <1>2
<1> QED BY <1>1, <1>3 DEF Seen

(* The types do not say more of an upvalue than that it is one.            *)
LEMMA TypesSeen ==
  ASSUME UpvalueTypes
  PROVE  C!TypeOK <=> TypeOK
<1>1. C!FramesApart <=> FramesApart
  BY DEF C!FramesApart, FramesApart
<1>2. DOMAIN Seen = DOMAIN upvalue /\ Seen \in [DOMAIN upvalue -> [location : Nat, closed : Value]]
  BY SeenIs
<1> QED BY <1>1, <1>2, SameWithout DEF C!TypeOK, TypeOK, UpvalueTypes

LEMMA NowIs ==
  ASSUME RInv
  PROVE  TypeOK /\ C!IInv /\ C!TypeOK /\ C!Basic /\ UpvalueTypes /\ AllLive /\ Apart
<1>1. C!IInv /\ UpvalueTypes /\ AllLive /\ Apart
  BY DEF RInv
<1>2. C!TypeOK
  BY <1>1 DEF C!IInv
<1>3. C!Basic
  BY <1>2, C!TypesBasic, ClosureAssumption
<1> QED BY <1>1, <1>2, <1>3, TypesSeen

LEMMA MoreLive ==
  ASSUME DOMAIN upvalues \subseteq DOMAIN upvalues', NEW s \in Seq(Live)
  PROVE  s \in Seq(Live')
<1>1. Live \subseteq Live'
  BY DEF Live
<1> HIDE DEF Live
<1> QED BY <1>1

(* A step that leaves the upvalues alone.                                  *)
LEMMA UpvaluesStay ==
  ASSUME RInv, C!IInv', UNCHANGED <<open, upvalue, orphans, global>>,
         DOMAIN upvalues \subseteq DOMAIN upvalues', stack' \in Seq(Live')
  PROVE  RInv'
<1>1. UpvalueTypes' /\ Apart'
  BY DEF RInv, UpvalueTypes, Apart, Elements
<1>2. AllLive'
  BY DEF RInv, AllLive, Live
<1> QED BY <1>1, <1>2 DEF RInv

LEMMA CutLive ==
  ASSUME RInv, Running, Temporaries >= 1
  PROVE  /\ Peek(0) \in Live /\ Cut(stack, 1) \in Seq(Live)
         /\ Peek(0) \in Value /\ Peek(0) = stack[Len(stack)]
         /\ Base + Len(Top(locals)) <= Len(stack)
         /\ Len(stack) \in DOMAIN stack /\ stack \in Seq(Value) /\ stack \in Seq(Live)
<1>1. C!TypeOK /\ frames # <<>> /\ C!Temporaries >= 1 /\ stack \in Seq(Live)
  BY NowIs, SameWithout DEF Running, AllLive
<1>2. /\ C!Peek(0) \in C!Value /\ C!Peek(0) = stack[Len(stack)]
      /\ C!Base + Len(C!Top(locals)) <= Len(stack) /\ Len(stack) \in DOMAIN stack
  BY <1>1, C!OperandIsValue, ClosureAssumption
<1>3. stack[Len(stack)] \in Live /\ Len(stack) >= 1
  BY <1>1, <1>2, ElementOfSeq
<1>4. C!Cut(stack, 1) \in Seq(Live)
  BY <1>1, <1>3, C!CutOne, ClosureAssumption
<1> QED BY <1>1, <1>2, <1>3, <1>4, SameWithout, SameOf, NowIs DEF TypeOK

LEMMA StackLive ==
  ASSUME RInv
  PROVE  /\ stack \in Seq(Live) /\ global \in Live
         /\ \A s \in DOMAIN stack : stack[s] \in Live
         /\ \A v \in Live : Append(stack, v) \in Seq(Live)
<1>1. stack \in Seq(Live) /\ global \in Live
  BY NowIs DEF AllLive
<1> QED BY <1>1, ElementOfSeq

LEMMA SeenStays == ASSUME UNCHANGED <<upvalue, orphans>> PROVE UNCHANGED Seen
BY DEF Seen

LEMMA ConstantLine ==
  ASSUME RInv, Constant, UNCHANGED <<global, orphans>> PROVE RInv' /\ C!Constant
<1>1. UNCHANGED <<open, upvalue, orphans, global>> /\ UNCHANGED Seen /\ UNCHANGED upvalues
  BY SeenStays DEF Constant
<1>2. C!Constant
  BY <1>1, SameWithout, SameOf DEF C!Constant, Constant
<1>3. C!IInv'
  BY <1>2, NowIs, C!ConstantStep, ClosureAssumption
<1>4. stack' \in Seq(Live)
  BY StackLive DEF Constant, Push, Live
<1> QED BY <1>1, <1>2, <1>3, <1>4, MoreLive, UpvaluesStay

LEMMA PopLine ==
  ASSUME RInv, Pop, UNCHANGED <<global, orphans>> PROVE RInv' /\ C!Pop
<1>1. UNCHANGED <<open, upvalue, orphans, global>> /\ UNCHANGED Seen /\ UNCHANGED upvalues
  BY SeenStays DEF Pop
<1>2. C!Pop
  BY <1>1, SameWithout, SameOf DEF C!Pop, Pop
<1>3. C!IInv'
  BY <1>2, NowIs, C!PopStep, ClosureAssumption
<1>4. stack' \in Seq(Live)
  BY CutLive DEF Pop
<1> QED BY <1>1, <1>2, <1>3, <1>4, MoreLive, UpvaluesStay

LEMMA LocalsInside ==
  ASSUME RInv, Running, NEW i \in DOMAIN Top(locals)
  PROVE  Slot(i) \in DOMAIN stack
<1>1. C!TypeOK /\ C!Basic /\ C!Layout /\ frames # <<>>
  BY NowIs, C!SlotsApart, ClosureAssumption DEF Running
<1>2. /\ Len(frames) \in DOMAIN locals /\ C!Top(locals) = locals[Len(frames)]
      /\ C!Base = frames[Len(frames)].slots
  BY <1>1, C!TopIsHighest, ClosureAssumption DEF C!Basic
<1>3. i \in DOMAIN locals[Len(frames)]
  BY <1>2, SameWithout
<1>4. C!At(Len(frames), i) \in DOMAIN stack
  BY <1>1, <1>2, <1>3 DEF C!Layout
<1> QED BY <1>2, <1>4, SameWithout DEF C!At, Slot

LEMMA GetLocalLine ==
  ASSUME RInv, NEW i, GetLocal(i), UNCHANGED <<global, orphans>> PROVE RInv' /\ C!GetLocal(i)
<1>1. UNCHANGED <<open, upvalue, orphans, global>> /\ UNCHANGED Seen /\ UNCHANGED upvalues
  BY SeenStays DEF GetLocal
<1>2. C!GetLocal(i)
  BY <1>1, SameWithout, SameOf DEF C!GetLocal, GetLocal
<1>3. C!IInv'
  BY <1>2, NowIs, C!GetLocalStep, ClosureAssumption
<1>4. Slot(i) \in DOMAIN stack
  BY LocalsInside DEF GetLocal
<1>5. stack' \in Seq(Live)
  BY <1>4, StackLive DEF GetLocal, Push
<1> QED BY <1>1, <1>2, <1>3, <1>5, MoreLive, UpvaluesStay

LEMMA SetLocalLine ==
  ASSUME RInv, NEW i, SetLocal(i), UNCHANGED <<global, orphans>> PROVE RInv' /\ C!SetLocal(i)
<1>1. UNCHANGED <<open, upvalue, orphans, global>> /\ UNCHANGED Seen /\ UNCHANGED upvalues
  BY SeenStays DEF SetLocal
<1>2. C!SetLocal(i)
  BY <1>1, SameWithout, SameOf DEF C!SetLocal, SetLocal
<1>3. C!IInv'
  BY <1>2, NowIs, C!SetLocalStep, ClosureAssumption
<1>4. Slot(i) \in DOMAIN stack
  BY LocalsInside DEF SetLocal
<1>5. stack' \in Seq(Live)
  <2>1. Peek(0) \in Live /\ stack \in Seq(Live) /\ stack' = [stack EXCEPT ![Slot(i)] = Peek(0)]
    BY CutLive DEF SetLocal
  <2>2. DOMAIN stack = 1 .. Len(stack)
    BY <2>1
  <2> QED BY <1>4, <2>1, <2>2, ExceptSeq
<1> QED BY <1>1, <1>2, <1>3, <1>5, MoreLive, UpvaluesStay

LEMMA DefineVariableLine ==
  ASSUME RInv, define_variable, UNCHANGED <<global, orphans>> PROVE RInv' /\ C!define_variable
<1>1. UNCHANGED <<open, upvalue, orphans, global>> /\ UNCHANGED Seen /\ UNCHANGED upvalues
  BY SeenStays DEF define_variable, machine
<1>2. C!define_variable
  <2>1. UNCHANGED <<stack, frames, open, Seen, upvalues, capturing, named>>
    BY <1>1 DEF define_variable, machine
  <2>2. UNCHANGED <<C!machine, named>>
    BY <2>1 DEF C!machine
  <2>3. /\ Running /\ Temporaries = 1
        /\ \E new \in NewVars(1) : locals' = [locals EXCEPT ![Len(locals)] = @ \o new]
        /\ access' = NoAccess
    BY DEF define_variable
  <2> QED BY <2>2, <2>3, SameWithout, SameOf DEF C!define_variable
<1>3. C!IInv'
  BY <1>2, NowIs, C!DefineVariableStep, ClosureAssumption
<1>4. stack' \in Seq(Live)
  BY StackLive DEF define_variable, machine
<1> QED BY <1>1, <1>2, <1>3, <1>4, MoreLive, UpvaluesStay

LEMMA MakeClosureLine ==
  ASSUME RInv, NEW n \in Nat, MakeClosure(n), UNCHANGED <<global, orphans>> PROVE RInv' /\ C!MakeClosure(n)
<1>1. /\ UNCHANGED <<open, upvalue, orphans, global>> /\ UNCHANGED Seen
      /\ DOMAIN upvalues \subseteq DOMAIN upvalues'
  BY SeenStays DEF MakeClosure
<1>2. C!Elements(Top(locals)) = Elements(Top(locals))
  BY DEF C!Elements, Elements
<1>3. C!Elements(named[Top(frames).closure]) = Elements(named[Top(frames).closure])
  BY DEF C!Elements, Elements
<1>4. DOMAIN Seen = DOMAIN upvalue /\ \A S : C!Cardinality(S) = Cardinality(S)
  BY DEF Seen, C!Cardinality, Cardinality, C!IsFiniteSet, IsFiniteSet
<1>5. C!MakeClosure(n)
  BY <1>1, <1>2, <1>3, <1>4, SameWithout, SameOf DEF C!MakeClosure, MakeClosure
<1>6. C!IInv'
  BY <1>5, NowIs, C!MakeClosureStep, ClosureAssumption
<1>7. stack' \in Seq(Live')
  <2>1. PICK cl \in Closure : Push(cl) /\ DOMAIN upvalues' = DOMAIN upvalues \cup {cl}
    BY DEF MakeClosure
  <2>2. stack \in Seq(Live') /\ cl \in Live'
    BY <1>1, <2>1, StackLive, MoreLive DEF Live
  <2> QED BY <2>1, <2>2 DEF Push
<1> QED BY <1>1, <1>5, <1>6, <1>7, UpvaluesStay

LEMMA CallLine ==
  ASSUME RInv, NEW argc \in Nat, Call(argc), UNCHANGED <<global, orphans>> PROVE RInv' /\ C!Call(argc)
<1>1. UNCHANGED <<open, upvalue, orphans, global>> /\ UNCHANGED Seen /\ UNCHANGED upvalues
  BY SeenStays DEF Call
<1>2. C!Call(argc)
  BY <1>1, SameWithout, SameOf DEF C!Call, Call
<1>3. C!IInv'
  BY <1>2, NowIs, C!CallStep, ClosureAssumption
<1>4. stack' \in Seq(Live)
  BY StackLive DEF Call
<1> QED BY <1>1, <1>2, <1>3, <1>4, MoreLive, UpvaluesStay
-----------------------------------------------------------------------------
(* Steps that move values, those of orphans among them.                    *)
LEMMA ValuesMoveLine ==
  ASSUME RInv, Running, UNCHANGED <<frames, open, upvalues, capturing, locals, named, orphans>>,
         stack' \in Seq(Value), Base + Len(Top(locals)) <= Len(stack') + 1,
         DOMAIN upvalue' = DOMAIN upvalue, UpvalueTypes', AllLive',
         \A u \in DOMAIN upvalue : upvalue'[u].location = upvalue[u].location
  PROVE  RInv'
<1>1. /\ \A u \in DOMAIN upvalue : Seen'[u].location = Seen[u].location
      /\ Seen' \in [DOMAIN Seen -> [location : Nat, closed : Value]] /\ DOMAIN Seen = DOMAIN upvalue
  <2>1. \A u \in DOMAIN upvalue : upvalue'[u] \in [location : Nat, closed : Value]
    BY DEF UpvalueTypes
  <2>2. CLOSED \in Nat
    BY DEF CLOSED
  <2>3. ASSUME NEW u \in DOMAIN upvalue
        PROVE  [location |-> CLOSED, closed |-> upvalue'[u].closed] \in [location : Nat, closed : Value]
    BY <2>1, <2>2
  <2> QED BY <2>1, <2>3 DEF Seen
<1>2. C!IInv /\ C!Running
  BY NowIs, SameWithout
<1>3. /\ stack' \in Seq(C!Value) /\ C!Base + Len(C!Top(locals)) <= Len(stack') + 1
      /\ Seen' \in [DOMAIN Seen -> [location : Nat, closed : C!Value]]
  BY <1>1, SameWithout
<1>4. C!IInv'
  BY <1>1, <1>2, <1>3, C!ValuesMove, ClosureAssumption
<1>5. Apart'
  BY NowIs DEF Apart, Elements
<1> QED BY <1>4, <1>5 DEF RInv

LEMMA PushLine ==
  ASSUME RInv, Running, NEW v \in Live, Push(v), UNCHANGED <<upvalue, orphans, global>>,
         UNCHANGED <<frames, open, upvalues, capturing, locals, named>>
  PROVE  RInv'
<1>1. UNCHANGED Seen
  BY SeenStays
<1>2. v \in Value
  BY NowIs DEF Live, Value, C!Basic
<1>3. C!IInv /\ C!Running /\ v \in C!Value /\ C!Push(v)
  BY <1>2, NowIs, SameWithout, SameOf
<1>4. C!IInv'
  BY <1>1, <1>3, C!PushValue, ClosureAssumption
<1>5. stack' \in Seq(Live)
  BY StackLive DEF Push
<1> QED BY <1>1, <1>4, <1>5, MoreLive, UpvaluesStay

(* Where the upvalue of the closure that runs points.                      *)
LEMMA PointsInside ==
  ASSUME RInv, Running, NEW k \in DOMAIN upvalues[Top(frames).closure], ~AboveTop(k)
  PROVE  LET u == upvalues[Top(frames).closure][k] IN
         /\ u \in DOMAIN upvalue
         /\ upvalue[u].location # CLOSED => upvalue[u].location \in DOMAIN stack
<1> DEFINE u == upvalues[Top(frames).closure][k]
<1>1. C!IInv /\ UpvalueTypes /\ C!TypeOK /\ C!Basic /\ frames # <<>> /\ C!Shape
  BY NowIs DEF Running, C!IInv
<1>2. Top(frames).closure \in DOMAIN upvalues
  BY <1>1, C!TopIsHighest, ClosureAssumption, SameWithout DEF C!Shape
<1>3. /\ u \in DOMAIN Seen
      /\ Seen[u].location # C!CLOSED => Seen[u].location \in DOMAIN stack
  BY <1>1, <1>2, C!FoundIsValue, ClosureAssumption
<1> HIDE DEF u
<1>4. /\ u \in DOMAIN upvalue /\ upvalue[u].location \in Nat
      /\ u \notin orphans => Seen[u] = upvalue[u]
  BY <1>1, <1>3, SeenIs
<1>5. ~(upvalue[u].location > Len(stack))
  BY DEF AboveTop, u
<1>6. DOMAIN stack = 1 .. Len(stack) /\ Len(stack) \in Nat
  BY <1>1 DEF C!Basic
<1>7. upvalue[u].location # CLOSED => upvalue[u].location \in DOMAIN stack
  BY <1>4, <1>5, <1>6 DEF CLOSED
<1> QED BY <1>4, <1>7 DEF u
LEMMA GetUpvalueLine ==
  ASSUME RInv, NEW k, ~AboveTop(k), GetUpvalue(k), UNCHANGED <<global, orphans>>
  PROVE  RInv'
<1> DEFINE u == upvalues[Top(frames).closure][k]
<1>1. /\ Running /\ k \in DOMAIN upvalues[Top(frames).closure] /\ Push(Found(u))
      /\ UNCHANGED <<frames, open, upvalue, upvalues, capturing, locals, named>>
  BY DEF GetUpvalue
<1>2. u \in DOMAIN upvalue /\ (upvalue[u].location # CLOSED => upvalue[u].location \in DOMAIN stack)
  BY <1>1, PointsInside
<1>3. upvalue[u].closed \in Live /\ \A s \in DOMAIN stack : stack[s] \in Live
  BY <1>2, NowIs, StackLive DEF AllLive
<1>4. Found(u) \in Live
  BY <1>2, <1>3 DEF Found
<1> QED BY <1>1, <1>4, PushLine

LEMMA SetUpvalueLine ==
  ASSUME RInv, NEW k, ~AboveTop(k), SetUpvalue(k), UNCHANGED <<global, orphans>>
  PROVE  RInv'
<1> DEFINE u == upvalues[Top(frames).closure][k]
<1>1. /\ Running /\ k \in DOMAIN upvalues[Top(frames).closure] /\ Temporaries >= 1
      /\ UNCHANGED <<frames, open, upvalues, capturing, locals, named, orphans, global>>
  BY DEF SetUpvalue
<1>2. u \in DOMAIN upvalue /\ (upvalue[u].location # CLOSED => upvalue[u].location \in DOMAIN stack)
  BY <1>1, PointsInside
<1>3. /\ Peek(0) \in Value /\ Base + Len(Top(locals)) <= Len(stack) /\ stack \in Seq(Value)
      /\ Peek(0) \in Live /\ stack \in Seq(Live)
  BY <1>1, CutLive
<1>4. IF upvalue[u].location = CLOSED
      THEN upvalue' = [upvalue EXCEPT ![u].closed = Peek(0)] /\ UNCHANGED stack
      ELSE stack' = [stack EXCEPT ![upvalue[u].location] = Peek(0)] /\ UNCHANGED upvalue
  BY DEF SetUpvalue
<1> HIDE DEF u
<1>5. stack' \in Seq(Value) /\ stack' \in Seq(Live) /\ Len(stack') = Len(stack)
  <2>1. CASE upvalue[u].location = CLOSED
    BY <2>1, <1>3, <1>4
  <2>2. CASE upvalue[u].location # CLOSED
    <3>1. DOMAIN stack = 1 .. Len(stack)
      BY <1>3
    <3> QED BY <2>2, <3>1, <1>2, <1>3, <1>4, ExceptSeq
  <2> QED BY <2>1, <2>2
<1>6. \A x \in DOMAIN upvalue : upvalue[x] \in [location : Nat, closed : Value]
  BY NowIs DEF UpvalueTypes
<1>7. /\ DOMAIN upvalue' = DOMAIN upvalue /\ UpvalueTypes'
      /\ \A x \in DOMAIN upvalue : upvalue'[x].location = upvalue[x].location
  <2>1. CASE upvalue[u].location = CLOSED
    <3>1. upvalue' = [upvalue EXCEPT ![u] = [upvalue[u] EXCEPT !.closed = Peek(0)]]
      BY <2>1, <1>4
    <3>2. /\ [upvalue[u] EXCEPT !.closed = Peek(0)] \in [location : Nat, closed : Value]
          /\ [upvalue[u] EXCEPT !.closed = Peek(0)].location = upvalue[u].location
      BY <1>2, <1>3, <1>6
    <3>3. upvalue \in [DOMAIN upvalue -> [location : Nat, closed : Value]]
      BY NowIs DEF UpvalueTypes
    <3> QED BY <3>1, <3>2, <3>3, <1>2 DEF UpvalueTypes
  <2>2. CASE upvalue[u].location # CLOSED
    BY <2>2, <1>4, NowIs DEF UpvalueTypes
  <2> QED BY <2>1, <2>2
<1>8. AllLive'
  <2>1. \A x \in DOMAIN upvalue : upvalue[x].closed \in Live
    BY NowIs DEF AllLive
  <2>2. \A x \in DOMAIN upvalue : upvalue'[x].closed \in Live
    <3>1. CASE upvalue[u].location = CLOSED
      <4>1. upvalue' = [upvalue EXCEPT ![u] = [upvalue[u] EXCEPT !.closed = Peek(0)]]
        BY <3>1, <1>4
      <4>2. [upvalue[u] EXCEPT !.closed = Peek(0)].closed = Peek(0)
        BY <1>2, <1>6
      <4>3. \A x \in DOMAIN upvalue : upvalue'[x].closed \in {Peek(0), upvalue[x].closed}
        BY <4>1, <4>2, <1>2
      <4> QED BY <4>3, <2>1, <1>3
    <3>2. CASE upvalue[u].location # CLOSED
      BY <3>2, <2>1, <1>4
    <3> QED BY <3>1, <3>2
  <2>3. stack' \in Seq(Live') /\ Live' = Live
    BY <1>1, <1>5 DEF Live
  <2> QED BY <2>2, <2>3, <1>1, <1>7, StackLive DEF AllLive
<1>9. Base + Len(Top(locals)) <= Len(stack') + 1
  <2>1. Base \in Nat /\ Len(Top(locals)) \in Nat /\ Len(stack) \in Nat
    BY <1>1, <1>3, NowIs, C!TopIsHighest, ClosureAssumption, SameWithout DEF Running
  <2> QED BY <2>1, <1>3, <1>5
<1> QED BY <1>1, <1>5, <1>7, <1>8, <1>9, ValuesMoveLine
LEMMA SetGlobalLine == ASSUME RInv, SetGlobal PROVE RInv' /\ C!Pop
<1>1. /\ Running /\ Temporaries >= 1 /\ global' = Peek(0) /\ stack' = Cut(stack, 1)
      /\ access' = NoAccess
      /\ UNCHANGED <<frames, open, upvalue, upvalues, capturing, locals, named, orphans>>
  BY DEF SetGlobal
<1>2. UNCHANGED Seen
  BY <1>1, SeenStays
<1>3. C!Pop
  BY <1>1, <1>2, SameWithout, SameOf DEF C!Pop
<1>4. C!IInv'
  BY <1>3, NowIs, C!PopStep, ClosureAssumption
<1>5. AllLive'
  <2>1. global' \in Live /\ stack' \in Seq(Live) /\ Live' = Live
    BY <1>1, CutLive DEF Live
  <2> QED BY <1>1, <2>1, NowIs DEF AllLive
<1>6. UpvalueTypes' /\ Apart'
  BY <1>1, NowIs DEF UpvalueTypes, Apart, Elements
<1> QED BY <1>3, <1>4, <1>5, <1>6 DEF RInv

LEMMA GetGlobalLine == ASSUME RInv, GetGlobal PROVE RInv'
<1>1. global \in Live
  BY StackLive
<1> QED BY <1>1, PushLine DEF GetGlobal

LEMMA GetOrphanLine == ASSUME RInv, NEW k, GetOrphan(k) PROVE RInv'
<1>1. PICK v \in Data \cup {NIL} \cup DOMAIN upvalues : Push(v)
  BY DEF GetOrphan
<1>2. v \in Live
  BY DEF Live
<1> QED BY <1>1, <1>2, PushLine DEF GetOrphan, AboveTop

LEMMA SetOrphanLine == ASSUME RInv, NEW k, SetOrphan(k) PROVE RInv'
<1>1. /\ Running /\ Temporaries >= 1
      /\ UNCHANGED <<stack, frames, open, upvalue, upvalues, capturing, locals, named, global, orphans>>
  BY DEF SetOrphan, AboveTop, machine
<1>2. /\ stack \in Seq(Value) /\ Base + Len(Top(locals)) <= Len(stack)
  BY <1>1, CutLive
<1>3. Base \in Nat /\ Len(Top(locals)) \in Nat /\ Len(stack) \in Nat
  BY <1>1, <1>2, NowIs, C!TopIsHighest, ClosureAssumption, SameWithout DEF Running
<1>4. UpvalueTypes' /\ AllLive'
  BY <1>1, NowIs DEF UpvalueTypes, AllLive, Live
<1>5. Base + Len(Top(locals)) <= Len(stack') + 1
  BY <1>1, <1>2, <1>3
<1>6. stack' \in Seq(Value)
  BY <1>1, <1>2
<1> QED BY <1>1, <1>4, <1>5, <1>6, ValuesMoveLine
-----------------------------------------------------------------------------
(* A line fails: the upvalues of the list become orphans, and as C sees    *)
(* them they are closed.                                                   *)
LEMMA RuntimeErrorLine == ASSUME RInv, runtime_error PROVE RInv'
<1>1. /\ stack' = <<>> /\ frames' = <<>> /\ open' = <<>> /\ locals' = <<>>
      /\ frames # <<>> /\ capturing = 0 /\ orphans' = orphans \cup Elements(open)
      /\ UNCHANGED <<upvalue, upvalues, capturing, named, global>>
  BY DEF runtime_error, reset_stack, Running
<1>2. /\ C!TypeOK /\ C!Basic /\ C!OpenExact /\ C!Shape /\ C!OneUpvaluePerVariable
      /\ UpvalueTypes /\ AllLive /\ Apart
  BY NowIs DEF C!IInv
<1>3. DOMAIN Seen' = DOMAIN Seen /\ DOMAIN Seen = DOMAIN upvalue
  BY <1>1 DEF Seen
<1>4. ASSUME NEW u \in DOMAIN upvalue PROVE Seen'[u].location = CLOSED
  <2>1. CASE u \in orphans'
    BY <1>1, <2>1 DEF Seen
  <2>2. CASE u \notin orphans'
    <3>1. ~\E i \in DOMAIN open : open[i] = u
      BY <1>1, <2>2 DEF Elements
    <3>2. Seen[u].location = CLOSED
      BY <1>2, <1>3, <3>1, SameWithout DEF C!OpenExact
    <3> QED BY <1>1, <2>2, <3>2 DEF Seen
  <2> QED BY <2>1, <2>2
<1>5. UpvalueTypes'
  BY <1>1, <1>2 DEF UpvalueTypes
<1>6. C!TypeOK'
  <2>1. C!FramesApart'
    BY <1>1 DEF C!FramesApart
  <2>2. Seen' \in [DOMAIN Seen' -> [location : Nat, closed : Value]]
    <3>1. \A u \in DOMAIN upvalue : upvalue[u] \in [location : Nat, closed : Value]
      BY <1>2 DEF UpvalueTypes
    <3>2. CLOSED \in Nat
      BY DEF CLOSED
    <3>3. ASSUME NEW u \in DOMAIN upvalue
          PROVE  [location |-> CLOSED, closed |-> upvalue[u].closed] \in [location : Nat, closed : Value]
      BY <3>1, <3>2
    <3> QED BY <3>1, <3>3, <1>1 DEF Seen
  <2>3. /\ stack' \in Seq(C!Value) /\ frames' \in Seq([closure : Closure, slots : Nat \ {0}])
        /\ open' \in Seq(Upvalue) /\ locals' \in Seq(Seq(Var)) /\ Len(locals') = Len(frames')
    BY <1>1
  <2>4. DOMAIN Seen' \subseteq Upvalue
    BY <1>2, <1>3 DEF C!TypeOK
  <2> QED BY <2>1, <2>2, <2>3, <2>4, <1>1, <1>2, SameWithout DEF C!TypeOK
<1>7. C!Distinct'
  BY <1>1 DEF C!Distinct
<1>8. C!Shape'
  BY <1>1, <1>2, <1>3 DEF C!Shape
<1>9. C!OpenExact'
  BY <1>1, <1>3, <1>4 DEF C!OpenExact, C!CLOSED, CLOSED
<1>10. C!Means'
  <2>1. \A cl \in DOMAIN upvalues : \A k \in DOMAIN upvalues[cl] : upvalues[cl][k] \in DOMAIN upvalue
    BY <1>2, <1>3 DEF C!Shape
  <2> QED BY <2>1, <1>1, <1>4 DEF C!Means, C!CLOSED, CLOSED
<1>11. C!OneUpvaluePerVariable'
  BY <1>1, <1>2 DEF C!OneUpvaluePerVariable
<1>12. AllLive'
  BY <1>1, <1>2 DEF AllLive, Live
<1>13. Apart'
  <2>1. Elements(open) \subseteq DOMAIN upvalue
    BY <1>2, <1>3 DEF C!OpenExact, Elements
  <2> QED BY <2>1, <1>1, <1>2 DEF Apart, Elements
<1> QED BY <1>5, <1>6, <1>7, <1>8, <1>9, <1>10, <1>11, <1>12, <1>13 DEF RInv, C!IInv
-----------------------------------------------------------------------------
(* The next line: a new closure, in a frame of its own.                    *)
LEMMA InterpretLine == ASSUME RInv, interpret PROVE RInv'
<1>1. /\ frames = <<>>
      /\ UNCHANGED <<open, upvalue, capturing, global, orphans>>
  BY DEF interpret
<1>2. PICK cl \in Closure \ DOMAIN upvalues :
        /\ stack' = <<cl>> /\ frames' = <<[closure |-> cl, slots |-> 1]>>
        /\ upvalues' = [x \in DOMAIN upvalues \cup {cl} |-> IF x = cl THEN <<>> ELSE upvalues[x]]
        /\ named' = [x \in DOMAIN named \cup {cl} |-> IF x = cl THEN <<>> ELSE named[x]]
  BY DEF interpret
<1>3. PICK new \in NewVars(1) : locals' = <<new>>
  BY DEF interpret
<1>4. /\ new \in Seq(Var) /\ Len(new) = 1 /\ DOMAIN new = 1 .. 1
      /\ new[1] \in Var /\ new[1] \notin C!UsedVars
  <2>1. new \in C!NewVars(1) /\ 1 \in Nat
    BY <1>3, SameOf
  <2>2. /\ new \in Seq(Var) /\ Len(new) = 1 /\ DOMAIN new = 1 .. 1
        /\ \A i \in 1 .. 1 : new[i] \in Var /\ new[i] \notin C!UsedVars
    BY <2>1, C!NewVarsAre, ClosureAssumption
  <2> QED BY <2>2
<1>5. /\ C!TypeOK /\ C!Basic /\ C!Shape /\ C!IInv
      /\ UpvalueTypes /\ AllLive /\ Apart
  BY NowIs DEF C!IInv
<1>6. UNCHANGED Seen
  BY <1>1, SeenStays
<1>7. /\ DOMAIN locals = {} /\ DOMAIN frames = {} /\ capturing = 0
      /\ capturing \in Nat
  BY <1>1, <1>5 DEF C!Basic, C!Shape, C!TypeOK
<1>8. /\ DOMAIN upvalues' = DOMAIN upvalues \cup {cl} /\ DOMAIN named' = DOMAIN upvalues'
      /\ upvalues'[cl] = <<>> /\ named'[cl] = <<>>
      /\ \A x \in DOMAIN upvalues : upvalues'[x] = upvalues[x] /\ named'[x] = named[x]
  BY <1>2, <1>5 DEF C!Basic
<1>9. /\ Len(stack') = 1 /\ Len(frames') = 1 /\ DOMAIN frames' = {1}
      /\ frames'[1].slots = 1 /\ frames'[1].closure = cl
      /\ Len(locals') = 1 /\ DOMAIN locals' = {1} /\ locals'[1] = new /\ DOMAIN locals'[1] = {1}
  BY <1>2, <1>3, <1>4
<1>10. C!TypeOK'
  <2>1. /\ stack' \in Seq(C!Value) /\ frames' \in Seq([closure : Closure, slots : Nat \ {0}])
        /\ locals' \in Seq(Seq(Var)) /\ Len(locals') = Len(frames')
    BY <1>2, <1>3, <1>4 DEF C!Value
  <2>2. C!FramesApart'
    <3> SUFFICES ASSUME NEW f \in DOMAIN frames'
                 PROVE  /\ frames'[f].slots + Len(locals'[f]) <= Len(stack') + 1
                        /\ \A e \in 1 .. f - 1 : frames'[e].slots + Len(locals'[e]) <= frames'[f].slots
      BY DEF C!FramesApart
    <3>1. f = 1
      BY <1>9
    <3>2. frames'[1].slots + Len(locals'[1]) <= Len(stack') + 1
      <4>1. frames'[1].slots = 1 /\ Len(locals'[1]) = 1 /\ Len(stack') = 1
        BY <1>4, <1>9
      <4> QED BY <4>1
    <3>3. 1 .. f - 1 = {}
      BY <3>1
    <3> QED BY <3>1, <3>2, <3>3
  <2>3. /\ upvalues' \in [DOMAIN upvalues' -> Seq(Upvalue)] /\ named' \in [DOMAIN upvalues' -> Seq(Var)]
        /\ DOMAIN upvalues' \subseteq Closure
    <3>1. ASSUME NEW x \in DOMAIN upvalues'
          PROVE  upvalues'[x] \in Seq(Upvalue) /\ named'[x] \in Seq(Var)
      <4>1. CASE x = cl
        BY <1>8, <4>1
      <4>2. CASE x \in DOMAIN upvalues
        <5>1. upvalues[x] \in Seq(Upvalue) /\ named[x] \in Seq(Var)
          BY <1>5, <4>2 DEF C!Basic
        <5> QED BY <1>8, <4>2, <5>1
      <4> QED BY <1>8, <4>1, <4>2
    <3>2. DOMAIN upvalues \subseteq Closure
      BY <1>5 DEF C!TypeOK
    <3> QED BY <3>1, <3>2, <1>2, <1>8
  <2> QED BY <2>1, <2>2, <2>3, <1>1, <1>5, <1>6 DEF C!TypeOK
<1>11. ASSUME NEW x \in DOMAIN upvalues', NEW k \in DOMAIN upvalues'[x]
       PROVE  /\ x \in DOMAIN upvalues /\ k \in DOMAIN upvalues[x]
              /\ upvalues'[x][k] = upvalues[x][k] /\ named'[x][k] = named[x][k]
  BY <1>8
<1>12. C!Shape'
  <2>1. \A x \in DOMAIN upvalues' : Len(named'[x]) = Len(upvalues'[x])
    BY <1>5, <1>8 DEF C!Shape
  <2>2. \A x \in DOMAIN upvalues' : \A k \in DOMAIN upvalues'[x] : upvalues'[x][k] \in DOMAIN Seen'
    BY <1>5, <1>6, <1>11 DEF C!Shape
  <2>3. /\ \A f \in DOMAIN frames' : frames'[f].closure \in DOMAIN upvalues'
        /\ ~(capturing' > 0)
    BY <1>1, <1>7, <1>8, <1>9
  <2> QED BY <2>1, <2>2, <2>3 DEF C!Shape
<1>13. \A p \in DOMAIN open : open[p] \in DOMAIN Seen'
  BY <1>5, <1>6 DEF C!IInv, C!OpenExact
<1>14. ASSUME NEW e \in DOMAIN locals', NEW f \in DOMAIN locals',
              NEW i \in DOMAIN locals'[e], NEW j \in DOMAIN locals'[f]
       PROVE  C!New(f, j) => /\ locals'[f][j] \notin C!UsedVars
                             /\ C!New(e, i) /\ locals'[e][i] = locals'[f][j] => e = f /\ i = j
  BY <1>4, <1>9
<1>15. \A f \in DOMAIN locals : \A i \in DOMAIN locals[f] :
         /\ f \in DOMAIN locals' /\ i \in DOMAIN locals'[f]
         /\ locals'[f][i] = locals[f][i] /\ frames'[f].slots = frames[f].slots
  BY <1>7
<1>16. /\ DOMAIN Seen' \subseteq DOMAIN Seen /\ UNCHANGED open
       /\ \A u \in DOMAIN Seen' : Seen'[u].location = Seen[u].location
  BY <1>1, <1>6
<1>17. C!IInv'
  BY <1>5, <1>10, <1>11, <1>12, <1>13, <1>14, <1>15, <1>16, C!VariablesAdded, ClosureAssumption
<1>18. stack' \in Seq(Live')
  <2>1. cl \in Live'
    BY <1>8 DEF Live
  <2> QED BY <2>1, <1>2
<1> QED BY <1>1, <1>8, <1>17, <1>18, UpvaluesStay

(* The collector sees the same list in both states.                        *)
LEMMA CollectLineStep == ASSUME RInv, CollectLine PROVE RInv' /\ C!Collect
<1>1. /\ Collect /\ orphans' = orphans \cap DOMAIN upvalue' /\ UNCHANGED global
      /\ global \in Closure => global \in DOMAIN upvalues'
      /\ UNCHANGED <<stack, frames, open, capturing, locals>> /\ access' = NoAccess
  BY DEF CollectLine, Collect
<1> DEFINE Kept(S) == DOMAIN upvalues \ S
<1> DEFINE Using(S) == Elements(open) \cup UNION {Elements(upvalues[cl]) : cl \in Kept(S)}
<1>2. PICK S \in SUBSET DOMAIN upvalues :
        /\ S # {}
        /\ S \cap Elements(stack) = {}
        /\ \A f \in DOMAIN frames : frames[f].closure \notin S
        /\ \A u \in Using(S) : upvalue[u].closed \notin S
        /\ upvalues' = [cl \in Kept(S) |-> upvalues[cl]]
        /\ named' = [cl \in Kept(S) |-> named[cl]]
        /\ upvalue' = [u \in Using(S) |-> upvalue[u]]
  BY <1>1 DEF Collect
<1>3. C!Shape /\ C!OpenExact /\ UpvalueTypes /\ AllLive /\ Apart /\ C!Basic
  BY NowIs DEF C!IInv
<1>4. Using(S) \subseteq DOMAIN upvalue
  <2>1. DOMAIN Seen = DOMAIN upvalue
    BY DEF Seen
  <2>2. Elements(open) \subseteq DOMAIN upvalue
    BY <1>3, <2>1 DEF C!OpenExact, Elements
  <2>3. \A cl \in Kept(S) : Elements(upvalues[cl]) \subseteq DOMAIN upvalue
    BY <1>3, <2>1 DEF C!Shape, Elements
  <2> QED BY <2>2, <2>3
<1> DEFINE used == Using(S)
<1>5. /\ DOMAIN upvalue' = used /\ used \subseteq DOMAIN upvalue
      /\ \A u \in used : upvalue'[u] = upvalue[u]
  BY <1>2, <1>4
<1>6. /\ \A u \in used : Seen[u].closed = upvalue[u].closed
      /\ Seen' = [u \in used |-> Seen[u]]
  <2>1. Seen' = [u \in used |-> IF u \in orphans' THEN [location |-> CLOSED, closed |-> upvalue'[u].closed]
                                ELSE upvalue'[u]]
    BY <1>5 DEF Seen
  <2>2. \A u \in used : u \in orphans' <=> u \in orphans
    BY <1>1, <1>5
  <2>3. \A u \in used : Seen[u] = IF u \in orphans THEN [location |-> CLOSED, closed |-> upvalue[u].closed]
                                  ELSE upvalue[u]
    BY <1>5 DEF Seen
  <2> HIDE DEF used
  <2>4. \A u \in used : Seen[u] = IF u \in orphans' THEN [location |-> CLOSED, closed |-> upvalue'[u].closed]
                                  ELSE upvalue'[u]
    BY <2>2, <2>3, <1>5
  <2>5. ASSUME NEW u \in used PROVE Seen[u].closed = upvalue[u].closed
    <3>1. CASE u \in orphans
      <4>1. Seen[u] = [location |-> CLOSED, closed |-> upvalue[u].closed]
        BY <2>3, <3>1
      <4> QED BY <4>1
    <3>2. CASE u \notin orphans
      BY <2>3, <3>2
    <3> QED BY <3>1, <3>2
  <2>6. Seen' = [u \in used |-> Seen[u]]
    BY <2>1, <2>4
  <2> QED BY <2>5, <2>6
<1>7. C!Collect
  <2>1. \A s : C!Elements(s) = Elements(s)
    BY DEF C!Elements, Elements
  <2>2. used = C!Elements(open) \cup UNION {C!Elements(upvalues[cl]) : cl \in DOMAIN upvalues \ S}
    BY <2>1
  <2>3. \A u \in used : Seen[u].closed \notin S
    BY <1>2, <1>6
  <2>4. S \cap C!Elements(stack) = {} /\ access' = C!NoAccess
    BY <2>1, <1>1, <1>2, SameWithout
  <2> HIDE DEF used
  <2>5. /\ upvalues' = [cl \in DOMAIN upvalues \ S |-> upvalues[cl]]
        /\ named' = [cl \in DOMAIN upvalues \ S |-> named[cl]]
    BY <1>2
  <2> QED BY <2>2, <2>3, <2>4, <2>5, <1>1, <1>2, <1>6 DEF C!Collect
<1>8. C!IInv'
  BY <1>7, NowIs, C!CollectStep, ClosureAssumption
<1>9. UpvalueTypes'
  <2>1. \A u \in used : upvalue[u] \in [location : Nat, closed : Value]
    BY <1>3, <1>5 DEF UpvalueTypes
  <2> QED BY <2>1, <1>2 DEF UpvalueTypes
<1>10. Apart'
  BY <1>1, <1>3 DEF Apart, Elements
<1>11. AllLive'
  <2>1. ASSUME NEW v \in Live, v \notin S PROVE v \in Live'
    BY <2>1, <1>2 DEF Live
  <2>2. stack \in Seq(Live) /\ \A s \in DOMAIN stack : stack[s] \in Live /\ stack[s] \notin S
    BY <1>2, <1>3, StackLive DEF Elements
  <2>3. \A s \in 1 .. Len(stack) : stack[s] \in Live'
    BY <2>1, <2>2
  <2>4. stack \in Seq(Live')
    BY <2>2, <2>3, SeqDef
  <2>5. global \in Live'
    <3>1. global \in Live
      BY <1>3 DEF AllLive
    <3>2. CASE global \in DOMAIN upvalues
      BY <3>2, <1>1, <1>3 DEF Live, C!Basic
    <3>3. CASE global \notin DOMAIN upvalues
      BY <3>1, <3>3 DEF Live
    <3> QED BY <3>2, <3>3
  <2>6. \A u \in used : upvalue'[u].closed \in Live'
    BY <2>1, <1>2, <1>3, <1>5 DEF AllLive
  <2> QED BY <2>4, <2>5, <2>6, <1>1, <1>5 DEF AllLive
<1> QED BY <1>7, <1>8, <1>9, <1>10, <1>11 DEF RInv
-----------------------------------------------------------------------------
(* Steps that capture and close: what they do to the list is the same, as  *)
(* no orphan is in it.                                                     *)
LEMMA OpenSeen ==
  ASSUME RInv
  PROVE  /\ Len(open) \in Nat /\ DOMAIN open = 1 .. Len(open)
         /\ \A q \in 1 .. Len(open) :
              /\ open[q] \in DOMAIN upvalue /\ open[q] \notin orphans
              /\ Seen[open[q]] = upvalue[open[q]]
<1>1. C!Basic /\ C!OpenExact /\ UpvalueTypes /\ Apart
  BY NowIs DEF C!IInv
<1>2. Len(open) \in Nat /\ DOMAIN open = 1 .. Len(open)
  BY <1>1 DEF C!Basic
<1>3. DOMAIN Seen = DOMAIN upvalue
  BY DEF Seen
<1>4. \A q \in DOMAIN open : open[q] \in DOMAIN upvalue /\ open[q] \notin orphans
  BY <1>1, <1>3 DEF C!OpenExact, Apart, Elements
<1> QED BY <1>1, <1>2, <1>4, SeenIs

LEMMA PositionSeen == ASSUME RInv, NEW slot PROVE C!Position(slot) = Position(slot)
<1> DEFINE P(p) == /\ p \in DOMAIN open => upvalue[open[p]].location <= slot
                   /\ \A q \in 1 .. p - 1 : upvalue[open[q]].location > slot
           Q(p) == /\ p \in DOMAIN open => Seen[open[p]].location <= slot
                   /\ \A q \in 1 .. p - 1 : Seen[open[q]].location > slot
<1>1. ASSUME NEW p \in 1 .. Len(open) + 1 PROVE P(p) <=> Q(p)
  <2>1. \A q \in 1 .. p - 1 : q \in 1 .. Len(open)
    BY OpenSeen
  <2> QED BY <2>1, OpenSeen
<1>2. Position(slot) = CHOOSE p \in 1 .. Len(open) + 1 : P(p)
  BY DEF Position
<1>3. C!Position(slot) = CHOOSE p \in 1 .. Len(open) + 1 : Q(p)
  BY DEF C!Position
<1> HIDE DEF P, Q
<1> QED BY <1>1, <1>2, <1>3

LEMMA PlaceInside ==
  ASSUME RInv, NEW i \in DOMAIN Top(locals), capturing > 0
  PROVE  Position(Slot(i)) \in 1 .. Len(open) + 1
<1>1. C!TypeOK /\ C!OpenExact /\ C!Basic /\ frames # <<>>
  BY NowIs DEF C!IInv, C!Shape
<1>2. C!Base \in Nat \ {0} /\ C!Top(locals) = locals[Len(frames)] /\ Len(frames) \in DOMAIN frames
  BY <1>1, C!TopIsHighest, ClosureAssumption
<1>3. i \in Nat \ {0}
  <2>1. i \in DOMAIN locals[Len(frames)]
    BY <1>2, SameWithout
  <2>2. DOMAIN locals[Len(frames)] = 1 .. Len(locals[Len(frames)])
    BY <1>1, <1>2 DEF C!Basic
  <2> QED BY <2>1, <2>2
<1>4. Slot(i) \in Nat
  BY <1>2, <1>3, SameWithout DEF Slot
<1>5. C!Position(Slot(i)) \in 1 .. Len(open) + 1
  BY <1>1, <1>4, C!PositionIs, ClosureAssumption
<1> QED BY <1>5, PositionSeen

LEMMA CaptureLine ==
  ASSUME RInv, Capture, UNCHANGED <<global, orphans>> PROVE RInv' /\ C!Capture
<1>1. /\ capturing > 0 /\ capturing' = capturing - 1 /\ access' = NoAccess
      /\ UNCHANGED <<stack, frames, locals>>
  BY DEF Capture
<1>2. C!IInv /\ UpvalueTypes /\ AllLive /\ Apart /\ DOMAIN Seen = DOMAIN upvalue
  BY NowIs DEF Seen
<1>3. \A u, v : C!Captured(u, v) <=> Captured(u, v)
  BY SameOf DEF C!Captured, Captured, C!Elements, Elements
<1>4. DOMAIN upvalues \subseteq DOMAIN upvalues'
  BY <1>2 DEF Capture, Captured
<1>5. CASE \E i \in DOMAIN Top(locals), u \in Upvalue :
             capture_upvalue(Slot(i), u) /\ Captured(u, Top(locals)[i])
  <2>1. PICK i \in DOMAIN Top(locals), u \in Upvalue :
          capture_upvalue(Slot(i), u) /\ Captured(u, Top(locals)[i])
    BY <1>5
  <2> DEFINE p == Position(Slot(i))
  <2>2. C!Position(Slot(i)) = p
    BY PositionSeen
  <2>3. p \in DOMAIN open => Seen[open[p]] = upvalue[open[p]] /\ open[p] \in DOMAIN upvalue
    BY OpenSeen
  <2>4. \/ /\ p \in DOMAIN open /\ upvalue[open[p]].location = Slot(i)
           /\ u = open[p]
           /\ UNCHANGED <<open, upvalue>>
        \/ /\ ~(p \in DOMAIN open /\ upvalue[open[p]].location = Slot(i))
           /\ u \notin DOMAIN upvalue
           /\ upvalue' = [x \in DOMAIN upvalue \cup {u} |->
                            IF x = u THEN [location |-> Slot(i), closed |-> NIL] ELSE upvalue[x]]
           /\ open' = SubSeq(open, 1, p - 1) \o <<u>> \o SubSeq(open, p, Len(open))
    BY <2>1 DEF capture_upvalue
  <2> HIDE DEF p
  <2>5. CASE p \in DOMAIN open /\ upvalue[open[p]].location = Slot(i)
    <3>1. u = open[p] /\ UNCHANGED <<open, upvalue, orphans>> /\ UNCHANGED Seen
      BY <2>4, <2>5, SeenStays
    <3>2. C!capture_upvalue(Slot(i), u)
      BY <2>2, <2>3, <2>5, <3>1 DEF C!capture_upvalue
    <3>3. C!Capture
      BY <2>1, <3>2, <1>1, <1>3, SameWithout, SameOf DEF C!Capture
    <3>4. C!IInv'
      BY <3>3, <1>2, C!CaptureStep, ClosureAssumption
    <3>5. stack' \in Seq(Live')
      BY <1>1, <1>4, StackLive, MoreLive
    <3> QED BY <3>1, <3>3, <3>4, <3>5, <1>4, UpvaluesStay
  <2>6. CASE ~(p \in DOMAIN open /\ upvalue[open[p]].location = Slot(i))
    <3>1. /\ u \notin DOMAIN upvalue
          /\ upvalue' = [x \in DOMAIN upvalue \cup {u} |->
                           IF x = u THEN [location |-> Slot(i), closed |-> NIL] ELSE upvalue[x]]
          /\ open' = SubSeq(open, 1, p - 1) \o <<u>> \o SubSeq(open, p, Len(open))
      BY <2>4, <2>6
    <3>2. /\ DOMAIN upvalue' = DOMAIN upvalue \cup {u} /\ upvalue'[u].closed = NIL
          /\ upvalue'[u] = [location |-> Slot(i), closed |-> NIL]
          /\ \A x \in DOMAIN upvalue : upvalue'[x] = upvalue[x]
      BY <3>1
    <3>3. u \notin orphans
      BY <3>1, <1>2 DEF Apart
    <3>4. Seen' = [x \in DOMAIN Seen \cup {u} |->
                     IF x = u THEN [location |-> Slot(i), closed |-> NIL] ELSE Seen[x]]
      <4>1. DOMAIN Seen' = DOMAIN upvalue \cup {u}
        BY <3>2 DEF Seen
      <4>2. Seen' = [x \in DOMAIN upvalue \cup {u} |-> Seen'[x]]
        BY <4>1 DEF Seen
      <4>3. Seen'[u] = upvalue'[u]
        BY <3>2, <3>3 DEF Seen
      <4>4. \A x \in DOMAIN upvalue : Seen'[x] = Seen[x]
        BY <3>2 DEF Seen
      <4> QED BY <4>2, <4>3, <4>4, <3>1, <3>2, <1>2
    <3>5. C!capture_upvalue(Slot(i), u)
      <4>1. u \notin DOMAIN Seen /\ ~(p \in DOMAIN open /\ Seen[open[p]].location = Slot(i))
        BY <3>1, <1>2, <2>3, <2>6
      <4> QED BY <2>2, <3>1, <3>4, <4>1 DEF C!capture_upvalue
    <3>6. C!Capture
      BY <2>1, <3>5, <1>1, <1>3, SameWithout, SameOf DEF C!Capture
    <3>7. C!IInv'
      BY <3>6, <1>2, C!CaptureStep, ClosureAssumption
    <3>8. UpvalueTypes'
      <4>1. Slot(i) \in Nat
        <5>1. Seen'[u].location \in Nat
          BY <3>4, <3>7 DEF C!IInv, C!TypeOK
        <5>2. Seen'[u] = [location |-> Slot(i), closed |-> NIL]
          BY <3>4
        <5> QED BY <5>1, <5>2
      <4>2. [location |-> Slot(i), closed |-> NIL] \in [location : Nat, closed : Value]
        BY <4>1 DEF Value
      <4>3. \A x \in DOMAIN upvalue : upvalue[x] \in [location : Nat, closed : Value]
        BY <1>2 DEF UpvalueTypes
      <4> QED BY <4>2, <4>3, <3>1 DEF UpvalueTypes
    <3>9. Apart'
      <4>1. ASSUME NEW x \in Elements(open)' PROVE x \in Elements(open) \/ x = u
        <5>2. p \in 1 .. Len(open) + 1
          BY <1>1, PlaceInside DEF p
        <5>3. /\ DOMAIN open' = 1 .. Len(open) + 1
              /\ \A q \in 1 .. p - 1 : open'[q] = open[q]
              /\ open'[p] = u
              /\ \A q \in p + 1 .. Len(open) + 1 : open'[q] = open[q - 1]
          BY <5>2, <3>1, <1>2, C!InsertedOpen, ClosureAssumption DEF C!IInv
        <5>4. PICK q \in 1 .. Len(open) + 1 : x = open'[q]
          BY <4>1, <5>3 DEF Elements
        <5>5. Len(open) \in Nat /\ DOMAIN open = 1 .. Len(open)
          BY OpenSeen
        <5>6. \/ q \in 1 .. p - 1 /\ q \in 1 .. Len(open)
              \/ q = p
              \/ q \in p + 1 .. Len(open) + 1 /\ q - 1 \in 1 .. Len(open)
          BY <5>2, <5>5, C!AroundOne, ClosureAssumption
        <5> QED BY <5>3, <5>4, <5>5, <5>6 DEF Elements
      <4> QED BY <4>1, <3>2, <3>3, <1>2 DEF Apart
    <3>10. AllLive'
      <4>1. stack' \in Seq(Live') /\ Live \subseteq Live' /\ NIL \in Live'
        BY <1>1, <1>4, StackLive, MoreLive DEF Live
      <4> QED BY <4>1, <3>2, <1>2 DEF AllLive
    <3> QED BY <3>6, <3>7, <3>8, <3>9, <3>10 DEF RInv
  <2> QED BY <2>5, <2>6
<1>6. CASE LET cl == Top(frames).closure
           IN  \E k \in DOMAIN upvalues[cl] :
                 Captured(upvalues[cl][k], named[cl][k]) /\ UNCHANGED <<open, upvalue>>
  <2>1. UNCHANGED <<open, upvalue, orphans>> /\ UNCHANGED Seen
    BY <1>6, SeenStays
  <2>2. C!Capture
    BY <2>1, <1>1, <1>3, <1>6, SameWithout, SameOf DEF C!Capture
  <2>3. C!IInv'
    BY <2>2, <1>2, C!CaptureStep, ClosureAssumption
  <2>4. stack' \in Seq(Live')
    BY <1>1, <1>4, StackLive, MoreLive
  <2> QED BY <2>1, <2>2, <2>3, <2>4, <1>4, UpvaluesStay
<1> QED BY <1>5, <1>6 DEF Capture
-----------------------------------------------------------------------------
LEMMA CloseSeen ==
  ASSUME RInv, NEW last \in Nat \ {0}, close_upvalues(last), UNCHANGED orphans
  PROVE  /\ C!close_upvalues(last)
         /\ DOMAIN upvalue' = DOMAIN upvalue
         /\ \A u \in DOMAIN upvalue :
              \/ upvalue'[u] = upvalue[u]
              \/ u \in Elements(open) /\ upvalue'[u] = [location |-> CLOSED, closed |-> stack[upvalue[u].location]]
         /\ Elements(open)' \subseteq Elements(open)
<1> DEFINE P(i) == /\ \A q \in 1 .. i : upvalue[open[q]].location >= last
                   /\ i < Len(open) => upvalue[open[i + 1]].location < last
           Q(i) == /\ \A q \in 1 .. i : Seen[open[q]].location >= last
                   /\ i < Len(open) => Seen[open[i + 1]].location < last
           n == CHOOSE i \in 0 .. Len(open) : P(i)
           m == CHOOSE i \in 0 .. Len(open) : Q(i)
           closing == {open[q] : q \in 1 .. n}
<1>1. ASSUME NEW i \in 0 .. Len(open) PROVE P(i) <=> Q(i)
  <2>1. \A q \in 1 .. i : q \in 1 .. Len(open)
    BY OpenSeen
  <2>2. i < Len(open) => i + 1 \in 1 .. Len(open)
    BY OpenSeen
  <2> QED BY <2>1, <2>2, OpenSeen
<1>2. /\ upvalue' = [u \in DOMAIN upvalue |->
                       IF u \in closing
                       THEN [location |-> CLOSED, closed |-> stack[upvalue[u].location]]
                       ELSE upvalue[u]]
      /\ open' = SubSeq(open, n + 1, Len(open))
  BY DEF close_upvalues
<1>3. \E i \in 0 .. Len(open) : Q(i)
  BY NowIs, C!WalkEnds, ClosureAssumption
<1> HIDE DEF P, Q
<1>4. m = n /\ n \in 0 .. Len(open)
  BY <1>1, <1>3
<1> HIDE DEF n, m
<1>5. closing \subseteq Elements(open) /\ closing \cap orphans = {}
  <2>1. \A q \in 1 .. n : q \in 1 .. Len(open)
    BY <1>4, OpenSeen
  <2> QED BY <2>1, OpenSeen DEF Elements
<1> HIDE DEF closing
<1>6. Seen' = [u \in DOMAIN Seen |->
                 IF u \in closing
                 THEN [location |-> CLOSED, closed |-> stack[Seen[u].location]]
                 ELSE Seen[u]]
  <2>1. DOMAIN Seen = DOMAIN upvalue /\ DOMAIN Seen' = DOMAIN upvalue
    BY <1>2 DEF Seen
  <2>2. Seen' = [u \in DOMAIN upvalue |-> Seen'[u]]
    BY <2>1 DEF Seen
  <2>3. ASSUME NEW u \in DOMAIN upvalue, u \in closing
        PROVE  Seen'[u] = [location |-> CLOSED, closed |-> stack[Seen[u].location]]
    BY <2>3, <1>2, <1>5 DEF Seen
  <2>4. ASSUME NEW u \in DOMAIN upvalue, u \notin closing PROVE Seen'[u] = Seen[u]
    BY <2>4, <1>2 DEF Seen
  <2> QED BY <2>1, <2>2, <2>3, <2>4
<1>7. C!close_upvalues(last)
  BY <1>2, <1>4, <1>6 DEF C!close_upvalues, C!CLOSED, CLOSED, closing, m, Q
<1>8. Elements(open)' \subseteq Elements(open)
  <2>1. /\ Len(open') = Len(open) - n /\ \A q \in 1 .. Len(open) - n : open'[q] = open[n + q]
    BY <1>2, <1>4, NowIs, C!Suffix, ClosureAssumption DEF C!TypeOK
  <2>2. open' \in Seq(Upvalue)
    BY <1>2, <1>4, NowIs, C!Suffix, ClosureAssumption DEF C!TypeOK
  <2>3. /\ DOMAIN open' = 1 .. Len(open) - n
        /\ \A q \in 1 .. Len(open) - n : n + q \in 1 .. Len(open)
    BY <2>1, <2>2, <1>4, OpenSeen
  <2> QED BY <2>1, <2>3, OpenSeen DEF Elements
<1> QED BY <1>2, <1>5, <1>7, <1>8

(* What the upvalues of orphans and the rest are after closing.            *)
LEMMA ClosedRest ==
  ASSUME RInv, UNCHANGED <<orphans, global, upvalues>>, stack' \in Seq(Live), C!IInv',
         DOMAIN upvalue' = DOMAIN upvalue,
         \A u \in DOMAIN upvalue :
           \/ upvalue'[u] = upvalue[u]
           \/ /\ u \in Elements(open)
              /\ upvalue'[u] = [location |-> CLOSED, closed |-> stack[upvalue[u].location]],
         Elements(open)' \subseteq Elements(open),
         upvalue' = [u \in DOMAIN upvalue |-> upvalue'[u]]
  PROVE  RInv'
<1>1. C!Basic /\ C!OpenExact /\ C!Layout /\ UpvalueTypes /\ AllLive /\ Apart
  BY NowIs, C!SlotsApart, ClosureAssumption DEF C!IInv
<1>2. ASSUME NEW u \in Elements(open)
      PROVE  stack[upvalue[u].location] \in Live
  <2>1. PICK q \in DOMAIN open : u = open[q]
    BY DEF Elements
  <2>2. PICK f \in DOMAIN locals : \E i \in DOMAIN locals[f] : Seen[open[q]].location = C!At(f, i)
    BY <1>1 DEF C!OpenExact
  <2>3. Seen[open[q]].location \in DOMAIN stack
    BY <1>1, <2>2 DEF C!Layout
  <2>4. Seen[open[q]] = upvalue[open[q]]
    BY OpenSeen
  <2> QED BY <2>1, <2>3, <2>4, StackLive
<1>3. Live \subseteq Value /\ CLOSED \in Nat
  BY <1>1 DEF Live, Value, C!Basic, CLOSED
<1>4. \A u \in DOMAIN upvalue : upvalue[u] \in [location : Nat, closed : Value] /\ upvalue[u].closed \in Live
  BY <1>1 DEF UpvalueTypes, AllLive
<1>5. ASSUME NEW u \in DOMAIN upvalue
      PROVE  upvalue'[u] \in [location : Nat, closed : Value] /\ upvalue'[u].closed \in Live
  <2>1. CASE upvalue'[u] = upvalue[u]
    BY <2>1, <1>4
  <2>2. CASE /\ u \in Elements(open)
             /\ upvalue'[u] = [location |-> CLOSED, closed |-> stack[upvalue[u].location]]
    <3>1. stack[upvalue[u].location] \in Live /\ stack[upvalue[u].location] \in Value
      BY <2>2, <1>2, <1>3
    <3> QED BY <2>2, <3>1, <1>3
  <2> QED BY <2>1, <2>2
<1>6. UpvalueTypes'
  BY <1>5 DEF UpvalueTypes
<1>7. AllLive'
  <2>1. Live' = Live
    BY DEF Live
  <2> QED BY <2>1, <1>1, <1>5 DEF AllLive
<1>8. Apart'
  BY <1>1 DEF Apart
<1> QED BY <1>6, <1>7, <1>8 DEF RInv

LEMMA EndScopeLine ==
  ASSUME RInv, end_scope, UNCHANGED <<global, orphans>> PROVE RInv' /\ C!end_scope
<1>1. /\ Running /\ Temporaries = 0 /\ Len(Top(locals)) > 1
      /\ stack' = Cut(stack, 1)
      /\ locals' = [locals EXCEPT ![Len(locals)] = Cut(@, 1)]
      /\ access' = NoAccess
      /\ UNCHANGED <<frames, upvalues, capturing, named>>
      /\ \/ close_upvalues(Len(stack))
         \/ /\ \A u \in Elements(open) : upvalue[u].location # Len(stack)
            /\ UNCHANGED <<open, upvalue>>
  BY DEF end_scope
<1>2. Len(stack) \in Nat \ {0} /\ stack' \in Seq(Live)
  <2>1. /\ C!Base \in Nat \ {0} /\ Len(C!Top(locals)) \in Nat
        /\ C!Base + Len(C!Top(locals)) <= Len(stack) + 1
    BY <1>1, NowIs, C!TopIsHighest, ClosureAssumption DEF Running
  <2>2. stack \in Seq(Live) /\ Len(stack) \in Nat
    BY NowIs DEF AllLive, C!Basic
  <2>3. Len(stack) >= 1
    BY <2>1, <2>2, <1>1, SameWithout
  <2> QED BY <2>2, <2>3, <1>1, C!CutOne, ClosureAssumption, SameOf
<1>3. \A s, n : C!Cut(s, n) = Cut(s, n)
  BY SameOf
<1>4. CASE close_upvalues(Len(stack))
  <2>1. /\ C!close_upvalues(Len(stack))
        /\ DOMAIN upvalue' = DOMAIN upvalue
        /\ \A u \in DOMAIN upvalue :
             \/ upvalue'[u] = upvalue[u]
             \/ /\ u \in Elements(open)
                /\ upvalue'[u] = [location |-> CLOSED, closed |-> stack[upvalue[u].location]]
        /\ Elements(open)' \subseteq Elements(open)
    BY <1>2, <1>4, CloseSeen
  <2>2. C!end_scope
    BY <2>1, <1>1, <1>3, SameWithout DEF C!end_scope
  <2>3. C!IInv'
    BY <2>2, NowIs, C!EndScopeStep, ClosureAssumption
  <2>4. upvalue' = [u \in DOMAIN upvalue |-> upvalue'[u]]
    BY <1>4 DEF close_upvalues
  <2> QED BY <2>1, <2>2, <2>3, <2>4, <1>1, <1>2, ClosedRest
<1>5. CASE /\ \A u \in Elements(open) : upvalue[u].location # Len(stack)
           /\ UNCHANGED <<open, upvalue>>
  <2>1. UNCHANGED Seen
    BY <1>5, SeenStays
  <2>2. \A u \in Elements(open) : Seen[u].location # Len(stack)
    BY <1>5, OpenSeen DEF Elements
  <2>3. C!end_scope
    BY <2>1, <2>2, <1>1, <1>3, <1>5, SameWithout DEF C!end_scope
  <2>4. C!IInv'
    BY <2>3, NowIs, C!EndScopeStep, ClosureAssumption
  <2>5. stack' \in Seq(Live')
    BY <1>1, <1>2, MoreLive
  <2> QED BY <2>3, <2>4, <2>5, <1>1, <1>5, UpvaluesStay
<1> QED BY <1>1, <1>4, <1>5

LEMMA ReturnLine ==
  ASSUME RInv, Return, UNCHANGED <<global, orphans>> PROVE RInv' /\ C!Return
<1>1. /\ Running /\ Temporaries >= 1 /\ close_upvalues(Base)
      /\ IF Len(frames) = 1 THEN Len(stack) = 2 /\ stack' = Cut(stack, 2)
         ELSE stack' = Append(SubSeq(stack, 1, Base - 1), Peek(0))
      /\ frames' = Cut(frames, 1) /\ locals' = Cut(locals, 1) /\ access' = NoAccess
      /\ UNCHANGED <<upvalues, capturing, named>>
  BY DEF Return
<1>2. /\ Base \in Nat \ {0} /\ Base <= Len(stack) /\ Len(stack) \in Nat
      /\ stack \in Seq(Live) /\ Peek(0) \in Live
  <2>1. C!Base \in Nat \ {0} /\ Len(C!Top(locals)) \in Nat
    BY <1>1, NowIs, C!TopIsHighest, ClosureAssumption DEF Running
  <2>2. /\ Base + Len(Top(locals)) <= Len(stack) /\ stack \in Seq(Live) /\ Peek(0) \in Live
    BY <1>1, CutLive
  <2> QED BY <2>1, <2>2, SameWithout
<1>3. stack' \in Seq(Live)
  <2>1. CASE Len(frames) = 1
    <3>1. stack' = SubSeq(stack, 1, Len(stack) - 2) /\ Len(stack) - 2 \in 0 .. Len(stack)
      <4>1. Len(stack) = 2 /\ stack' = Cut(stack, 2)
        BY <2>1, <1>1
      <4> QED BY <4>1 DEF Cut
    <3> QED BY <3>1, <1>2, C!Prefix, ClosureAssumption
  <2>2. CASE Len(frames) # 1
    <3>1. SubSeq(stack, 1, Base - 1) \in Seq(Live)
      <4>1. Base - 1 \in 0 .. Len(stack)
        BY <1>2
      <4> QED BY <4>1, <1>2, C!Prefix, ClosureAssumption
    <3> QED BY <2>2, <3>1, <1>1, <1>2
  <2> QED BY <2>1, <2>2
<1>4. /\ C!close_upvalues(Base)
      /\ DOMAIN upvalue' = DOMAIN upvalue
      /\ \A u \in DOMAIN upvalue :
           \/ upvalue'[u] = upvalue[u]
           \/ /\ u \in Elements(open)
              /\ upvalue'[u] = [location |-> CLOSED, closed |-> stack[upvalue[u].location]]
      /\ Elements(open)' \subseteq Elements(open)
  BY <1>1, <1>2, CloseSeen
<1>5. C!Return
  BY <1>1, <1>4, SameWithout, SameOf DEF C!Return
<1>6. C!IInv'
  BY <1>5, NowIs, C!ReturnStep, ClosureAssumption
<1>7. upvalue' = [u \in DOMAIN upvalue |-> upvalue'[u]]
  BY <1>1 DEF close_upvalues
<1> QED BY <1>1, <1>3, <1>4, <1>5, <1>6, <1>7, ClosedRest
-----------------------------------------------------------------------------
LEMMA InitLine == ReplInit => RInv
<1> SUFFICES ASSUME ReplInit PROVE RInv
  OBVIOUS
<1>1. Init /\ global = NIL /\ orphans = {}
  BY DEF ReplInit
<1>2. PICK cl \in Closure :
        /\ stack = <<cl>> /\ frames = <<[closure |-> cl, slots |-> 1]>>
        /\ open = <<>> /\ upvalue = [u \in {} |-> NIL]
        /\ upvalues = [x \in {cl} |-> <<>>] /\ named = [x \in {cl} |-> <<>>]
        /\ capturing = 0
        /\ locals = <<<<CHOOSE v \in Var : TRUE>>>>
        /\ access = NoAccess
  BY <1>1 DEF Init
<1>3. DOMAIN upvalue = {} /\ Seen = [u \in {} |-> NIL]
  BY <1>2 DEF Seen
<1>4. C!Init
  BY <1>2, <1>3, SameWithout DEF C!Init
<1>5. C!IInv
  BY <1>4, C!InitIInv, ClosureAssumption
<1>6. UpvalueTypes /\ Apart
  BY <1>1, <1>2, <1>3 DEF UpvalueTypes, Apart, Elements
<1>7. AllLive
  <2>1. cl \in Live /\ NIL \in Live
    BY <1>2 DEF Live
  <2> QED BY <2>1, <1>1, <1>2, <1>3 DEF AllLive
<1> QED BY <1>5, <1>6, <1>7 DEF RInv

LEMMA NextLine == RInv /\ [ReplNext]_replVars => RInv'
<1> SUFFICES ASSUME RInv, [ReplNext]_replVars PROVE RInv'
  OBVIOUS
<1>1. CASE SetGlobal \/ GetGlobal
  BY <1>1, SetGlobalLine, GetGlobalLine
<1>2. CASE runtime_error
  BY <1>2, RuntimeErrorLine
<1>3. CASE interpret
  BY <1>3, InterpretLine
<1>4. CASE CollectLine
  BY <1>4, CollectLineStep
<1>5. CASE \E k \in 1 .. MaxUpvalues : GetOrphan(k) \/ SetOrphan(k)
  BY <1>5, GetOrphanLine, SetOrphanLine
<1>6. CASE UNCHANGED <<global, orphans>> /\ (Constant \/ Pop \/ define_variable)
  BY <1>6, ConstantLine, PopLine, DefineVariableLine
<1>7. CASE UNCHANGED <<global, orphans>> /\ (end_scope \/ Capture \/ Return)
  BY <1>7, EndScopeLine, CaptureLine, ReturnLine
<1>8. CASE UNCHANGED <<global, orphans>> /\ \E i \in 1 .. MaxStack : GetLocal(i) \/ SetLocal(i)
  BY <1>8, GetLocalLine, SetLocalLine
<1>9. CASE /\ UNCHANGED <<global, orphans>>
           /\ \E k \in 1 .. MaxUpvalues : ~AboveTop(k) /\ (GetUpvalue(k) \/ SetUpvalue(k))
  BY <1>9, GetUpvalueLine, SetUpvalueLine
<1>10. CASE UNCHANGED <<global, orphans>> /\ \E n \in 0 .. MaxUpvalues : MakeClosure(n)
  <2>1. PICK n \in 0 .. MaxUpvalues : MakeClosure(n)
    BY <1>10
  <2>2. n \in Nat
    BY ClosureAssumption
  <2> QED BY <1>10, <2>1, <2>2, MakeClosureLine
<1>11. CASE UNCHANGED <<global, orphans>> /\ \E argc \in 0 .. MaxArgs : Call(argc)
  <2>1. PICK argc \in 0 .. MaxArgs : Call(argc)
    BY <1>11
  <2>2. argc \in Nat
    BY ClosureAssumption
  <2> QED BY <1>11, <2>1, <2>2, CallLine
<1>12. CASE UNCHANGED replVars
  <2>1. UNCHANGED <<stack, frames, open, upvalue, upvalues, capturing, locals, named, access, global, orphans>>
    BY <1>12 DEF replVars, vars, machine
  <2>2. UNCHANGED Seen
    BY <2>1, SeenStays
  <2>3. UNCHANGED C!vars
    BY <2>1, <2>2 DEF C!vars, C!machine
  <2>4. C!IInv'
    BY <2>3, NowIs, C!NextIInv, ClosureAssumption
  <2>5. stack' \in Seq(Live')
    BY <2>1, StackLive DEF Live
  <2> QED BY <2>1, <2>4, <2>5, UpvaluesStay
<1> QED BY <1>1, <1>2, <1>3, <1>4, <1>5, <1>6, <1>7, <1>8, <1>9, <1>10, <1>11, <1>12 DEF ReplNext

(* The inductive invariant: that of ValpClosures with the orphans closed,  *)
(* and no garbage within reach.                                            *)
THEOREM ReplInvariantHolds == ReplSpec => []RInv
BY InitLine, NextLine, PTL DEF ReplSpec

LEMMA ApartLines == RInv => LinesApart
<1> SUFFICES ASSUME RInv PROVE LinesApart
  OBVIOUS
<1>1. TypeOK /\ C!IInv /\ AllLive /\ Apart
  BY NowIs
<1>2. C!OpenList
  BY <1>1, C!ListIsOrdered, ClosureAssumption
<1>3. OpenList
  BY <1>2, OpenSeen DEF C!OpenList, OpenList
<1> QED BY <1>1, <1>3 DEF LinesApart, ReplTypeOK, AllLive, Live, Apart

(* However many lines have failed, the list of open upvalues is sorted,    *)
(* names slots of the line that runs, and holds no upvalue of a line that  *)
(* failed: no later capture shares such a one, no later return closes it.  *)
THEOREM LinesApartHolds == ReplSpec => []LinesApart
BY ApartLines, ReplInvariantHolds, PTL

-----------------------------------------------------------------------------
(* The cells of Variables, without those of the lost variables: a step is  *)
(* mapped as C is, where every variable has its cell, and cut down to the  *)
(* others.                                                                 *)
LEMMA LostIs ==
  ASSUME RInv, NEW cl \in DOMAIN upvalues, NEW k \in DOMAIN upvalues[cl]
  PROVE  named[cl][k] \in Lost <=> upvalues[cl][k] \in orphans
<1>1. \A cm \in DOMAIN upvalues : \A l \in DOMAIN upvalues[cm] :
        named[cm][l] = named[cl][k] <=> upvalues[cm][l] = upvalues[cl][k]
  BY NowIs DEF C!IInv, C!OneUpvaluePerVariable
<1> QED BY <1>1 DEF Lost

LostMeans ==
  \A cl \in DOMAIN upvalues : \A k \in DOMAIN upvalues[cl] :
    named[cl][k] \in Lost <=> upvalues[cl][k] \in orphans

LEMMA LostAreMarked == RInv => LostMeans
BY LostIs DEF LostMeans

LEMMA LostIsNext == RInv' => LostMeans'
BY LostAreMarked, PTL

SameUsed == C!UsedVars = UsedVars

LEMMA SameUsedNext == SameUsed'
<1>1. SameUsed
  BY SameWithout DEF SameUsed
<1> QED BY <1>1, PTL

(* A lost variable has a name, and is on the stack no more.                *)
LostAreNamed ==
  \A v \in Lost : /\ v \in UsedVars /\ v \notin OnStack
                  /\ \E cl \in DOMAIN upvalues : \E k \in DOMAIN upvalues[cl] :
                       named[cl][k] = v /\ upvalues[cl][k] \in orphans

LEMMA LostAre == RInv => LostAreNamed
<1> SUFFICES ASSUME RInv, NEW v \in Lost
             PROVE  /\ v \in UsedVars /\ v \notin OnStack
                    /\ \E cl \in DOMAIN upvalues : \E k \in DOMAIN upvalues[cl] :
                         named[cl][k] = v /\ upvalues[cl][k] \in orphans
  BY DEF LostAreNamed
<1>1. PICK cl \in DOMAIN upvalues : \E k \in DOMAIN upvalues[cl] :
             named[cl][k] = v /\ upvalues[cl][k] \in orphans
  BY DEF Lost
<1>2. PICK k \in DOMAIN upvalues[cl] : named[cl][k] = v /\ upvalues[cl][k] \in orphans
  BY <1>1
<1>3. C!IInv /\ C!Shape /\ C!Means /\ C!Layout /\ C!Basic /\ UpvalueTypes /\ C!StoreRight
  BY NowIs, C!SlotsApart, C!StoreIsRight, ClosureAssumption DEF C!IInv
<1>4. Seen[upvalues[cl][k]].location = CLOSED
  BY <1>2, <1>3, SeenIs DEF C!Shape
<1>5. ASSUME v \in OnStack PROVE FALSE
  <2>1. PICK f \in DOMAIN locals : \E i \in DOMAIN locals[f] : locals[f][i] = v
    BY <1>5 DEF OnStack, Elements
  <2>2. PICK i \in DOMAIN locals[f] : locals[f][i] = v
    BY <2>1
  <2>3. Seen[upvalues[cl][k]].location = C!At(f, i) /\ C!At(f, i) \in DOMAIN stack
    BY <2>2, <1>2, <1>3 DEF C!Means, C!Layout
  <2> QED BY <2>3, <1>4, <1>3 DEF C!Basic, CLOSED
<1>6. v \in C!UsedVars
  BY <1>2, <1>3 DEF C!StoreRight, C!NamedNow
<1> QED BY <1>1, <1>5, <1>6, SameWithout

LEMMA LostAreNext == RInv' => LostAreNamed'
BY LostAre, PTL

(* The closed value of an upvalue is the same in both states.              *)
StoreTypes == UsedVars \subseteq Var /\ Store \in [UsedVars -> Value] /\ C!Store = Store

LEMMA SameOnStack ==
  /\ C!OnStack = OnStack
  /\ \A v : C!SlotOf(v) = SlotOf(v) /\ C!UpvalueOf(v) = UpvalueOf(v)
<1>1. C!OnStack = OnStack /\ \A v : C!SlotOf(v) = SlotOf(v)
  BY DEF C!OnStack, OnStack, C!Elements, Elements, C!SlotOf, SlotOf
<1>2. DOMAIN Seen = DOMAIN upvalue
  BY DEF Seen
<1>3. \A v : C!UpvalueOf(v) = UpvalueOf(v)
  BY <1>2 DEF C!UpvalueOf, UpvalueOf
<1> QED BY <1>1, <1>3

LEMMA SameCells == RInv => StoreTypes
<1> SUFFICES ASSUME RInv PROVE StoreTypes
  OBVIOUS
<1>1. C!IInv /\ C!StoreRight /\ C!Shape /\ UpvalueTypes
  BY NowIs, C!StoreIsRight, ClosureAssumption DEF C!IInv
<1>2. UsedVars \subseteq Var /\ C!Store \in [UsedVars -> Value]
  BY <1>1, SameWithout DEF C!StoreRight
<1>3. ASSUME NEW v \in UsedVars PROVE C!Store[v] = Store[v]
  <2>1. C!Store[v] = IF v \in OnStack THEN stack[SlotOf(v)] ELSE Seen[UpvalueOf(v)].closed
    BY SameWithout, SameOnStack DEF C!Store
  <2>2. Store[v] = IF v \in OnStack THEN stack[SlotOf(v)] ELSE upvalue[UpvalueOf(v)].closed
    BY DEF Store
  <2>3. ASSUME v \notin OnStack PROVE UpvalueOf(v) \in DOMAIN upvalue
    <3>1. C!NamedNow(v)
      BY <2>3, <1>1, SameWithout DEF C!StoreRight, C!OnStackNow, OnStack, Elements
    <3>2. PICK cl \in DOMAIN upvalues : \E k \in DOMAIN upvalues[cl] : named[cl][k] = v
      BY <3>1 DEF C!NamedNow
    <3>3. PICK k \in DOMAIN upvalues[cl] : named[cl][k] = v
      BY <3>2
    <3>4. C!UpvalueOf(v) = upvalues[cl][k]
      BY <3>3, <1>1, C!UpvalueIs, ClosureAssumption
    <3> QED BY <3>4, <1>1, SameOnStack, SeenIs DEF C!Shape
  <2> QED BY <2>1, <2>2, <2>3, <1>1, SeenIs
<1>4. DOMAIN Store = UsedVars /\ Store = [v \in UsedVars |-> Store[v]]
  BY DEF Store
<1>5. C!Store = [v \in UsedVars |-> C!Store[v]]
  BY <1>2
<1>6. C!Store = Store
  BY <1>3, <1>4, <1>5
<1> QED BY <1>2, <1>6 DEF StoreTypes

LEMMA SameCellsNext == RInv' => StoreTypes'
BY SameCells, PTL

LostStay == \A v : v \in UsedVars /\ v \in UsedVars' => (v \in Lost <=> v \in Lost')

(* An access to a lost variable counts as none.                            *)
AccessMeans ==
  /\ access = NoAccess => CellAccess = NoAccess
  /\ \A v, val : access = [of |-> v, val |-> val] =>
       CellAccess = IF v \in Lost THEN NoAccess ELSE access

LEMMA AccessIs == AccessMeans
<1>1. ASSUME NEW v, NEW val PROVE [of |-> v, val |-> val] # NoAccess
  <2>1. DOMAIN [of |-> v, val |-> val] = {"of", "val"}
    OBVIOUS
  <2>2. DOMAIN NoAccess = {}
    BY DEF NoAccess
  <2> QED BY <2>1, <2>2
<1> QED BY <1>1 DEF CellAccess, AccessMeans

LEMMA AccessIsNext == AccessMeans'
BY AccessIs, PTL

(* The cells that are not lost, as a function.                             *)
LEMMA CellsAre ==
  ASSUME RInv, RInv'
  PROVE  /\ Cells = [v \in UsedVars \ Lost |-> Store[v]]
         /\ Cells' = [v \in UsedVars' \ Lost' |-> Store'[v]]
         /\ DOMAIN Cells = UsedVars \ Lost /\ DOMAIN Cells' = UsedVars' \ Lost'
         /\ \A v \in UsedVars \ Lost : Cells[v] = Store[v]
         /\ \A v \in UsedVars' \ Lost' : Cells'[v] = Store'[v]
         /\ UsedVars \subseteq Var /\ UsedVars' \subseteq Var
         /\ Store \in [UsedVars -> Value] /\ Store' \in [UsedVars' -> Value]
         /\ Lost \subseteq UsedVars /\ Lost' \subseteq UsedVars'
         /\ Cells' \in [UsedVars' \ Lost' -> Value]
<1>1. /\ Cells = [v \in UsedVars \ Lost |-> Store[v]]
      /\ Cells' = [v \in UsedVars' \ Lost' |-> Store'[v]]
  BY DEF Cells
<1>2. /\ UsedVars \subseteq Var /\ UsedVars' \subseteq Var
      /\ Store \in [UsedVars -> Value] /\ Store' \in [UsedVars' -> Value]
  BY SameCells, SameCellsNext DEF StoreTypes
<1>3. Lost \subseteq UsedVars /\ Lost' \subseteq UsedVars'
  BY LostAre, LostAreNext DEF LostAreNamed
<1>4. Value' = Value
  BY DEF Value
<1> QED BY <1>1, <1>2, <1>3, <1>4

(* A step that only touches cells that are lost.                           *)
LEMMA NoCellChanges ==
  ASSUME RInv, RInv', LostStay, UsedVars' = UsedVars, CellAccess' = NoAccess,
         \A v \in UsedVars \ Lost : Store'[v] = Store[v]
  PROVE  K!Next
<1>1. Lost' = Lost
  BY CellsAre DEF LostStay
<1>2. Cells' = [v \in DOMAIN Cells \ {} |-> Cells[v]]
  BY <1>1, CellsAre
<1>3. K!Forget({})
  BY <1>2 DEF K!Forget, K!NoAccess, NoAccess
<1> QED BY <1>3 DEF K!Next

LEMMA SomeForgotten ==
  ASSUME RInv, RInv', access' = NoAccess,
         \A v \in UsedVars' \ Lost' : v \in UsedVars \ Lost /\ Store'[v] = Store[v]
  PROVE  K!Next
<1> DEFINE T == DOMAIN Cells \ DOMAIN Cells'
<1>1. T \in SUBSET Var /\ DOMAIN Cells \ T = UsedVars' \ Lost'
  BY CellsAre
<1>2. Cells' = [v \in DOMAIN Cells \ T |-> Cells[v]]
  BY <1>1, CellsAre
<1>3. CellAccess' = NoAccess
  BY AccessIsNext DEF AccessMeans
<1>4. K!Forget(T)
  BY <1>2, <1>3 DEF K!Forget, K!NoAccess, NoAccess
<1> QED BY <1>1, <1>4 DEF K!Next

(* A step that Variables allows when all variables have a cell.            *)
LEMMA Restricts ==
  ASSUME RInv, RInv', LostStay, C!V!Next
  PROVE  K!Next
<1> USE CellsAre
<1>1. /\ C!Store = Store /\ C!Store' = Store' /\ DOMAIN Store = UsedVars /\ DOMAIN Store' = UsedVars'
  BY SameCells, SameCellsNext DEF StoreTypes
<1>2. CASE \E S \in SUBSET Var : C!V!Declare(S)
  <2>1. PICK S \in SUBSET Var : C!V!Declare(S)
    BY <1>2
  <2>2. /\ S \cap UsedVars = {} /\ UsedVars' = UsedVars \cup S /\ access' = NoAccess
        /\ \A v \in UsedVars : Store'[v] = Store[v]
    BY <2>1, <1>1 DEF C!V!Declare, C!V!NoAccess, NoAccess
  <2> DEFINE T == DOMAIN Cells' \ DOMAIN Cells
  <2>3. T \in SUBSET Var /\ T \cap DOMAIN Cells = {}
    OBVIOUS
  <2>4. \A v \in DOMAIN Cells : v \in DOMAIN Cells' /\ Cells'[v] = Cells[v]
    BY <2>2 DEF LostStay
  <2>5. Cells' \in [DOMAIN Cells \cup T -> Value]
    <3>1. DOMAIN Cells \cup T = UsedVars' \ Lost'
      BY <2>4
    <3> QED BY <3>1
  <2>6. CellAccess' = NoAccess
    BY <2>2, AccessIsNext DEF AccessMeans
  <2>7. K!Declare(T)
    BY <2>3, <2>4, <2>5, <2>6 DEF K!Declare, K!NoAccess, NoAccess
  <2> QED BY <2>3, <2>7 DEF K!Next
<1>3. CASE \E S \in SUBSET Var : C!V!Forget(S)
  <2>1. PICK S \in SUBSET Var : C!V!Forget(S)
    BY <1>3
  <2>2. Store' = [v \in UsedVars \ S |-> Store[v]] /\ access' = NoAccess
    BY <2>1, <1>1 DEF C!V!Forget, C!V!NoAccess, NoAccess
  <2>3. \A v \in UsedVars' \ Lost' : v \in UsedVars \ Lost /\ Store'[v] = Store[v]
    BY <2>2, <1>1 DEF LostStay
  <2> QED BY <2>2, <2>3, SomeForgotten
<1>4. CASE \E v \in Var : C!V!Read(v)
  <2>1. PICK v \in Var : C!V!Read(v)
    BY <1>4
  <2>2. v \in UsedVars /\ access' = [of |-> v, val |-> Store[v]] /\ Store' = Store
    BY <2>1, <1>1 DEF C!V!Read
  <2>3. UsedVars' = UsedVars
    BY <2>2, <1>1
  <2>4. Lost' = Lost /\ Cells' = Cells
    BY <2>2, <2>3 DEF LostStay
  <2>5. CellAccess' = IF v \in Lost' THEN NoAccess ELSE access'
    BY <2>2, AccessIsNext DEF AccessMeans
  <2>6. CASE v \in Lost
    BY <2>2, <2>3, <2>4, <2>5, <2>6, NoCellChanges
  <2>7. CASE v \notin Lost
    <3>1. K!Read(v)
      BY <2>2, <2>4, <2>5, <2>7 DEF K!Read
    <3> QED BY <3>1 DEF K!Next
  <2> QED BY <2>6, <2>7
<1>5. CASE \E v \in Var, val \in Value : C!V!Assign(v, val)
  <2>1. PICK v \in Var, val \in Value : C!V!Assign(v, val)
    BY <1>5
  <2>2. /\ v \in UsedVars /\ access' = [of |-> v, val |-> val]
        /\ Store' = [Store EXCEPT ![v] = val]
    BY <2>1, <1>1 DEF C!V!Assign
  <2>3. UsedVars' = UsedVars
    BY <2>2, <1>1
  <2>4. Lost' = Lost
    BY <2>3 DEF LostStay
  <2>5. CellAccess' = IF v \in Lost' THEN NoAccess ELSE access'
    BY <2>2, AccessIsNext DEF AccessMeans
  <2>6. CASE v \in Lost
    <3>1. \A w \in UsedVars \ Lost : Store'[w] = Store[w]
      BY <2>2, <2>6
    <3>2. CellAccess' = NoAccess
      BY <2>4, <2>5, <2>6
    <3> QED BY <2>3, <3>1, <3>2, NoCellChanges
  <2>7. CASE v \notin Lost
    <3>1. Cells' = [Cells EXCEPT ![v] = val]
      BY <2>2, <2>3, <2>4, <2>7
    <3>2. K!Assign(v, val)
      BY <2>2, <2>4, <2>5, <2>7, <3>1 DEF K!Assign
    <3> QED BY <3>2 DEF K!Next
  <2> QED BY <2>6, <2>7
<1>6. C!Value = Value
  BY SameWithout
<1> QED BY <1>2, <1>3, <1>4, <1>5, <1>6 DEF C!V!Next
-----------------------------------------------------------------------------
(* Which variables are lost: only an error changes it.                     *)
LEMMA NothingLost ==
  ASSUME UNCHANGED <<upvalues, named, orphans>>
  PROVE  LostStay
BY DEF LostStay, Lost

LEMMA AddedNotLost ==
  ASSUME RInv, RInv', UNCHANGED orphans, OnStack \subseteq OnStack',
         \A cl \in DOMAIN upvalues : \A k \in DOMAIN upvalues[cl] :
           /\ cl \in DOMAIN upvalues' /\ k \in DOMAIN upvalues'[cl]
           /\ upvalues'[cl][k] = upvalues[cl][k] /\ named'[cl][k] = named[cl][k]
  PROVE  LostStay
<1> SUFFICES ASSUME NEW v, v \in UsedVars, v \in UsedVars' PROVE v \in Lost <=> v \in Lost'
  BY DEF LostStay
<1>1. C!StoreRight
  BY NowIs, C!StoreIsRight, ClosureAssumption
<1>2. CASE C!NamedNow(v)
  <2>1. PICK cl \in DOMAIN upvalues : \E k \in DOMAIN upvalues[cl] : named[cl][k] = v
    BY <1>2 DEF C!NamedNow
  <2>2. PICK k \in DOMAIN upvalues[cl] : named[cl][k] = v
    BY <2>1
  <2>3. /\ cl \in DOMAIN upvalues' /\ k \in DOMAIN upvalues'[cl]
        /\ upvalues'[cl][k] = upvalues[cl][k] /\ named'[cl][k] = v
    BY <2>2
  <2>4. v \in Lost <=> upvalues[cl][k] \in orphans
    BY <2>2, LostIs
  <2>5. v \in Lost' <=> upvalues'[cl][k] \in orphans'
    BY <2>3, LostIsNext DEF LostMeans
  <2> QED BY <2>3, <2>4, <2>5
<1>3. CASE ~C!NamedNow(v)
  <2>1. v \in OnStack
    BY <1>1, <1>3, SameWithout DEF C!StoreRight, C!OnStackNow, OnStack, Elements
  <2>2. v \notin Lost /\ v \notin Lost'
    BY <2>1, LostAre, LostAreNext DEF LostAreNamed
  <2> QED BY <2>2
<1> QED BY <1>2, <1>3

LEMMA CollectedNotLost ==
  ASSUME RInv, RInv', orphans' = orphans \cap DOMAIN upvalue', UNCHANGED locals,
         \A cl \in DOMAIN upvalues' :
           cl \in DOMAIN upvalues /\ upvalues'[cl] = upvalues[cl] /\ named'[cl] = named[cl]
  PROVE  LostStay
<1> SUFFICES ASSUME NEW v, v \in UsedVars, v \in UsedVars' PROVE v \in Lost <=> v \in Lost'
  BY DEF LostStay
<1>1. C!StoreRight' /\ C!Shape'
  BY C!StoreIsRightNext, ClosureAssumption DEF RInv, C!IInv
<1>2. OnStack' = OnStack
  BY DEF OnStack
<1>3. CASE C!NamedNow(v)'
  <2>1. PICK cl \in DOMAIN upvalues' : \E k \in DOMAIN upvalues'[cl] : named'[cl][k] = v
    BY <1>3 DEF C!NamedNow
  <2>2. PICK k \in DOMAIN upvalues'[cl] : named'[cl][k] = v
    BY <2>1
  <2>3. /\ cl \in DOMAIN upvalues /\ k \in DOMAIN upvalues[cl]
        /\ upvalues'[cl][k] = upvalues[cl][k] /\ named[cl][k] = v
    BY <2>2
  <2>4. v \in Lost <=> upvalues[cl][k] \in orphans
    BY <2>3, LostIs
  <2>5. v \in Lost' <=> upvalues'[cl][k] \in orphans'
    BY <2>2, LostIsNext DEF LostMeans
  <2>6. upvalues'[cl][k] \in DOMAIN upvalue'
    <3>1. upvalues'[cl][k] \in DOMAIN Seen'
      BY <2>2, <1>1 DEF C!Shape
    <3>2. DOMAIN Seen' = DOMAIN upvalue'
      BY DEF Seen
    <3> QED BY <3>1, <3>2
  <2> QED BY <2>3, <2>4, <2>5, <2>6
<1>4. CASE ~C!NamedNow(v)'
  <2>1. C!OnStackNow(v)'
    <3>1. v \in C!UsedVars'
      BY SameUsedNext DEF SameUsed
    <3> QED BY <3>1, <1>1, <1>4 DEF C!StoreRight
  <2>2. v \in OnStack
    BY <2>1, <1>2 DEF C!OnStackNow, OnStack, Elements
  <2>3. v \notin Lost /\ v \notin Lost'
    BY <2>2, <1>2, LostAre, LostAreNext DEF LostAreNamed
  <2> QED BY <2>3
<1> QED BY <1>3, <1>4
-----------------------------------------------------------------------------
(* Steps that are those of ValpClosures, with the orphans closed.          *)
LEMMA PlainMaps ==
  ASSUME RInv, RInv', UNCHANGED <<global, orphans>>, Constant \/ Pop \/ define_variable
  PROVE  K!Next
<1>1. UNCHANGED <<upvalues, named, orphans>>
  BY DEF Constant, Pop, define_variable, machine
<1>2. C!IInv /\ C!IInv' /\ (C!Constant \/ C!Pop \/ C!define_variable)
  BY ConstantLine, PopLine, DefineVariableLine DEF RInv
<1>3. C!V!Next
  BY <1>2, C!ConstantMaps, C!PopMaps, C!DefineVariableMaps, ClosureAssumption
<1> QED BY <1>1, <1>3, NothingLost, Restricts

LEMMA LocalMaps ==
  ASSUME RInv, RInv', UNCHANGED <<global, orphans>>, NEW i, GetLocal(i) \/ SetLocal(i)
  PROVE  K!Next
<1>1. UNCHANGED <<upvalues, named, orphans>>
  BY DEF GetLocal, SetLocal
<1>2. C!IInv /\ C!IInv' /\ (C!GetLocal(i) \/ C!SetLocal(i))
  BY GetLocalLine, SetLocalLine DEF RInv
<1>3. C!V!Next
  BY <1>2, C!GetLocalMaps, C!SetLocalMaps, ClosureAssumption
<1> QED BY <1>1, <1>3, NothingLost, Restricts

LEMMA CallReturnMaps ==
  ASSUME RInv, RInv', UNCHANGED <<global, orphans>>, NEW argc \in Nat,
         Call(argc) \/ end_scope \/ Return
  PROVE  K!Next
<1>1. UNCHANGED <<upvalues, named, orphans>>
  BY DEF Call, end_scope, Return
<1>2. C!IInv /\ C!IInv' /\ (C!Call(argc) \/ C!end_scope \/ C!Return)
  BY CallLine, EndScopeLine, ReturnLine DEF RInv
<1>3. C!V!Next
  BY <1>2, C!CallMaps, C!EndScopeMaps, C!ReturnMaps, ClosureAssumption
<1> QED BY <1>1, <1>3, NothingLost, Restricts

LEMMA SetGlobalMaps == ASSUME RInv, RInv', SetGlobal PROVE K!Next
<1>1. UNCHANGED <<upvalues, named, orphans>>
  BY DEF SetGlobal
<1>2. C!IInv /\ C!IInv' /\ C!Pop
  BY SetGlobalLine DEF RInv
<1>3. C!V!Next
  BY <1>2, C!PopMaps, ClosureAssumption
<1> QED BY <1>1, <1>3, NothingLost, Restricts

LEMMA MakeClosureMapsLine ==
  ASSUME RInv, RInv', UNCHANGED <<global, orphans>>, NEW n \in Nat, MakeClosure(n)
  PROVE  K!Next
<1>1. C!IInv /\ C!IInv' /\ C!MakeClosure(n)
  BY MakeClosureLine DEF RInv
<1>2. C!V!Next
  BY <1>1, C!MakeClosureMaps, ClosureAssumption
<1>3. PICK cl \in Closure \ DOMAIN upvalues :
        /\ upvalues' = [x \in DOMAIN upvalues \cup {cl} |-> IF x = cl THEN <<>> ELSE upvalues[x]]
        /\ named' = [x \in DOMAIN named \cup {cl} |-> IF x = cl THEN <<>> ELSE named[x]]
  BY DEF MakeClosure
<1>4. DOMAIN named = DOMAIN upvalues
  BY NowIs DEF TypeOK
<1>5. \A x \in DOMAIN upvalues :
        x \in DOMAIN upvalues' /\ upvalues'[x] = upvalues[x] /\ named'[x] = named[x]
  BY <1>3, <1>4
<1>6. OnStack \subseteq OnStack'
  <2>1. CASE UNCHANGED locals
    BY <2>1 DEF OnStack
  <2>2. CASE \E new \in NewVars(1) : locals' = [locals EXCEPT ![Len(locals)] = @ \o new]
    <3>1. PICK new \in C!NewVars(1) : locals' = [locals EXCEPT ![Len(locals)] = @ \o new]
      BY <2>2, SameOf
    <3>2. ASSUME NEW f \in DOMAIN locals, NEW i \in DOMAIN locals[f]
          PROVE  f \in DOMAIN locals' /\ i \in DOMAIN locals'[f] /\ locals'[f][i] = locals[f][i]
      <4>1. f \in DOMAIN locals' /\ (f # Len(locals) => locals'[f] = locals[f])
        BY <3>1
      <4>2. CASE f = Len(locals)
        <5>1. locals'[f] = locals[f] \o new
          BY <4>2, <3>1
        <5>2. locals[f] \in Seq(Var) /\ new \in Seq(Var)
          <6>1. locals[f] \in Seq(Var)
            BY NowIs DEF C!Basic
          <6>2. 1 \in Nat
            OBVIOUS
          <6>3. new \in Seq(Var)
            BY <3>1, <6>2, C!NewVarsAre, ClosureAssumption
          <6> QED BY <6>1, <6>3
        <5> QED BY <4>1, <5>1, <5>2, ConcatProperties
      <4> QED BY <4>1, <4>2
    <3> QED BY <3>2 DEF OnStack, Elements
  <2> QED BY <2>1, <2>2 DEF MakeClosure
<1> QED BY <1>2, <1>5, <1>6, AddedNotLost, Restricts

LEMMA CaptureMapsLine ==
  ASSUME RInv, RInv', UNCHANGED <<global, orphans>>, Capture
  PROVE  K!Next
<1>1. C!IInv /\ C!IInv' /\ C!Capture
  BY CaptureLine DEF RInv
<1>2. C!V!Next
  BY <1>1, C!CaptureMaps, ClosureAssumption
<1>3. PICK u, v : Captured(u, v)
  BY DEF Capture
<1>4. UNCHANGED locals
  BY DEF Capture
<1>5. OnStack \subseteq OnStack'
  BY <1>4 DEF OnStack
<1> DEFINE to == Peek(0)
<1>6. upvalues' = [upvalues EXCEPT ![to] = Append(@, u)] /\ named' = [named EXCEPT ![to] = Append(@, v)]
  BY <1>3 DEF Captured
<1> HIDE DEF to
<1>7. C!Shape /\ C!Basic /\ TypeOK
  BY NowIs DEF C!IInv
<1>8. ASSUME NEW cl \in DOMAIN upvalues, NEW k \in DOMAIN upvalues[cl]
      PROVE  /\ cl \in DOMAIN upvalues' /\ k \in DOMAIN upvalues'[cl]
             /\ upvalues'[cl][k] = upvalues[cl][k] /\ named'[cl][k] = named[cl][k]
  <2>1. /\ upvalues[cl] \in Seq(Upvalue) /\ named[cl] \in Seq(Var) /\ cl \in DOMAIN named
        /\ Len(named[cl]) = Len(upvalues[cl])
    BY <1>7 DEF C!Shape, C!Basic
  <2>2. CASE cl # to
    BY <2>1, <2>2, <1>6
  <2>3. CASE cl = to
    <3>1. upvalues'[cl] = Append(upvalues[cl], u) /\ named'[cl] = Append(named[cl], v)
      BY <2>1, <2>3, <1>6
    <3>2. k \in 1 .. Len(upvalues[cl]) /\ k \in 1 .. Len(named[cl]) /\ cl \in DOMAIN upvalues'
      BY <2>1, <1>6
    <3>3. DOMAIN Append(upvalues[cl], u) = 1 .. Len(upvalues[cl]) + 1
      BY <2>1
    <3>4. Append(upvalues[cl], u)[k] = upvalues[cl][k] /\ Append(named[cl], v)[k] = named[cl][k]
      BY <2>1, <3>2
    <3>5. k \in 1 .. Len(upvalues[cl]) + 1
      BY <2>1, <3>2
    <3> QED BY <3>1, <3>2, <3>3, <3>4, <3>5
  <2> QED BY <2>2, <2>3
<1> QED BY <1>2, <1>5, <1>8, AddedNotLost, Restricts

LEMMA CollectMapsLine == ASSUME RInv, RInv', CollectLine PROVE K!Next
<1>1. C!IInv /\ C!IInv' /\ C!Collect
  BY CollectLineStep DEF RInv
<1>2. C!V!Next
  BY <1>1, C!CollectMaps, ClosureAssumption
<1>3. orphans' = orphans \cap DOMAIN upvalue' /\ UNCHANGED locals
  BY DEF CollectLine, Collect
<1>4. PICK S \in SUBSET DOMAIN upvalues :
        /\ upvalues' = [cl \in DOMAIN upvalues \ S |-> upvalues[cl]]
        /\ named' = [cl \in DOMAIN upvalues \ S |-> named[cl]]
  BY DEF CollectLine, Collect
<1>5. \A cl \in DOMAIN upvalues' :
        cl \in DOMAIN upvalues /\ upvalues'[cl] = upvalues[cl] /\ named'[cl] = named[cl]
  BY <1>4
<1> QED BY <1>2, <1>3, <1>5, CollectedNotLost, Restricts
-----------------------------------------------------------------------------
(* Steps that are not of ValpClosures.                                     *)
LEMMA PushMaps ==
  ASSUME RInv, RInv', Running, NEW v \in Live, Push(v), UNCHANGED <<upvalue, orphans>>,
         UNCHANGED <<frames, upvalues, locals, named>>
  PROVE  UsedVars' = UsedVars /\ Store' = Store /\ C!Store' = C!Store /\ LostStay
<1>1. UNCHANGED Seen
  BY SeenStays
<1>2. v \in Value
  BY NowIs DEF Live, Value, C!Basic
<1>3. C!IInv /\ C!IInv' /\ C!Running /\ v \in C!Value /\ C!Push(v)
  BY <1>2, NowIs, SameWithout, SameOf DEF RInv
<1>4. C!UsedVars' = C!UsedVars /\ C!Store' = C!Store
  BY <1>1, <1>3, C!PushKeeps, ClosureAssumption
<1>5. UsedVars' = UsedVars
  BY <1>4, SameWithout, SameUsedNext DEF SameUsed
<1>6. Store' = Store
  BY <1>4, SameCells, SameCellsNext DEF StoreTypes
<1> QED BY <1>4, <1>5, <1>6, NothingLost

(* Something is pushed that is no variable.                                *)
LEMMA ValuePushed ==
  ASSUME RInv, RInv', Running, NEW v \in Live, Push(v), UNCHANGED <<upvalue, orphans>>,
         UNCHANGED <<frames, upvalues, locals, named>>, access' = NoAccess
  PROVE  K!Next
<1>1. UsedVars' = UsedVars /\ Store' = Store /\ LostStay
  BY PushMaps
<1>2. CellAccess' = NoAccess
  BY AccessIsNext DEF AccessMeans
<1> QED BY <1>1, <1>2, NoCellChanges

LEMMA GetGlobalMaps == ASSUME RInv, RInv', GetGlobal PROVE K!Next
<1>1. global \in Live
  BY StackLive
<1> QED BY <1>1, ValuePushed DEF GetGlobal

LEMMA GetOrphanMaps == ASSUME RInv, RInv', NEW k, GetOrphan(k) PROVE K!Next
<1>1. PICK v \in Data \cup {NIL} \cup DOMAIN upvalues : Push(v)
  BY DEF GetOrphan
<1>2. v \in Live
  BY DEF Live
<1> QED BY <1>1, <1>2, ValuePushed DEF GetOrphan, AboveTop

LEMMA SetOrphanMaps == ASSUME RInv, RInv', NEW k, SetOrphan(k) PROVE K!Next
<1>1. /\ UNCHANGED <<stack, frames, upvalue, upvalues, locals, named, orphans>>
      /\ access' = NoAccess
  BY DEF SetOrphan, machine
<1>2. UsedVars' = UsedVars /\ LostStay
  BY <1>1, NothingLost DEF UsedVars, OnStack
<1>3. Store' = Store
  BY <1>1 DEF Store, UsedVars, OnStack, SlotOf, UpvalueOf
<1>4. CellAccess' = NoAccess
  BY <1>1, AccessIsNext DEF AccessMeans
<1> QED BY <1>2, <1>3, <1>4, NoCellChanges

(* After an error the variables that are left are those in upvalues that   *)
(* were closed before.                                                     *)
LEMMA RuntimeErrorMaps == ASSUME RInv, RInv', runtime_error PROVE K!Next
<1>1. /\ locals' = <<>> /\ access' = NoAccess /\ orphans' = orphans \cup Elements(open)
      /\ UNCHANGED <<upvalue, upvalues, named>>
  BY DEF runtime_error
<1>2. /\ C!IInv /\ C!StoreRight /\ C!StoreRight' /\ C!Shape /\ C!OpenExact /\ UpvalueTypes
      /\ C!Store = Store /\ C!Store' = Store'
  BY NowIs, C!StoreIsRight, C!StoreIsRightNext, SameCells, SameCellsNext, ClosureAssumption
     DEF RInv, C!IInv, StoreTypes
<1>3. ASSUME NEW v, v \in UsedVars', v \notin Lost'
      PROVE  v \in UsedVars /\ v \notin Lost /\ Store'[v] = Store[v]
  <2>1. C!NamedNow(v)'
    <3>1. v \in C!UsedVars'
      BY <1>3, SameUsedNext DEF SameUsed
    <3>2. ~C!OnStackNow(v)'
      BY <1>1 DEF C!OnStackNow
    <3> QED BY <3>1, <3>2, <1>2 DEF C!StoreRight
  <2>2. PICK cl \in DOMAIN upvalues : \E k \in DOMAIN upvalues[cl] : named[cl][k] = v
    BY <2>1, <1>1 DEF C!NamedNow
  <2>3. PICK k \in DOMAIN upvalues[cl] : named[cl][k] = v
    BY <2>2
  <2> DEFINE u == upvalues[cl][k]
  <2>4. u \notin orphans'
    BY <1>1, <1>3, <2>3, LostIsNext DEF LostMeans
  <2>5. u \in DOMAIN upvalue /\ DOMAIN Seen = DOMAIN upvalue
    BY <1>2, SeenIs DEF C!Shape
  <2>6. v \in UsedVars
    <3>1. v \in C!UsedVars
      BY <2>3, <1>2 DEF C!StoreRight, C!NamedNow
    <3> QED BY <3>1, SameWithout
  <2>7. v \notin Lost
    BY <1>1, <2>3, <2>4, LostIs
  <2>8. Seen[u].location = CLOSED
    <3>1. ~\E i \in DOMAIN open : open[i] = u
      BY <1>1, <2>4 DEF Elements
    <3> QED BY <3>1, <2>5, <1>2, SameWithout DEF C!OpenExact
  <2>9. Seen'[u] = Seen[u]
    BY <1>1, <2>4, <2>5 DEF Seen
  <2>10. C!Cell(cl, k)' = C!Cell(cl, k)
    BY <1>1, <2>8, <2>9, SameWithout DEF C!Cell, C!Found, C!CLOSED, CLOSED
  <2>11. Store[v] = C!Cell(cl, k)
    BY <2>3, <1>2 DEF C!StoreRight
  <2>12. Store'[v] = C!Cell(cl, k)'
    BY <2>3, <1>1, <1>2 DEF C!StoreRight
  <2> QED BY <2>6, <2>7, <2>10, <2>11, <2>12
<1> QED BY <1>1, <1>3, SomeForgotten

(* The next line: a new variable, in slot 0.                               *)
LEMMA InterpretMaps == ASSUME RInv, RInv', interpret PROVE K!Next
<1>1. /\ frames = <<>> /\ access' = NoAccess
      /\ UNCHANGED <<open, upvalue, capturing, global, orphans>>
  BY DEF interpret
<1>2. PICK cl \in Closure \ DOMAIN upvalues :
        /\ upvalues' = [x \in DOMAIN upvalues \cup {cl} |-> IF x = cl THEN <<>> ELSE upvalues[x]]
        /\ named' = [x \in DOMAIN named \cup {cl} |-> IF x = cl THEN <<>> ELSE named[x]]
  BY DEF interpret
<1>3. C!IInv /\ C!IInv' /\ C!Basic /\ UNCHANGED Seen
  BY <1>1, NowIs, SeenStays DEF RInv
<1>4. DOMAIN locals = {} /\ DOMAIN named = DOMAIN upvalues
  BY <1>1, <1>3 DEF C!Basic
<1>5. \A x \in DOMAIN upvalues :
        x \in DOMAIN upvalues' /\ upvalues'[x] = upvalues[x] /\ named'[x] = named[x]
  BY <1>2, <1>4
<1>6. C!UsedVars \subseteq C!UsedVars' /\ \A v \in C!UsedVars : C!Store'[v] = C!Store[v]
  BY <1>3, <1>4, <1>5, C!Kept, ClosureAssumption
<1>7. C!V!Next
  BY <1>1, <1>3, <1>6, C!Adds, ClosureAssumption, SameWithout
<1>8. OnStack \subseteq OnStack'
  BY <1>4 DEF OnStack
<1> QED BY <1>1, <1>5, <1>7, <1>8, AddedNotLost, Restricts
-----------------------------------------------------------------------------
(* An access through an upvalue.                                           *)
LEMMA GetUpvalueMapsLine ==
  ASSUME RInv, RInv', UNCHANGED <<global, orphans>>, NEW k, ~AboveTop(k), GetUpvalue(k)
  PROVE  K!Next
<1> DEFINE u == upvalues[Top(frames).closure][k]
           v == named[Top(frames).closure][k]
<1>1. /\ Running /\ k \in DOMAIN upvalues[Top(frames).closure] /\ Push(Found(u))
      /\ access' = [of |-> v, val |-> Found(u)]
      /\ UNCHANGED <<frames, open, upvalue, upvalues, capturing, locals, named>>
  BY DEF GetUpvalue
<1>2. u \in DOMAIN upvalue /\ (upvalue[u].location # CLOSED => upvalue[u].location \in DOMAIN stack)
  BY <1>1, PointsInside
<1>3. Found(u) \in Live
  BY <1>2, NowIs, StackLive DEF AllLive, Found
<1>4. UsedVars' = UsedVars /\ Store' = Store /\ LostStay
  BY <1>1, <1>3, PushMaps
<1>5. Top(frames).closure \in DOMAIN upvalues
  BY <1>1, NowIs, C!TopIsHighest, ClosureAssumption, SameWithout DEF C!IInv, C!Shape, Running
<1>6. CASE u \in orphans
  <2>1. v \in Lost /\ v \in UsedVars
    BY <1>1, <1>5, <1>6, LostIs, LostAre DEF LostAreNamed
  <2>2. CellAccess' = NoAccess
    BY <2>1, <1>1, <1>4, AccessIsNext DEF AccessMeans, LostStay
  <2> QED BY <2>2, <1>4, NoCellChanges
<1>7. CASE u \notin orphans
  <2>1. Seen[u] = upvalue[u] /\ UNCHANGED Seen
    BY <1>1, <1>2, <1>7, NowIs, SeenIs, SeenStays
  <2>2. C!Found(u) = Found(u)
    BY <2>1, SameWithout DEF C!Found, Found, C!CLOSED, CLOSED
  <2>3. C!GetUpvalue(k)
    BY <2>1, <2>2, <1>1, SameWithout, SameOf DEF C!GetUpvalue
  <2>4. C!V!Next
    BY <2>3, NowIs, C!GetUpvalueMaps, ClosureAssumption DEF RInv
  <2> QED BY <2>4, <1>4, Restricts
<1> QED BY <1>6, <1>7

LEMMA SetUpvalueMapsLine ==
  ASSUME RInv, RInv', UNCHANGED <<global, orphans>>, NEW k, ~AboveTop(k), SetUpvalue(k)
  PROVE  K!Next \/ \E v \in OnStack : Overwrite(v)
<1> DEFINE u == upvalues[Top(frames).closure][k]
           v == named[Top(frames).closure][k]
<1>1. /\ Running /\ k \in DOMAIN upvalues[Top(frames).closure] /\ Temporaries >= 1
      /\ access' = [of |-> v, val |-> Peek(0)]
      /\ IF upvalue[u].location = CLOSED
         THEN upvalue' = [upvalue EXCEPT ![u].closed = Peek(0)] /\ UNCHANGED stack
         ELSE stack' = [stack EXCEPT ![upvalue[u].location] = Peek(0)] /\ UNCHANGED upvalue
      /\ UNCHANGED <<frames, open, upvalues, capturing, locals, named, orphans>>
  BY DEF SetUpvalue
<1>2. u \in DOMAIN upvalue /\ (upvalue[u].location # CLOSED => upvalue[u].location \in DOMAIN stack)
  BY <1>1, PointsInside
<1>3. Top(frames).closure \in DOMAIN upvalues
  BY <1>1, NowIs, C!TopIsHighest, ClosureAssumption, SameWithout DEF C!IInv, C!Shape, Running
<1>4. LostStay /\ UsedVars' = UsedVars /\ C!IInv /\ C!IInv' /\ UpvalueTypes
  BY <1>1, NowIs, NothingLost DEF UsedVars, OnStack, RInv
<1> HIDE DEF u, v
<1>5. CASE upvalue[u].location = CLOSED
  <2>1. \A x \in DOMAIN upvalue : upvalue[x] \in [location : Nat, closed : Value]
    BY <1>4 DEF UpvalueTypes
  <2>2. /\ upvalue' = [upvalue EXCEPT ![u] = [upvalue[u] EXCEPT !.closed = Peek(0)]]
        /\ UNCHANGED stack
    BY <1>1, <1>5
  <2>3. Seen' = [Seen EXCEPT ![u] = [Seen[u] EXCEPT !.closed = Peek(0)]]
    <3>1. DOMAIN Seen = DOMAIN upvalue /\ DOMAIN Seen' = DOMAIN upvalue
      BY <2>2 DEF Seen
    <3>2. Seen' = [x \in DOMAIN upvalue |-> Seen'[x]]
      BY <3>1 DEF Seen
    <3>3. \A x \in DOMAIN upvalue : x # u => Seen'[x] = Seen[x]
      BY <2>2, <1>1 DEF Seen
    <3>4. upvalue'[u] = [upvalue[u] EXCEPT !.closed = Peek(0)] /\ upvalue'[u].closed = Peek(0)
      BY <2>1, <2>2, <1>2
    <3>5. Seen'[u] = [Seen[u] EXCEPT !.closed = Peek(0)]
      <4>1. CASE u \in orphans
        <5>1. /\ Seen[u] = [location |-> CLOSED, closed |-> upvalue[u].closed]
              /\ Seen'[u] = [location |-> CLOSED, closed |-> Peek(0)]
          BY <4>1, <3>4, <3>1, <1>1, <1>2 DEF Seen
        <5> QED BY <5>1
      <4>2. CASE u \notin orphans
        BY <4>2, <3>4, <3>1, <1>1, <1>2 DEF Seen
      <4> QED BY <4>1, <4>2
    <3> QED BY <3>1, <3>2, <3>3, <3>5, <1>2
  <2>4. Seen[u].location = CLOSED
    BY <1>2, <1>4, <1>5, SeenIs
  <2>5. C!SetUpvalue(k)
    BY <2>2, <2>3, <2>4, <1>1, SameWithout, SameOf DEF C!SetUpvalue, u, v
  <2>6. C!V!Next
    BY <2>5, <1>4, C!SetUpvalueMaps, ClosureAssumption
  <2> QED BY <2>6, <1>4, Restricts
<1>6. CASE upvalue[u].location # CLOSED /\ u \notin orphans
  <2>1. Seen[u] = upvalue[u] /\ UNCHANGED Seen
    BY <1>1, <1>2, <1>4, <1>6, SeenIs, SeenStays
  <2>2. C!SetUpvalue(k)
    BY <2>1, <1>1, <1>6, SameWithout, SameOf DEF C!SetUpvalue, u, v
  <2>3. C!V!Next
    BY <2>2, <1>4, C!SetUpvalueMaps, ClosureAssumption
  <2> QED BY <2>3, <1>4, Restricts
<1>7. CASE upvalue[u].location # CLOSED /\ u \in orphans
  <2> DEFINE slot == upvalue[u].location
  <2>1. stack' = [stack EXCEPT ![slot] = Peek(0)] /\ UNCHANGED upvalue /\ UNCHANGED Seen
    BY <1>1, <1>7, SeenStays
  <2>2. v \in Lost /\ v \in UsedVars /\ UpvalueOf(v) = u
    BY <1>1, <1>3, <1>4, <1>7, LostIs, LostAre, C!UpvalueIs, ClosureAssumption, SameOnStack
       DEF LostAreNamed, u, v
  <2>3. Lost' = Lost /\ v \in Lost' /\ CellAccess' = NoAccess
    <3>1. v \in Lost'
      BY <2>2, <1>4 DEF LostStay
    <3>2. CellAccess' = NoAccess
      BY <3>1, <1>1, AccessIsNext DEF AccessMeans
    <3> QED BY <3>1, <3>2, <1>4, CellsAre DEF LostStay
  <2>4. Peek(0) \in C!Value
    BY <1>1, CutLive, SameWithout
  <2>5. C!Store = Store /\ C!Store' = Store' /\ C!Layout
    BY <1>4, SameCells, SameCellsNext, C!SlotsApart, ClosureAssumption DEF StoreTypes, C!IInv
  <2>6. CASE \E f \in DOMAIN locals : \E i \in DOMAIN locals[f] : C!At(f, i) = slot
    <3>0. PICK f \in DOMAIN locals : \E i \in DOMAIN locals[f] : C!At(f, i) = slot
      BY <2>6
    <3>1. PICK i \in DOMAIN locals[f] : C!At(f, i) = slot
      BY <3>0
    <3> DEFINE w == locals[f][i]
    <3>2. Store' = [Store EXCEPT ![w] = Peek(0)]
      <4>1. stack' = [stack EXCEPT ![C!At(f, i)] = Peek(0)]
        BY <3>1, <2>1
      <4>2. UNCHANGED <<frames, Seen, upvalues, locals, named>>
        BY <2>1, <1>1
      <4>3. C!Store' = [C!Store EXCEPT ![locals[f][i]] = Peek(0)]
        BY <4>1, <4>2, <2>4, <1>4, C!StackAssigned, ClosureAssumption
      <4> QED BY <4>3, <2>5
    <3>3. w \in OnStack
      BY DEF OnStack, Elements
    <3>4. SlotOf(w) = slot
      BY <3>1, <1>4, C!SlotIs, ClosureAssumption, SameOnStack
    <3> HIDE DEF w
    <3>5. w \in UsedVars /\ w \notin Lost
      BY <3>3, LostAre DEF LostAreNamed, UsedVars
    <3>6. Cells' = [Cells EXCEPT ![w] = Peek(0)]
      BY <3>2, <3>5, <2>3, <1>4, CellsAre
    <3>7. access' # NoAccess /\ access'.of = v /\ access'.val = Peek(0)
      <4>1. DOMAIN access' = {"of", "val"} /\ DOMAIN NoAccess = {}
        BY <1>1 DEF NoAccess
      <4> QED BY <4>1, <1>1
    <3>8. Overwrite(w)
      BY <3>4, <3>6, <3>7, <2>2, <2>3 DEF Overwrite
    <3> QED BY <3>3, <3>8
  <2>7. CASE ~\E f \in DOMAIN locals : \E i \in DOMAIN locals[f] : C!At(f, i) = slot
    <3>1. \A f \in DOMAIN locals : \A i \in DOMAIN locals[f] :
            stack'[C!At(f, i)] = stack[C!At(f, i)]
      BY <2>1, <2>5, <2>7 DEF C!Layout
    <3>2. Store' = Store
      BY <3>1, <2>1, <2>5, <1>1, <1>4, C!SameStore, ClosureAssumption
    <3> QED BY <3>2, <2>3, <1>4, NoCellChanges
  <2> QED BY <2>6, <2>7
<1> QED BY <1>5, <1>6, <1>7
-----------------------------------------------------------------------------
LEMMA StepMaps ==
  ASSUME RInv, RInv', ReplNext
  PROVE  K!Next \/ \E v \in OnStack : Overwrite(v)
<1>1. CASE SetGlobal \/ GetGlobal \/ runtime_error \/ interpret \/ CollectLine
  BY <1>1, SetGlobalMaps, GetGlobalMaps, RuntimeErrorMaps, InterpretMaps, CollectMapsLine
<1>2. CASE \E k \in 1 .. MaxUpvalues : GetOrphan(k) \/ SetOrphan(k)
  BY <1>2, GetOrphanMaps, SetOrphanMaps
<1>3. CASE UNCHANGED <<global, orphans>> /\ (Constant \/ Pop \/ define_variable)
  BY <1>3, PlainMaps
<1>4. CASE UNCHANGED <<global, orphans>> /\ (end_scope \/ Return)
  <2>1. 0 \in Nat
    OBVIOUS
  <2> QED BY <2>1, <1>4, CallReturnMaps
<1>5. CASE UNCHANGED <<global, orphans>> /\ Capture
  BY <1>5, CaptureMapsLine
<1>6. CASE UNCHANGED <<global, orphans>> /\ \E i \in 1 .. MaxStack : GetLocal(i) \/ SetLocal(i)
  BY <1>6, LocalMaps
<1>7. CASE /\ UNCHANGED <<global, orphans>>
           /\ \E k \in 1 .. MaxUpvalues : ~AboveTop(k) /\ (GetUpvalue(k) \/ SetUpvalue(k))
  BY <1>7, GetUpvalueMapsLine, SetUpvalueMapsLine
<1>8. CASE UNCHANGED <<global, orphans>> /\ \E n \in 0 .. MaxUpvalues : MakeClosure(n)
  <2>1. PICK n \in 0 .. MaxUpvalues : MakeClosure(n)
    BY <1>8
  <2>2. n \in Nat
    BY ClosureAssumption
  <2> QED BY <1>8, <2>1, <2>2, MakeClosureMapsLine
<1>9. CASE UNCHANGED <<global, orphans>> /\ \E argc \in 0 .. MaxArgs : Call(argc)
  <2>1. PICK argc \in 0 .. MaxArgs : Call(argc)
    BY <1>9
  <2>2. argc \in Nat
    BY ClosureAssumption
  <2> QED BY <1>9, <2>1, <2>2, CallReturnMaps
<1> QED BY <1>1, <1>2, <1>3, <1>4, <1>5, <1>6, <1>7, <1>8, <1>9 DEF ReplNext

LEMMA LineMaps == RInv /\ RInv' /\ [ReplNext]_replVars => [K!Next \/ \E v \in OnStack : Overwrite(v)]_(K!vars)
<1> SUFFICES ASSUME RInv, RInv', [ReplNext]_replVars
             PROVE  (K!Next \/ \E v \in OnStack : Overwrite(v)) \/ UNCHANGED K!vars
  OBVIOUS
<1>1. CASE ReplNext
  BY <1>1, StepMaps
<1>2. CASE UNCHANGED replVars
  <2>1. /\ UNCHANGED <<stack, frames, upvalue, upvalues, locals, named, access>>
        /\ UNCHANGED orphans
    BY <1>2 DEF replVars, vars, machine
  <2>2. UNCHANGED Lost
    BY <2>1 DEF Lost
  <2>3. UNCHANGED <<UsedVars, Store>>
    BY <2>1 DEF UsedVars, Store, OnStack, SlotOf, UpvalueOf
  <2>4. UNCHANGED K!vars
    BY <2>1, <2>2, <2>3 DEF K!vars, Cells, CellAccess
  <2> QED BY <2>4
<1> QED BY <1>1, <1>2

LEMMA LinesBegin == ReplInit => K!Init
<1> SUFFICES ASSUME ReplInit PROVE K!Init
  OBVIOUS
<1>1. RInv /\ access = NoAccess /\ orphans = {}
  BY InitLine DEF ReplInit, Init
<1>2. CellAccess = NoAccess
  BY <1>1, AccessIs DEF AccessMeans
<1>3. Cells \in [UsedVars \ Lost -> Value] /\ UsedVars \ Lost \in SUBSET Var
  BY <1>1, SameCells DEF Cells, StoreTypes
<1> QED BY <1>2, <1>3 DEF K!Init, K!NoAccess, NoAccess

(* Whatever lines fail, and wherever: every variable that was not open     *)
(* when a line failed is a cell of its own, in lines before and after and  *)
(* for all closures that live on in globals.  What the code may get wrong  *)
(* is bounded: assigning a variable that was open then writes over one     *)
(* variable of the running line, the one now in its slot, and no other.    *)
THEOREM OthersAreCellsHolds == ReplSpec => OthersAreCells
<1>1. ReplSpec => K!Init
  BY LinesBegin, PTL DEF ReplSpec
<1>2. ReplSpec => [][K!Next \/ \E v \in OnStack : Overwrite(v)]_(K!vars)
  BY ReplInvariantHolds, LineMaps, PTL DEF ReplSpec
<1> QED BY <1>1, <1>2, PTL DEF OthersAreCells
=============================================================================
