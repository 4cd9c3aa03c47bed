----------------------------- MODULE ValpScopes -----------------------------
(***************************************************************************)
(* How valp_compiler.c resolves names: the chain of compilers, one per     *)
(* function being compiled, each with its locals in the order of their     *)
(* stack slots, its upvalues and its loops.  One action per declaration,   *)
(* statement or expression that touches them; the grammar is in the guards.*)
(*                                                                         *)
(* "decl", "scopes", "taken" and the "since" of a loop are not in the      *)
(* program.  They say what the source means: which declaration a local or  *)
(* an upvalue stands for, the declarations in scope, innermost last, those *)
(* whose slots an OP_CLOSURE already emitted captures, and the number of   *)
(* locals when a loop began.                                               *)
(***************************************************************************)
EXTENDS Integers, Sequences, FiniteSets

CONSTANTS
  Name,        \* identifiers
  self, anon,  \* the names of slot 0: "self", and "" in a function
  Decl,        \* identities of declarations
  MaxLevel, MaxLocals, MaxDepth, MaxLoops, MaxParams  \* bounds of the model

ASSUME ScopeAssumption ==
  /\ self \notin Name /\ anon \notin Name \cup {self} /\ Decl # {}
  /\ {MaxLevel, MaxLocals, MaxDepth, MaxLoops, MaxParams} \subseteq Nat

VARIABLES
  compilers,  \* the chain from the script's compiler to "current"
  scopes,     \* the declarations in scope: name -> declaration, per scope
  taken,      \* the declarations some closure captures
  emitted     \* the instructions the last step emitted

vars == <<compilers, scopes, taken, emitted>>
-----------------------------------------------------------------------------
Last(s) == s[Len(s)]
Cut(s, n) == SubSeq(s, 1, Len(s) - n)
current == Last(compilers)
Level == Len(compilers)
Update(comp) == compilers' = [compilers EXCEPT ![Level] = comp]

UNINITIALIZED == -1
Initializing == Last(current.locals).depth = UNINITIALIZED
Loops == current.loops

Local(name, depth, d) == [name |-> name, depth |-> depth, is_captured |-> FALSE, decl |-> d]

(* init_compiler: slot 0 is named self but in a function.                  *)
NewCompiler(type, d) ==
  [type |-> type, scope_depth |-> 0, loops |-> <<>>, upvalues |-> <<>>,
   locals |-> <<Local(IF type = "function" THEN anon ELSE self, 0, d)>>]

Bind(name, d) == [x \in {name} |-> d]
Extend(scope, name, d) == [x \in DOMAIN scope \cup {name} |-> IF x = name THEN d ELSE scope[x]]

DeclsOf(locals) == {locals[i].decl : i \in DOMAIN locals}
UsedDecls == UNION {DeclsOf(compilers[n].locals) : n \in DOMAIN compilers}

(* n declarations that were not there before; which ones does not matter.  *)
NewDecls(n) ==
  LET new == {s \in [1 .. n -> Decl \ UsedDecls] : \A i, j \in 1 .. n : s[i] = s[j] => i = j}
  IN  {s \in new : s = CHOOSE t \in new : TRUE}

(* compile: the compiler of the script.                                    *)
Init ==
  LET d == CHOOSE d \in Decl : TRUE
  IN  /\ compilers = <<NewCompiler("script", d)>>
      /\ scopes = <<Bind(self, d)>>
      /\ taken = {} /\ emitted = <<>>
-----------------------------------------------------------------------------
(* Resolving a name.                                                       *)

(* resolve_local in the compiler of level n: the last local of that name,  *)
(* 0 if there is none.                                                     *)
resolve_local(n, x) ==
  LET found == {i \in DOMAIN compilers[n].locals : compilers[n].locals[i].name = x}
  IN  IF found = {} THEN 0 ELSE CHOOSE i \in found : \A j \in found : j <= i

(* The level whose local resolve_upvalue comes to, outwards from level n.  *)
HomeLevel(n, x) ==
  LET found == {m \in 1 .. n : resolve_local(m, x) # 0}
  IN  IF found = {} THEN 0 ELSE CHOOSE m \in found : \A k \in found : k <= m

(* Mutant: an entry is known by its index alone.                           *)
add_upvalue_index(ups, index, is_local) ==
  LET same == {k \in DOMAIN ups : ups[k].index = index}
  IN  IF same = {} THEN Len(ups) + 1 ELSE CHOOSE k \in same : TRUE

(* add_upvalue: where the entry for (index, is_local) is, or will be.      *)
add_upvalue(ups, index, is_local) ==
  LET same == {k \in DOMAIN ups : ups[k].index = index /\ ups[k].is_local = is_local}
  IN  IF same = {} THEN Len(ups) + 1 ELSE CHOOSE k \in same : TRUE

(* What resolve_upvalue returns in each level from m + 1 to n, for the     *)
(* local i of level m: the functions in between pass the upvalue on.       *)
Entries(m, i, n) ==
  LET at[l \in m + 1 .. n] ==
        IF l = m + 1 THEN add_upvalue(compilers[l].upvalues, i, TRUE)
                     ELSE add_upvalue(compilers[l].upvalues, at[l - 1], FALSE)
  IN  at

(* Mutant: functions in between are given the slot, not their own upvalue. *)
NewEntry_slot(m, i, l, at) ==
  [index |-> i, is_local |-> l = m + 1, decl |-> compilers[m].locals[i].decl]

(* The upvalue that add_upvalue appends in level l, if it does.            *)
NewEntry(m, i, l, at) ==
  [index |-> IF l = m + 1 THEN i ELSE at[l - 1], is_local |-> l = m + 1,
   decl |-> compilers[m].locals[i].decl]

(* Mutant: the captured local is not marked as such.                       *)
MarkCaptured_not(comp, i) == comp

MarkCaptured(comp, i) == [comp EXCEPT !.locals[i].is_captured = TRUE]

(* The compilers after resolve_upvalue came to local i of level m.         *)
resolve_upvalue(m, i) ==
  LET at == Entries(m, i, Level)
  IN  [l \in DOMAIN compilers |->
         IF l = m THEN MarkCaptured(compilers[m], i)
         ELSE IF l > m /\ at[l] > Len(compilers[l].upvalues)
         THEN [compilers[l] EXCEPT !.upvalues = Append(@, NewEntry(m, i, l, at))]
         ELSE compilers[l]]

(* named_variable, of a variable that is not being initialised itself: that*)
(* is an error.  self is resolved in methods only.                         *)
named_variable(x) ==
  LET m == HomeLevel(Level, x)
      i == resolve_local(m, x)
      Emit(op, arg) == emitted' = <<[op |-> op, name |-> x, arg |-> arg]>>
  IN  /\ x = self => \E n \in DOMAIN compilers : compilers[n].type = "method"
      /\ \/ /\ m = 0
            /\ Emit("OP_GET_GLOBAL", 0)
            /\ UNCHANGED compilers
         \/ /\ m > 0 /\ compilers[m].locals[i].depth # UNINITIALIZED
            /\ \/ m = Level /\ Emit("OP_GET_LOCAL", i) /\ UNCHANGED compilers
               \/ /\ m < Level
                  /\ Emit("OP_GET_UPVALUE", Entries(m, i, Level)[Level])
                  /\ compilers' = resolve_upvalue(m, i)
      /\ UNCHANGED <<scopes, taken>>
-----------------------------------------------------------------------------
(* Scopes and declarations.                                                *)

begin_scope ==
  /\ ~Initializing /\ current.scope_depth < MaxDepth
  /\ Update([current EXCEPT !.scope_depth = @ + 1])
  /\ scopes' = Append(scopes, [x \in {} |-> anon])
  /\ emitted' = <<>>
  /\ UNCHANGED taken

(* The instructions for the locals above slot i, from the top down.        *)
Discard(locals, i) ==
  [k \in 1 .. Len(locals) - i |->
     LET l == locals[Len(locals) + 1 - k]
     IN  [op |-> IF l.is_captured THEN "OP_CLOSE_UPVALUE" ELSE "OP_POP",
          decl |-> l.decl, taken |-> l.decl \in taken]]

(* The slot below the topmost locals that are deeper than a depth.         *)
Below(locals, depth) ==
  CHOOSE i \in 0 .. Len(locals) :
    /\ i > 0 => locals[i].depth <= depth
    /\ \A j \in i + 1 .. Len(locals) : locals[j].depth > depth

(* end_scope: of a block or for loop, never of a function's outermost one. *)
end_scope ==
  /\ ~Initializing
  /\ current.scope_depth > IF Loops # <<>> THEN Last(Loops).scope_depth
                           ELSE IF Level = 1 THEN 0 ELSE 1
  /\ LET i == Below(current.locals, current.scope_depth - 1)
     IN  /\ Update([current EXCEPT !.scope_depth = @ - 1, !.locals = SubSeq(@, 1, i)])
         /\ emitted' = Discard(current.locals, i)
         /\ taken' = taken \ DeclsOf(SubSeq(current.locals, i + 1, Len(current.locals)))
  /\ scopes' = Cut(scopes, 1)

(* Mutant: the loop stops at once.                                         *)
Redeclared_last(x) == Last(current.locals).name = x

(* declare_variable's loop, up to the first local of an outer scope.       *)
Redeclared(x) ==
  \E i \in DOMAIN current.locals :
    /\ current.locals[i].name = x
    /\ \A j \in i .. Len(current.locals) :
         current.locals[j].depth \in {UNINITIALIZED, current.scope_depth}

(* The body of a loop is a statement: a declaration in it is in a block.   *)
InBlock == ~Initializing /\ (Loops # <<>> => current.scope_depth > Last(Loops).scope_depth)

(* parse_variable of a var or a class below the top level.  In the source  *)
(* its scope begins where it is initialised.                               *)
declare_variable(x) ==
  /\ InBlock /\ current.scope_depth > 0 /\ Len(current.locals) < MaxLocals
  /\ ~Redeclared(x)
  /\ \E new \in NewDecls(1) :
       Update([current EXCEPT !.locals = Append(@, Local(x, UNINITIALIZED, new[1]))])
  /\ emitted' = <<>>
  /\ UNCHANGED <<scopes, taken>>

mark_initialized ==
  /\ Initializing
  /\ LET l == Last(current.locals)
     IN  scopes' = [scopes EXCEPT ![Len(scopes)] = Extend(@, l.name, l.decl)]
  /\ Update([current EXCEPT !.locals[Len(current.locals)].depth = current.scope_depth])
  /\ emitted' = <<>>
  /\ UNCHANGED taken
-----------------------------------------------------------------------------
(* Functions.                                                              *)

Params == {s \in UNION {[1 .. n -> Name] : n \in 0 .. MaxParams} :
             \A p, q \in DOMAIN s : s[p] = s[q] => p = q}

(* function(): a compiler, its scope, and the parameters as its locals.    *)
function(outer, outerScopes, type, params, new) ==
  LET comp == NewCompiler(type, new[1])
      args == [p \in DOMAIN params |-> Local(params[p], 1, new[p + 1])]
      names == {params[p] : p \in DOMAIN params}
  IN  /\ compilers' = Append(outer, [comp EXCEPT !.scope_depth = 1, !.locals = @ \o args])
      /\ scopes' = outerScopes \o
           <<Bind(comp.locals[1].name, new[1]),
             [x \in names |-> new[1 + CHOOSE p \in DOMAIN params : params[p] = x]]>>

(* A method: its closure is a temporary until OP_METHOD.                   *)
method ==
  /\ InBlock /\ Level < MaxLevel
  /\ \E params \in Params : \E new \in NewDecls(Len(params) + 1) :
       function(compilers, scopes, "method", params, new)
  /\ emitted' = <<>>
  /\ UNCHANGED taken

(* fun_declaration: the variable is initialised before its body, which may *)
(* name it.                                                                *)
fun_declaration(x) ==
  /\ InBlock /\ Level < MaxLevel
  /\ \E params \in Params :
       \/ /\ current.scope_depth = 0
          /\ \E new \in NewDecls(Len(params) + 1) :
               function(compilers, scopes, "function", params, new)
       \/ /\ current.scope_depth > 0 /\ Len(current.locals) < MaxLocals
          /\ ~Redeclared(x)
          /\ \E new \in NewDecls(Len(params) + 2) :
               function([compilers EXCEPT ![Level].locals =
                           Append(@, Local(x, current.scope_depth, new[1]))],
                        [scopes EXCEPT ![Len(scopes)] = Extend(@, x, new[1])],
                        "function", params, Tail(new))
  /\ emitted' = <<>>
  /\ UNCHANGED taken

(* end_compiler, and OP_CLOSURE in the enclosing function: for each upvalue*)
(* it captures a slot there, or passes one of its own upvalues on.         *)
end_compiler ==
  /\ ~Initializing /\ Level > 1 /\ current.scope_depth = 1 /\ Loops = <<>>
  /\ compilers' = Cut(compilers, 1)
  /\ scopes' = Cut(scopes, 2)
  /\ taken' = (taken \ DeclsOf(current.locals))
                 \cup {compilers[Level - 1].locals[current.upvalues[k].index].decl
                         : k \in {j \in DOMAIN current.upvalues : current.upvalues[j].is_local}}
  /\ emitted' = <<>>
-----------------------------------------------------------------------------
(* Loops.                                                                  *)

start_loop ==
  /\ ~Initializing /\ Len(Loops) < MaxLoops
  /\ Update([current EXCEPT !.loops =
               Append(@, [scope_depth |-> current.scope_depth, since |-> Len(current.locals)])])
  /\ emitted' = <<>>
  /\ UNCHANGED <<scopes, taken>>

end_loop ==
  /\ ~Initializing /\ Loops # <<>> /\ current.scope_depth = Last(Loops).scope_depth
  /\ Update([current EXCEPT !.loops = Cut(@, 1)])
  /\ emitted' = <<>>
  /\ UNCHANGED <<scopes, taken>>

(* Mutant: >= where the code has >.                                        *)
discard_locals_all == Discard(current.locals, Below(current.locals, Last(Loops).scope_depth - 1))

discard_locals == Discard(current.locals, Below(current.locals, Last(Loops).scope_depth))

(* next_statement and break_statement: the code that follows still has the *)
(* locals.                                                                 *)
leave_loop(op) ==
  /\ ~Initializing /\ Loops # <<>>
  /\ emitted' = Append(discard_locals, [op |-> op])
  /\ UNCHANGED <<compilers, scopes, taken>>

next_statement == leave_loop("OP_LOOP")
break_statement == leave_loop("OP_BREAK")
-----------------------------------------------------------------------------
Next ==
  \/ \E x \in Name \cup {self} : named_variable(x)
  \/ \E x \in Name : declare_variable(x) \/ fun_declaration(x)
  \/ begin_scope \/ end_scope \/ mark_initialized
  \/ method \/ end_compiler
  \/ start_loop \/ end_loop \/ next_statement \/ break_statement

Spec == Init /\ [][Next]_vars
-----------------------------------------------------------------------------
TypeOK ==
  /\ \A n \in DOMAIN compilers :
       LET comp == compilers[n]
       IN  /\ comp.type \in {"script", "function", "method"} /\ comp.scope_depth \in Nat
           /\ comp.locals \in Seq([name : Name \cup {self, anon}, depth : {UNINITIALIZED} \cup Nat,
                                  is_captured : BOOLEAN, decl : Decl])
           /\ comp.upvalues \in Seq([index : Nat \ {0}, is_local : BOOLEAN, decl : Decl])
           /\ comp.loops \in Seq([scope_depth : Nat, since : Nat])
  /\ compilers # <<>> /\ taken \subseteq UsedDecls

(* The types, and what the loops of declare_variable, end_scope and        *)
(* discard_locals rely on when they stop at the first local that is not    *)
(* deep enough: depths never fall towards the top, and a scope has a name  *)
(* once.                                                                   *)
LocalsSorted ==
  TypeOK /\ \A n \in DOMAIN compilers :
    LET locals == compilers[n].locals
    IN  \A i, j \in DOMAIN locals : i < j =>
          /\ locals[i].depth # UNINITIALIZED
          /\ locals[j].depth # UNINITIALIZED =>
               /\ locals[i].depth <= locals[j].depth
               /\ locals[i].name = locals[j].name => locals[i].depth < locals[j].depth

(* The declaration of x that the source means: in the innermost scope that *)
(* has one.                                                                *)
Binding(x) == {k \in DOMAIN scopes : x \in DOMAIN scopes[k]}
Meant(x) == scopes[CHOOSE k \in Binding(x) : \A j \in Binding(x) : j <= k][x]

(* The instruction emitted for a name accesses what the source means: a    *)
(* local of the innermost function, an upvalue, or a global if no scope has*)
(* the name.                                                               *)
ResolvesLexically ==
  \A k \in DOMAIN emitted :
    LET e == emitted[k]
    IN  /\ e.op = "OP_GET_LOCAL" => Binding(e.name) # {} /\ current.locals[e.arg].decl = Meant(e.name)
        /\ e.op = "OP_GET_UPVALUE" => Binding(e.name) # {} /\ current.upvalues[e.arg].decl = Meant(e.name)
        /\ e.op = "OP_GET_GLOBAL" => Binding(e.name) = {}

(* The operands OP_CLOSURE will have: each upvalue of a function is found  *)
(* at its index in the function around it, as the same variable, and a     *)
(* variable has one upvalue per function (Captured of ValpClosures).       *)
UpvaluesResolve ==
  \A n \in DOMAIN compilers :
    LET ups == compilers[n].upvalues
    IN  \A k \in DOMAIN ups :
          /\ LET from == IF ups[k].is_local THEN compilers[n - 1].locals
                                           ELSE compilers[n - 1].upvalues
             IN  ups[k].index \in DOMAIN from /\ from[ups[k].index].decl = ups[k].decl
          /\ \A l \in DOMAIN ups : ups[k].decl = ups[l].decl => k = l

(* A local leaves the stack by OP_CLOSE_UPVALUE exactly if some OP_CLOSURE *)
(* before may have captured it: else its upvalue would point at a slot     *)
(* that others take over (end_scope of ValpClosures).                      *)
CapturedLocalsAreClosed ==
  \A k \in DOMAIN emitted :
    /\ emitted[k].op = "OP_POP" => ~emitted[k].taken
    /\ emitted[k].op = "OP_CLOSE_UPVALUE" => emitted[k].taken

(* break and next take off the locals declared since the loop began, from  *)
(* the top down, and no other: the stack has its height at the loop again. *)
LoopsAreLeftClean ==
  emitted # <<>> /\ Last(emitted).op \in {"OP_LOOP", "OP_BREAK"} =>
    LET locals == current.locals
    IN  /\ Len(emitted) - 1 = Len(locals) - Last(Loops).since
        /\ \A k \in 1 .. Len(emitted) - 1 : emitted[k].decl = locals[Len(locals) + 1 - k].decl
=============================================================================
