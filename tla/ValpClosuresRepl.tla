-------------------------- MODULE ValpClosuresRepl --------------------------
(***************************************************************************)
(* The REPL above ValpClosures: interpret runs one line after another in   *)
(* one vm.  A closure in a global lives on to the next line, also when     *)
(* runtime_error has thrown away the stack its upvalues point into.        *)
(***************************************************************************)
EXTENDS ValpClosures

VARIABLES
  global,  \* the value of one entry of vm.globals
  orphans  \* not in the program: the upvalues reset_stack dropped, still open

replVars == <<vars, global, orphans>>

ReplInit == Init /\ global = NIL /\ orphans = {}
-----------------------------------------------------------------------------
(* OP_DEFINE_GLOBAL                                                        *)
SetGlobal ==
  /\ Running /\ Temporaries >= 1
  /\ global' = Peek(0)
  /\ stack' = Cut(stack, 1)
  /\ access' = NoAccess
  /\ UNCHANGED <<frames, open, upvalue, upvalues, capturing, locals, named, orphans>>

(* OP_GET_GLOBAL                                                           *)
GetGlobal ==
  /\ Running /\ Push(global)
  /\ access' = NoAccess
  /\ UNCHANGED <<frames, open, upvalue, upvalues, capturing, locals, named, global, orphans>>

(* Mutant: the list of open upvalues is kept.                              *)
reset_stack_keeping ==
  stack' = <<>> /\ frames' = <<>> /\ UNCHANGED open

(* The open upvalues are not closed: they point at slots that other values *)
(* will take.                                                              *)
reset_stack ==
  stack' = <<>> /\ frames' = <<>> /\ open' = <<>>

(* Any instruction may fail.                                               *)
runtime_error ==
  /\ Running
  /\ reset_stack
  /\ orphans' = orphans \cup Elements(open)
  /\ locals' = <<>> /\ access' = NoAccess
  /\ UNCHANGED <<upvalue, upvalues, capturing, named, global>>

(* The next line of the REPL.                                              *)
interpret ==
  /\ frames = <<>>
  /\ \E cl \in Closure \ DOMAIN upvalues :
       /\ stack' = <<cl>> /\ frames' = <<[closure |-> cl, slots |-> 1]>>
       /\ upvalues' = [x \in DOMAIN upvalues \cup {cl} |->
                         IF x = cl THEN <<>> ELSE upvalues[x]]
       /\ named' = [x \in DOMAIN named \cup {cl} |-> IF x = cl THEN <<>> ELSE named[x]]
  /\ \E new \in NewVars(1) : locals' = <<new>>
  /\ access' = NoAccess
  /\ UNCHANGED <<open, upvalue, capturing, global, orphans>>

(* The upvalue of an earlier line points above the stack of this one.      *)
AboveTop(k) ==
  /\ Running /\ k \in DOMAIN upvalues[Top(frames).closure]
  /\ upvalue[upvalues[Top(frames).closure][k]].location > Len(stack)

(* It is read: what was last in that slot may be any value by now.         *)
GetOrphan(k) ==
  /\ AboveTop(k)
  /\ \E v \in Data \cup {NIL} \cup DOMAIN upvalues : Push(v)
  /\ access' = NoAccess
  /\ UNCHANGED <<frames, open, upvalue, upvalues, capturing, locals, named, global, orphans>>

(* It is assigned: the slot is written before it is in use.                *)
SetOrphan(k) ==
  /\ AboveTop(k) /\ Temporaries >= 1
  /\ access' = NoAccess
  /\ UNCHANGED <<machine, locals, named, global, orphans>>

(* The globals are roots of a collection.                                  *)
CollectLine ==
  /\ Collect
  /\ global \in Closure => global \in DOMAIN upvalues'
  /\ orphans' = orphans \cap DOMAIN upvalue'
  /\ UNCHANGED global

ReplNext ==
  \/ SetGlobal \/ GetGlobal \/ runtime_error \/ interpret \/ CollectLine
  \/ \E k \in 1 .. MaxUpvalues : GetOrphan(k) \/ SetOrphan(k)
  \/ /\ \/ Constant \/ Pop \/ define_variable \/ end_scope \/ Capture \/ Return
        \/ \E i \in 1 .. MaxStack : GetLocal(i) \/ SetLocal(i)
        \/ \E k \in 1 .. MaxUpvalues : ~AboveTop(k) /\ (GetUpvalue(k) \/ SetUpvalue(k))
        \/ \E n \in 0 .. MaxUpvalues : MakeClosure(n)
        \/ \E argc \in 0 .. MaxArgs : Call(argc)
     /\ UNCHANGED <<global, orphans>>

ReplSpec == ReplInit /\ [][ReplNext]_replVars
-----------------------------------------------------------------------------
(* The types, and the layout of the stack.                                 *)
ReplTypeOK ==
  /\ TypeOK
  /\ global \in Data \cup {NIL} \cup DOMAIN upvalues
  /\ orphans \subseteq DOMAIN upvalue

(* The types; and a failed line does no harm to the list: it names slots of*)
(* the stack of the line that runs, never an upvalue of a line that failed,*)
(* or else a later capture would share it and a later return close it.     *)
LinesApart == ReplTypeOK /\ OpenList /\ Elements(open) \cap orphans = {}

(* The variables whose upvalue a failed line left open.  The cells of all  *)
(* others, of whatever line, and the accesses to these.                    *)
Lost ==
  UNION {{named[cl][k] : k \in {k \in DOMAIN upvalues[cl] : upvalues[cl][k] \in orphans}} :
           cl \in DOMAIN upvalues}
Cells == [v \in UsedVars \ Lost |-> Store[v]]
CellAccess == IF access # NoAccess /\ access.of \in Lost THEN NoAccess ELSE access

K == INSTANCE Variables WITH store <- Cells, access <- CellAccess

(* The harm the orphans do: a lost variable is assigned, and v of the line *)
(* that runs, which is in its slot now, gets the value.                    *)
Overwrite(v) ==
  /\ access' # NoAccess /\ access'.of \in Lost
  /\ SlotOf(v) = upvalue[UpvalueOf(access'.of)].location
  /\ Cells' = [Cells EXCEPT ![v] = access'.val]
  /\ CellAccess' = NoAccess

(* From line to line, and whatever lines fail, every variable that was not *)
(* open when one did is a cell of its own, as Variables has it: those of   *)
(* lines that ended well, of the line that runs, and those closed before an*)
(* error.  Only assigning a lost variable breaks it (OP_SET_UPVALUE after  *)
(* reset_stack writes into a slot of the running line), and that changes   *)
(* the one variable in this slot, and nothing else.                        *)
OthersAreCells == K!Init /\ [][K!Next \/ \E v \in OnStack : Overwrite(v)]_(K!vars)
=============================================================================
