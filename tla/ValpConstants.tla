--------------------------- MODULE ValpConstants ---------------------------
(***************************************************************************)
(* Global constants of valp_compiler.c in the REPL, line after line.  A    *)
(* const is known by the address of its name in vm.constants.  It is put   *)
(* there when its declaration is compiled, before it is known whether the  *)
(* line compiles and runs, is never taken out, and vm.constants is no root:*)
(* only the other uses of a name keep it in memory.                        *)
(*                                                                         *)
(* Left out: locals, which carry their own flag (ValpScopes), and growth of*)
(* vm.constants beyond six keys, which reads the hashes of all their names.*)
(***************************************************************************)
EXTENDS Integers, Sequences

CONSTANTS
  Name,     \* names of globals
  Address,  \* where the allocator may put a name
  Meets,    \* <<n, m>>: looking up n in vm.constants passes the entry of m
  Free,     \* no string
  MaxLine   \* bound on the statements of a line

NamesAssumption ==
  /\ Meets \in [Name \X Name -> BOOLEAN] /\ \A n \in Name : Meets[<<n, n>>]
  /\ MaxLine \in Nat

FreeAssumption == Free \notin Name

VARIABLES
  strings,    \* by address: the interned name that is there
  globals,    \* the addresses that are keys of vm.globals
  constants,  \* the keys of vm.constants: at, and the name that was there
  line,       \* the statements compiled, with the address of their name
  ran,        \* how many of them have run
  state,      \* of the interpreter
  had_error,  \* parser.had_error
  defined,    \* history: the entries of consts whose declaration has run
  failed      \* history: whether a line ended before all its consts had run

vars == <<strings, globals, constants, line, ran, state, had_error, defined, failed>>

Kind == {"const", "var", "assign"}
Statement == [kind : Kind, at : Address]

(* The names that the function of the line holds.                          *)
held == {line[k].at : k \in DOMAIN line}
-----------------------------------------------------------------------------
Init ==
  /\ strings = [a \in Address |-> Free]
  /\ globals = {} /\ constants = {} /\ line = <<>> /\ ran = 0 /\ state = "compile"
  /\ had_error = FALSE /\ defined = {} /\ failed = FALSE

(* Where copy_string may put a name.                                       *)
copy_string(n) ==
  LET interned == {a \in Address : strings[a] = n}
  IN  IF interned # {} THEN interned ELSE {a \in Address : strings[a] = Free}

(* hash_get on vm.constants: whether address a is a key where n is looked  *)
(* for.                                                                    *)
Found(a, n) == \E e \in constants : e.at = a /\ Meets[<<n, e.name>>]

(* Mutant: whatever is declared is a constant.                             *)
Constant_any(kind) == kind \in {"const", "var"}

(* Whether define_variable records the name.                               *)
Constant(kind) == kind = "const"

(* A statement is compiled: define_variable records a const, and           *)
(* check_constant refuses an assignment to one.                            *)
Compile(kind, n, a) ==
  /\ state = "compile" /\ Len(line) < MaxLine
  /\ a \in copy_string(n)
  /\ strings' = [strings EXCEPT ![a] = n]
  /\ line' = Append(line, [kind |-> kind, at |-> a])
  /\ constants' = IF Constant(kind) /\ ~Found(a, n)
                  THEN constants \cup {[at |-> a, name |-> n]} ELSE constants
  /\ had_error' = (had_error \/ (kind = "assign" /\ Found(a, n)))
  /\ UNCHANGED <<globals, ran, state, defined, failed>>

(* Any other error of the parser.                                          *)
SyntaxError ==
  /\ state = "compile" /\ ~had_error /\ had_error' = TRUE
  /\ UNCHANGED <<strings, globals, constants, line, ran, state, defined, failed>>

(* The line is done with, and its function is garbage.                     *)
Leave ==
  /\ line' = <<>> /\ ran' = 0 /\ state' = "compile" /\ had_error' = FALSE
  /\ failed' = (failed \/ \E k \in ran + 1 .. Len(line) : line[k].kind = "const")
  /\ UNCHANGED <<strings, constants>>

EndLine ==
  /\ state = "compile" /\ line # <<>>
  /\ IF had_error THEN Leave /\ UNCHANGED <<globals, defined>>
     ELSE /\ state' = "run"
          /\ UNCHANGED <<strings, globals, constants, line, ran, had_error, defined, failed>>

Key(a) == [at |-> a, name |-> strings[a]]
Statement_next == line[ran + 1]
Running(kind) == state = "run" /\ ran < Len(line) /\ Statement_next.kind = kind

Pass == ran' = ran + 1 /\ UNCHANGED <<strings, constants, line, state, had_error, failed>>

(* OP_DEFINE_GLOBAL.                                                       *)
Define ==
  /\ \/ Running("var") /\ UNCHANGED defined
     \/ Running("const") /\ defined' = defined \cup {Key(Statement_next.at)}
  /\ globals' = globals \cup {Statement_next.at}
  /\ Pass

(* OP_SET_GLOBAL: a new key is deleted again, a runtime error.             *)
Assign ==
  /\ Running("assign") /\ UNCHANGED <<globals, defined>>
  /\ IF Statement_next.at \in globals THEN Pass ELSE Leave

(* The line has run, or any other runtime error ends it.                   *)
EndRun == state = "run" /\ Leave /\ UNCHANGED <<globals, defined>>

(* Mutant: the names of globals are not marked.                            *)
Reachable_line == held

(* What the roots reach.                                                   *)
Reachable == held \cup globals

(* collect_garbage: a name that nothing here holds may still be held by    *)
(* something else, as a function that assigns to it.                       *)
Collect ==
  \E gone \in SUBSET {a \in Address \ Reachable : strings[a] # Free} :
    /\ gone # {} /\ strings' = [a \in Address |-> IF a \in gone THEN Free ELSE strings[a]]
    /\ UNCHANGED <<globals, constants, line, ran, state, had_error, defined, failed>>

Next ==
  \/ \E kind \in Kind, n \in Name, a \in Address : Compile(kind, n, a)
  \/ SyntaxError \/ EndLine \/ Define \/ Assign \/ EndRun \/ Collect

Spec == Init /\ [][Next]_vars
-----------------------------------------------------------------------------
(* The types; an interned name is at one place, and the names of the line  *)
(* stay.                                                                   *)
TypeOK ==
  /\ strings \in [Address -> Name \cup {Free}]
  /\ \A a, b \in Address : strings[a] = strings[b] /\ strings[a] # Free => a = b
  /\ held \subseteq {a \in Address : strings[a] # Free}
  /\ constants \subseteq [at : Address, name : Name] /\ defined \subseteq [at : Address, name : Name]
  /\ line \in Seq(Statement) /\ ran \in 0 .. Len(line)
  /\ globals \subseteq Address /\ state \in {"compile", "run"} /\ had_error \in BOOLEAN

(* The types; and the name of a const whose declaration has run stays where*)
(* vm.constants has it, so that no line compiled later assigns to it.      *)
ConstsAreRefused ==
  TypeOK /\ \A e \in defined : strings[e.at] = e.name /\ e.at \in globals /\ Found(e.at, e.name)

(* As long as every line with a const has run to its end, a name is refused*)
(* only if a const of that name has run, or is in the line: no entry of    *)
(* vm.constants outlives its name.                                         *)
OnlyConstsAreRefused ==
  ~failed =>
    \A a \in Address :
      strings[a] # Free /\ Found(a, strings[a]) =>
        \/ Key(a) \in defined
        \/ \E k \in DOMAIN line : line[k] = [kind |-> "const", at |-> a]
=============================================================================
