# Valp in TLA+

Valp is a small object-oriented scripting language: a scanner and a single-pass
compiler that emit bytecode, a stack machine that runs it, and a mark-sweep
collector under both. It is one thread of C. Nothing interleaves in the usual
sense, but almost every operation may allocate, every allocation may run the
collector, and the collector may free anything its roots do not reach and edit
the intern table in the middle of the operation that asked for memory. Most of
what is hard to get right here, and hardest to test, lies in that
interleaving, in the life of captured variables, and in an open-addressing
table that is used for everything.

Paths below are relative to the repository; `core/` stands for `src/core/`.

## The system

| component | files | state | operations |
|---|---|---|---|
| hash table | `core/valp_hash.c` | `count`, `capacity` (an index mask), `entries` with tombstones | get, set (growing), delete, find by characters, remove white keys, add all, mark |
| objects | `core/valp_object.c` | a linked list of all objects, nine types | one constructor per type; interning of strings |
| collector | `core/valp_memory.c` | mark bits, gray stack, `bytes_allocated`, `next_gc` | reallocate, mark roots, trace, sweep |
| virtual machine | `core/valp_vm.c` | value stack, call frames, open upvalues, globals, constants, method tables | `run`'s opcodes, `call_value`, `invoke`, `bind_method`, `capture_upvalue`, `close_upvalues`, `runtime_error` |
| compiler | `core/valp_compiler.c` | chain of compilers (function, locals, upvalues, scope depth), class compiler, loop, parser with panic mode | declarations, statements, expressions, scopes, `resolve_local`, `resolve_upvalue`, jumps, loops, `synchronize` |
| arrays, strings | `core/types/*.c` | the values of an array; characters | native methods called by `OP_INVOKE` |
| natives | `core/valp_native.c` | entries of `vm.globals` | `clock`, `gets`, assertions, ... |
| scanner | `core/valp_scanner.c` | a position in the source | `scan_token` |
| driver | `core/main.c` | none | a file, or a REPL that calls `interpret` per line on one VM |
| disassembler | `core/valp_debug.c` | none | printing |

How they interact. `interpret` compiles a script to a function and runs it.
The compiler allocates (functions, names, constants), so its chain of
functions under construction is a root of the collector
(`mark_compiler_roots`). The VM allocates through the constructors, which
count on values being on the stack while they allocate; `vm.strings` is weak,
and `hash_remove_white` edits it between tracing and sweeping. The operand
stack is shared by the VM, by the constructors (as a place where a temporary is
safe) and by open upvalues, which point into it.

What is hard in each part, and what makes it correct:

* **Hash table.** Deleting leaves a tombstone, which must stop neither a lookup
  nor be taken for a live `nil`; `count` includes tombstones and must keep one
  slot empty, since `find_entry` has no other exit; growth allocates, and the
  collection this may start deletes keys from the very table being grown.
  Correct: it is a map, and every call returns.
* **Collector.** Everything a handler still uses across an allocation must be
  reachable from a root; an object must be blackened completely; the intern
  table must forget what the sweep frees, and nothing else.
  Correct: no dangling reference, all garbage goes, equal strings stay one
  object.
* **VM and closures.** A captured variable lives in its slot until the slot
  dies, then in the upvalue; all closures over it share one; slots of frames
  shift with every push and pop. Casts (`AS_CLASS`, `AS_CLOSURE`, ...) are not
  checked in the handlers, so the compiler and the heap must agree on types.
* **Compiler.** The slots it computes must be the slots of the running stack;
  jumps it patches must be of the length it reserved; what it records (consts)
  must agree with what ran.
* **Parser.** One token ahead, and after an error it goes on in the midst of
  functions, classes and loops: one report per error, and everything entered is
  left again.
* **Classes and calls.** Frames are windows on the operand stack; a method's
  receiver replaces the callee in it; calls by name skip the bound method that
  reading the name would make.
* **Arrays, strings.** Methods change an interned string in place; counts and
  capacities move apart.
* **REPL.** A line that fails leaves globals, interned names and closures
  behind, for the next.

`PROJECT.json` lists, under `hazards`, each place where this bites with the
property that watches it, or the reason why none does yet.

## The modules

**`Dict`** is the promise of `valp_hash.h`: a finite map and what each call
returns.

**`ValpHash`** is `valp_hash.c`. `entries`, `capacity` and `count` are the
struct's fields, with `capacity` the index mask as in C (-1 for no slots).
`find_entry`, `hash_get`, `hash_set`, `hash_delete`, `hash_find_string`,
`hash_remove_white`, `hash_add_all` and `free_hash` are operators or actions of
those names. A call without growth is one step. Growth is a sequence: the
allocation, whose collection may bury any set of keys but the one being set
(`StartGrowth`), one step per turn of the copying loop (`CopyEntry`), the swap
(`SwapArrays`) and the insertion (`FinishSet`); `dest`, `idx`, `arg` and `pc`
are the C variables and the place of that call. `hash_add_all` is a sequence of
sets. A key is a pointer; hashes are an arbitrary constant function. The loop
of `find_entry` is the choice of the first distance at which it stops
(`IsFirstStop`), since the loop has no state of its own.

**`ValpHeap`** gives objects one record shape (`head`, `elems`, `table`), the
constructors, and what `blacken_object` marks of each type.

**`ValpMemory`** is the collector under everything that moves references:
`heap`, `stack`, `frames`, `open` (the list of open upvalues), `globals`,
`strings`, `methods`, `consts`, `compilers` are the VM's and the compiler's
fields; `marked`, `gray`, `phase` the collector's. Collector actions:
`mark_roots`, `trace_reference` (one gray object), `remove_white`, `sweep`.
`mark_roots` is enabled between any two steps, which is what
`DEBUG_STRESS_GC` does and what any byte count may do; so the accounting behind
`next_gc` is left out and every handler is cut at the allocations it makes:
`CopyString`/`Intern` around the growth of the intern table,
`StringConstant`/`AddConstant` around the growth of a function's constants,
`MakeClosure`/`Capture` around each captured upvalue, `NewArray`/`FillArray`,
`GetSuper`/`BindSuper`, `string_split` and its pieces. `c` says where the
handler stands and holds its C variables, which are no roots. The other actions
are the opcodes of `run` by name. Their operands are anything the running
function's constants, upvalues and stack slots allow: the model follows every
program a compiler could have emitted rather than one instruction stream, so
what it shows holds for each.

Abstracted: numbers, booleans and nil are `NIL`; strings with equal contents
have equal `Text`; arities match and indices are in bounds; every failed check
is `RuntimeError`, after which a file's run exits.

**`Variables`** is what a program may expect of its local variables: a store of
cells, one per declaration that ran. A read finds what was last assigned; a
cell is there as long as something can name it.

**`ValpClosures`** is how `valp_vm.c` keeps that promise: `stack`, `frames`
(closure and base), `open` (the list `vm.open_upvalues`), `upvalue` (location or
closed value), `upvalues` (of each closure), and `capturing`, the turns left in
`OP_CLOSURE`'s loop. Actions are the opcodes that touch locals, with
`capture_upvalue` and `close_upvalues`, and the places where the compiler emits
nothing or a choice of instructions: `define_variable`, `end_scope`. Two ghosts
carry the meaning: `locals`, which variable a slot is, and `named`, which
variable each upvalue of a closure stands for. `access` is what the last step
read or assigned, so that the refinement of `Variables` compares values. A
program is any sequence of instructions a compiler could have put there. An
error ends the run and is left out.

**`ValpScopes`** is the other half, in `valp_compiler.c`: the chain of
`compilers`, each with `scope_depth`, `locals` (name, depth, `is_captured`),
`upvalues` and `loops`. `scopes` is the ghost: for each lexical scope the
declarations it binds. The compiler's functions are actions of their names, and
`emitted` holds the instructions of the last one, which is what the properties
are about. The grammar is in the guards: no declaration in an initializer,
declarations in a loop body only inside a block, `end_scope` never of a
function's own scope. `self` in slot 0 and the unnamed slot 0 of functions are
told apart, as `init_compiler` does; the scope around a class with a superclass
is a scope with one local, like any other.

**`ValpClosuresRepl`** puts the REPL above `ValpClosures`: one global, and
`runtime_error` at any instruction with the `reset_stack` that forgets the open
upvalues without closing them; `orphans` is the ghost for those. The next line
runs on the same stack, under upvalues that point into it. What a closure reads
through an orphan above the stack is any live value (in the code it may also be
an object since freed); an orphan below the top reads and writes a slot of the
line that runs, in the model as in the code.

**`ValpConstants`** is the REPL for consts: the compiler puts the address of a
name in `vm.constants` when the declaration is compiled (`Compile`), the line
may then fail to compile or to run, and the collector may take the name and give
its address to another. `Meets` stands for the probing of `find_entry`.
`defined` and `failed` are history. A name beyond those of the line and of the
globals may survive a collection or not, which stands for the functions that
still use it. **`ValpGlobals`** is `ValpConstants` under other parameter names
(`Con`, with `Global` for `Name`), for the module of proofs that knows `ValpScopes` as well.

**`ValpGrammar`** is the language as a grammar that knows nothing of the
parser: the configurations that remain after a token, and so the first token of
a text that no program has there. **`ValpParser`** is the parser: its functions
are operators of their names on the state of the parser (`previous`, `current`,
`panic_mode`, the compilers and classes around) with the code of expressions in
the order of emission, `synchronize` included; a step of `compile` is one
declaration. `reports` are the places of the errors it prints. Tokens stand for
their kind (`+=` for the four, `==` and `<` for their precedence). In the
grammar the quirks of the code are rules of their own: parentheses around a
condition belong to the condition, `for` takes its clauses with or without
parentheses and its increment may be left out only before `)`, and `?` is a
statement.

**`ValpMeaning`** is an interpreter over syntax trees: what `if`, `while`,
`for`, `switch`, `and`, `or`, `break`, `next` and assignments mean. Whatever comes from outside is
the next of the program's answers. **`ValpCode`** compiles the same trees to
bytes as `valp_compiler.c` does, jumps patched and breaks found by
`end_loop`'s walk over the code (`get_arg_count`), and runs the bytes as
`run` does, an instruction a step; `heights` remembers the stack at each
instruction.

**`Objects`** is what a program may expect of classes: properties, methods,
`super`, initializers, calls. **`ValpDispatch`** is how `valp_vm.c` does it:
`call_value`, `call`, `invoke`, `invoke_from_class`, `bind_method`,
`OP_INHERIT`'s copy of the method table, `OP_METHOD`, frames that are windows on the operand
stack, slot 0 for the receiver. The refinement reads the arguments and the
receiver of every active call out of the stack.

**`Lists`** is what arrays promise: sequences, and equality that compares the
lists in lists. **`ValpArrays`** is `types/array.c` with the value arrays of
`valp_value.c`: memory of a capacity, `count`, growth that leaves junk, loops a
turn a step, and `array_equal`'s calls as a stack of `work`. **`ValpStrings`**
is `types/string.c` on characters with the intern table: `reverse` and
`replace` write into their receiver, whose `hash` and place in the table stay.
**`ValpTypes`** is both: `ValpArrays`, and `ValpStrings` as `Str`.

**`ValpScanner`** is `scan_token`, a character a step; `pc` names the loop.
**`ValpFrontEnd`** extends it and `ValpParser` to the whole of `compile`: `Scan`
until the end of the source, `HandOver`, which hands the tokens over as the symbols
of the parser (`Symbol`: tokens of one rule of `rules[]` are one), and the
declarations of the parser (`Go`). The code scans on demand; as the scanner depends on nothing the
parser does, the order does not matter.

`ValpScopes` and `ValpClosures` fit together by what they assume of each other. `ValpClosures` takes
from the compiler that a local that is popped rather than closed has no open
upvalue (`CapturedLocalsAreClosed`), that a closure has one upvalue per variable
and finds it at the right index of its parent (`UpvaluesResolve`), and that code
outside nested functions names slots of its own frame (`ResolvesLexically`).
`ValpMemory` adds the collector to the same instructions, without the meaning of
variables. `ValpParser` leaves names to `ValpScopes` and jumps to `ValpCode`,
which takes trees as the parser would have them; `ValpScanner` gives it tokens,
errors among them.


## The runs

| run | asks | bounds, and why they are enough |
|---|---|---|
| `hash` | is the table the map, does every call return | three keys; two share the last slot as home and wrap around in every array, the third's probe runs into them; sizes 2, 4, 8, so growth from nothing, from 2 and from 4; values `nil` and `true`, the two a tombstone and an empty slot are told apart by; every set of white keys at each growth |
| `memory` | does a collection at any allocation free just the garbage | five scenarios, three or four addresses beyond the objects they start from, so that a freed one is reused at once. *Compile*: from the bare VM, functions nested twice, so that an enclosing one is only in the compiler chain. *Closures*: capture, close and share, two upvalues, two frames. *Declare*: classes, methods, inheritance. *Classes*: instances, fields, bound methods, `super`, the superclass reachable through an upvalue only. *Builtins*: concatenation, array literals, slices, methods of arrays, elements up to two, three texts of which one is new |
| `closures` | every access to a local, on the stack or captured, meets the variable its code means | three closures, so that one captures through another while a third exists; two upvalues open at once, in either order of capture; two frames; five variables; stack of four; no arguments (they are slots like other locals); closures and upvalues that are garbage go at once (`EagerSpec`), which only saves states, since nothing reads garbage |
| `scopes` | names come to what lexical scoping means; `break` and `next` drop the body's locals and no others | *Functions*: nesting of three, so that one in between passes an upvalue on; two names, shadowing within and across functions; six declarations alive, three of them the slots 0. *Loops*: two loops, three nested scopes, two functions; without parameters |
| `repl` | what a failed line costs the next | the bounds of `closures` with a stack of three; one global |
| `constants` | is a const, once defined, refused in every later line, and nothing else | three names, of which two meet in `vm.constants`; three addresses, so that a freed one is another's; lines of two statements, any number of lines |
| `front_end` | longest match, nothing lost, lines; is a text rejected exactly where the grammar says; recovery; trees | scanned and then parsed: every source of four characters of eight kinds, every keyword with a letter cut, added, replaced, white space of three, and spelled programs with a token put in. Given as tokens: after ten beginnings (conditions, `for`, `switch`, functions, classes, methods), up to three tokens of a group as in a program, then any token of the group or a scanner error, then one of three tails; all expressions of two levels of operators over one name |
| `code` | does bytecode do what the program means | expressions of two levels, statements of three, loops with a local around; all answers up to seven; constants from 24 on, so that their indices take the values of opcodes that have operands; no break at the end of a second branch and none after a constant that reads as such an opcode, which fail below |
| `dispatch` | do calls, methods and fields do what objects promise | *Initializers*: two classes and one instance with fields of class and method values and `init` at either level. *Methods*: three classes in every hierarchy, declared first. Three frames, so that a call may fail for want of one; a stack of five or four |
| `types` | is an array a sequence under all calls; equality of nested arrays; what holds in spite of methods that write into interned strings | *Flat*: nine elements, to grow from nothing to 8 and to 16; indices from below zero to beyond the end. *Nested*: four arrays of one element at most, cycles included, recursion of five. *Strings*: texts of three characters, three strings; characters of memory that is not initialized |
| `builtins` | **fails**: the method tables of arrays and strings, or else the array `split` fills, survive a collection | the program of *builtins*, and a call of `split` |
| `deviations` | **fails**: one at least of four programs does what it means, a literal keeps its text, the pieces of `split` know their length, or a local of a REPL line keeps its value after an earlier line failed | the programs one after another; then two characters, texts of three and two strings; then three closures, one upvalue, four variables, a stack of four |

A run of several scenarios chooses one in its initial state (`scenario` in the MC
module) and keeps it; a scenario takes the opcodes that belong to its question,
within bounds of its own, and all are states and steps of the module's `Spec`.
Those of `memory` but *compile* start where a script has been
compiled and called, because a program worth collecting takes
a dozen steps to build; the states are ones `Spec` reaches under larger bounds.
*Classes* and *builtins* trace gray objects in one order, the others in every order.

Bounds that are in guards are named: `MaxSize`, `MaxSource`; `MaxStack`,
`MaxFrames`, `MaxNesting`, `MaxElems`, `MaxArgs`, `MaxUpvalues`; `MaxLevel`,
`MaxLocals`, `MaxDepth`, `MaxLoops`, `MaxParams`; `MaxAnswers`; `MaxClasses`,
`MaxInstances`; `MaxLength`; `MaxText`, `MaxStrings`; `MaxLine`. The theorems do
not depend on their values. `dispatch`
declares classes before there are objects, which only saves orders:
a class that is declared later has no effect on the objects of others.

Deadlock is not checked where the model really stops: a script returns from its
last frame with nothing left to compile within the bounds, an error exits, and
a heap of three addresses fills up. A source, a program and a
text come to their end. `hash`, `constants` and `scopes` check it.

Properties (the type invariant of a module is a conjunct of the first of them, but in
`ValpHash` and `ValpClosures`, where it is proved):

* `ValpHash`: `KeysReachable` (no duplicate, no key behind an empty slot),
  `ProbesTerminate`, `CountIsUsed`, `CallsReturn`, `ImplementsDict`.
* `ValpMemory`: `NoDangling`; `TriColour`; `Interned` (every live string is in
  the table, once; the reason why comparing pointers compares strings);
  `CastsOK` (objects have the types that handlers cast them to without a check,
  and open upvalues point at slots of the stack); `GarbageFreed` (what survives a sweep is in every
  closed set that holds the roots).
* `ValpClosures`: `UpvaluesMeanVariables` (an upvalue points at its variable's slot while
  it has one, and is closed from then on); `OneUpvaluePerVariable` (sharing);
  `ImplementsVariables`, the refinement. `OpenList` (sorted, one upvalue per
  slot, none below a dead slot) is proved.
* `ValpScopes`: `ResolvesLexically`, `UpvaluesResolve`,
  `CapturedLocalsAreClosed`, `LoopsAreLeftClean`, and `LocalsSorted`, which the
  loops over locals count on.
* `ValpClosuresRepl`: `LinesApart` (no upvalue of an earlier line is in the
  list, and none of this line is an orphan's), `OthersAreCells` (each variable
  that no failed line left open is a cell of its own, through all lines: the
  steps are those of `Variables` on these cells. The exception is part of the
  formula, `Overwrite`: assigning a lost variable may change the one variable of
  the running line that is in its slot now, which `deviations` shows happening).
* `ValpConstants`: `ConstsAreRefused` (a const that was defined stays known at
  its address, through every collection), `OnlyConstsAreRefused` (no entry
  outlives its name, as long as no line with a const fails; after one that did,
  another name may be refused in its place, and the const itself though it never was).
* `ValpParser`: `FirstReportIsRight` (a text is accepted exactly if it is a
  program, and the first error is at the first token no program has there, but
  for an empty index and a returned value, reported a token early, and for a
  token in error just behind, which is scanned first),
  `LaterReportsAreRight` (after an error in a statement without a body, the later
  reports are exactly the first errors of what follows the place the parser
  resumed at, read by the grammar in the blocks that are open. After an error in
  the head of a function, a class or a loop this is false of the code, which goes
  on into the body: `class y { x } x ;` is also reported for its end. There, and
  where the scanner reports errors, only the order of the reports is checked, and
  that the parser resumed between two of its own),
  `DeclarationsAreClosed`, `ExpressionsAreTrees`,
  `DeclarationsPassTokens` (so that `compile` ends; a temporal form would ask TLC
  whether each parse is enabled).
* `ValpCode`: `DoesWhatItMeans` (the trace of the code is the trace of the
  tree), `HeightIsFixed` (each instruction finds the stack at one height, so that
  slots are right), `ComesToAnEnd`.
* `ValpDispatch`: `ImplementsObjects`, the refinement; `SelfDescends` (the
  receiver in slot 0 is an instance of the class whose method runs or of one
  below it).
* `ValpArrays`: `ImplementsLists`, the refinement; `CallsReturn`.
* `ValpStrings`: `CopiesAreRight` (a new string has the characters it was asked
  for, although strings in the table were written into), `EqualStringsAreOne`
  (unless written into), `MethodsGive`.
* `ValpScanner`: `TokensTile` (no character is lost, and lines are right),
  `LongestToken` (and keywords are exact), `ReachesTheEnd`.

**Fairness.** There is one thread, so once a call has started nothing else runs
before it returned, and its next step is always taken: weak fairness of the
remaining steps of a C call in `ValpHash` (`Continue`) and `ValpArrays` (`Loop`), and of
the next step in `ValpScanner` (`Scan`) and `ValpCode`. No fairness is assumed of what a
program or a user does.

### What the failing runs show

A run shows all of its deviations in one behaviour: the property is that one of
them at least does not happen.

`builtins`:

* `mark_roots` marks neither `vm.array_methods` nor
  `vm.string_methods` (`core/valp_memory.c:182-198`). The first collection
  frees the natives and the names these tables hold; later calls of
  `push`, `split`, ... follow freed pointers (`MethodTablesLive`).
* `string_split` (`core/types/string.c:83-110`) keeps its result
  in a C variable while it allocates (`SplitArrayLive`).

`deviations`:

* `break_statement` emits one byte where `end_loop` writes a jump of three
  (`core/valp_compiler.c:889`, `:842`). After a break at the end of an `else`, the two
  bytes behind it belong to where the first branch goes on (`BreakInElse`).
* `end_loop` finds breaks by walking over the code with
  `get_arg_count`, which takes operands for instructions after some
  opcodes; a break behind such a place stays unpatched (`BreakAfterCall`).
* The true branch of a ternary leaves the condition on the stack
  (`core/valp_compiler.c:1078`), so that slots of later locals are off by one
  (`LocalAfterTernary`).
* The count of an array literal is cut to a byte (`core/valp_compiler.c:393`; `LocalAfterArray`).
* `reverse` and `replace` change the literal they are called
  on (`core/types/string.c:30`; `LiteralsStay`).
* `split` takes the end of a piece for its length (`core/types/string.c:100`). The
  bytes too many lie behind a NUL, so the piece prints and, since `==` is
  `strcmp`, compares as it should; its `len()` is wrong (`LengthsAreRight`).
* `reset_stack` leaves open upvalues pointing into the stack
  (`core/valp_vm.c:21`). A closure of a failed line, called by a later one,
  assigns its variable and changes a local of that line (`LocalsHold`).

Besides, the example of `README.md:30-46` is no program of the language the parser
takes: methods need `def`, declarations and statements a semicolon.

`ValpMemory!Next` leaves `string_split` out, and `ArrayMethod` asks that the
native still be there, so that the other runs say what holds besides.

## The proofs

`ValpHashProofs` proves about `ValpHash`, for every set of keys and values,
every hash function and every size, from `HashAssumption` alone (nil and true
differ and are values, no key is null, hashes are natural, the first array has
at least two slots):

* `Invariance`: `Spec => []IInv`, with `TypeCorrect`, `EveryKeyReachable`,
  `EveryProbeTerminates` and `CountExact` as its parts;
* `TableIsMap`: `Spec => ImplementsDict`, the refinement of `Dict` under
  `map <- Contents`.

The safety properties are not inductive as the runs check them. In the middle
of growth `dest` may hold anything that is reachable and counted; that the copy
ends with the old contents needs that `dest` holds exactly the entries of the
old array below `idx` (`Copying`), no tombstone among them, and hence that the
key to be copied is not there yet. And the insertion after growth needs room:
`InProgress` keeps `count + 1 <= capacity` from the moment of the allocation.
`IInv` is the conjunction; `hash` checks its parts that say most, and the
proof has one step per action and per conjunct the action disturbs.

The argument rests on lemmas about probing: the distances 0..capacity map one
to one onto the slots (`ProbeInjective`, `ProbeSurjective`), so with an empty
slot there is a first stop (`FirstStopExists`, by the least-element principle
of naturals), `find_entry` returns the slot a caller wants (`FindEntry`, stated
as `SlotFor`), storing there keeps every path (`PathKept`, `StoreEntry`), and
burying keys as tombstones cuts none (`BuryEntries`). The refinement then is one
lemma per action: sets, sweeps and swaps change `Contents` as `Dict` says, all
else stutters. In particular a collection inside growth is a `Forget`, a swap
is a stutter, and the return value of `hash_set` says whether the key was new
even where a tombstone is recycled.

`ValpClosuresProofs` proves about `ValpClosures`, for every number of closures,
upvalues, variables, slots and frames, from `ClosureAssumption` (data, closures
and nil are distinct, there is a variable, bounds are natural), four
invariants, of which `closures` checks the last two: `TypesHold`, `OpenListHolds`,
`UpvaluesMeanVariablesHolds`, `OneUpvaluePerVariableHolds`.

None of them is inductive. `IInv` adds to the layout of the frames (`TypeOK`)
that no variable is in two slots (`Distinct`), that closures and frames refer to
what exists (`Shape`), that an upvalue is in the list exactly if it is not
closed, and then points at some frame's local (`OpenExact`), and, in place of
`UpvaluesMeanVariables`, the same without a choice of the slot (`Means`). With
it, capturing a local finds the upvalue that other closures have for it if there
is one: it is open since the variable is on the stack, hence in the list, and the
walk down the sorted list cannot pass it (`CaptureKnown`, `CaptureNew`). And
closing from a slot on takes exactly the upvalues of the variables that go
(`CloseUpvalues`, `VariablesRemoved`), because frames lie in order on the stack
(`SlotsApart`). Steps fall into five kinds, with a lemma each: values move
(`ValuesMove`), variables are added or garbage goes (`VariablesAdded`), a closure
gets an upvalue (`ClosureFilled`), variables go (`VariablesRemoved`), nothing
that matters changes (`Unmoved`).

The end of the module proves `VariablesImplemented`: `Spec => ImplementsVariables`,
with `store <- Store`, which takes the value of a variable on the stack from its
slot and of any other from its upvalue. `StoreIsRight` says from `IInv` that
these choices do not matter: every slot and every closure's upvalue for a
variable lead to the same value. Then the actions are of four kinds. Reads
(`ReadMaps`) leave the store as it is; assignments change it at one variable
(`StackAssigned`, where no other variable shares the slot, and `ClosedAssigned`,
where every closure over the variable shares the upvalue); what is added leaves
the values that were there (`Kept`, `Adds`); and what goes leaves the values of
all variables that can still be named (`Removes`), since `close_upvalues` copies
them out of the slots that die before anything is written there.

`ValpClosuresReplProofs` proves about `ValpClosuresRepl`, from the same
assumption, both properties that run `repl` checks: `LinesApartHolds` and
`OthersAreCellsHolds`. `reset_stack` empties the list of open upvalues
without closing them, so the invariant of `ValpClosures` is false from the
first failed line on. But with every such orphan taken for closed (`Seen`), each state is
a state of `ValpClosures`, `C == INSTANCE ValpClosuresProofs WITH upvalue <- Seen`,
and each step but a failure is covered by the lemmas there. `RInv` is `C!IInv`, that
no orphan is in the list (`Apart`), and that the stack, the global and the upvalues
hold only values that are no garbage (`AllLive`): a closure of an earlier line is
called only if it was kept. For `OthersAreCells` each step is first a step of
`Variables` on the cells of `C`, by the refinement proved for `ValpClosures`, and then restricted
to the variables that are not lost, a set that a step does not grow and a
failure grows by the variables it leaves open. What is left is `SetUpvalue` through an
orphan below the top of the stack, which `C` does not have: it is an `Overwrite`
of the one variable whose slot it is, or of a temporary, which no cell shows.

The end of `ValpScopesProofs` proves about `ValpConstants` (`Con` of `ValpGlobals`),
for any names, addresses and collections, from `ConstantsAssumption`, `ConstsAreRefusedHolds` and
`OnlyConstsAreRefusedHolds`. `ConstantsInv` adds to the types: a const that ran is a global whose key lives at the address recorded for
it (`DefinedStay`), so no collection gives that address to another name; what the
statements of the line under way refer to is found in `vm.constants` (`LineKnown`);
and, as long as no line with a const failed, an entry is its own name's and either
defined or of this line (`EntriesJustified`).

`ValpMemoryProofs` begins with the lemmas about heaps that are no steps yet, and
proves about `ValpMemory`, for any number of objects, any stack
and frame limits and whatever bytecode runs, all that run `memory` checks:
`NothingDangles`, `TriColourHolds`, `InterningSurvives`, `CastsAreRight`, and, as
an action property, `AllGarbageIsFreed`. `IInv == Sound /\ CallOK`; both were checked on the run `memory`
before they were proved.

* `Sound`: objects are of their shapes and point at objects of the types that the
  handlers cast to (`WellFormed`); frames lie in order on the stack and hold
  closures (`StackOK`, `FramesOK`), open upvalues point at its slots (`OpenOK`),
  globals, method tables and the compilers' chain hold what they should. The intern table holds
  every live string once, and at the sweep, when it has been weeded, every marked one (`StringsOK`).
  The marked objects are closed under pointers but for the gray ones, and are
  contained in every closed set that holds the roots (`CollectorOK`), from which
  both directions follow: what is reachable stays, what is garbage goes.
* `CallOK`: for each place where a handler stands at an allocation, what it
  will use after it is on the stack, or is rooted some other way. This is what every
  caller of a constructor relies on; it is why a collection, which may start at any of these
  places, takes nothing away that `c` holds.

Since the heap is changed in few ways, the steps reduce to lemmas about them
(`Evolves`: objects are added or written and keep their types), so that each action
has to show only what it adds to the roots.

`ValpScopesProofs` proves about `ValpScopes`, for any names and declarations and
any nesting of functions, blocks and loops, from `ScopeAssumption` (`self`
and the empty name are no identifiers, there is a declaration), all that run
`scopes` checks: `NamesResolveLexically`, `UpvaluesAreFound`,
`CapturedAreClosed`, `LoopsLeaveClean`, `LocalsStaySorted`. Again none is inductive.
`IInv == State(compilers, scopes, taken) /\ EmittedOK`, where `State` says

* of each compiler (`CompOK`), beyond its types: depths rise with the slots,
  only the topmost local may be uninitialised, its name is new in the open scope, and a loop's
  `since` splits the locals by depth (`LoopOK`), so `Below`, the loop
  of `end_scope` and `discard_locals`, stops exactly there (`BelowIs`, `BelowIsSince`);
* of the chain (`Chained`): no declaration has two slots, an upvalue finds its variable one
  level out and comes from a local further out (`UpvaluesOK`), and a local is
  marked as captured exactly if an emitted `OP_CLOSURE` captures it or the one of
  the function inside will (`CapturedOK`);
* of the scopes (`LayoutOK`): each is that of a depth in a level, in that order,
  every depth of every level has one, and it holds the initialised locals of that
  depth and no others.

From the last two, the last local of a name in the innermost function that has one is
what the source means (`MeantIs`). `Entries` is a recursive function; that it
exists, and that what it returns at a level is the place of the captured
declaration among the upvalues there (`EntriesArePlaces`), is by induction on the level, and then
each function in between passes on the right upvalue (`Passes`, `ResolveStep`).

`ValpDispatchProofs` proves about `ValpDispatch`, for any functions, programs and
bounds, from `DispatchAssumption` (the functions have arities, bounds are natural and one
frame fits), both properties that run `dispatch` checks: `SelfIsRight` and
`ObjectsImplemented`. `SelfDescends` says of frames only what holds when a method
runs; `IInv` is what makes it hold however the method was reached:

* `ClassOK`: each entry of a method table was declared by its class, or is the
  superclass's entry of that name, all of whose names the table has; its home is
  the class or above it (`AboveIn`). `OP_INHERIT` copies a table only once
  and before any `OP_METHOD` of the class, and a class under declaration cannot be inherited from, which is
  why no table is out of date (`ClassesStep`: only the last class changes).
* `ValueOK`, of each temporary, argument and field: a bound method carries an object
  of a class below the method's home, so that calling it later, from any place,
  is right; these facts outlast every new class and object (`Kept`, `ValueStays`).
* `FramesOK`: the windows of the frames are disjoint and end below the
  temporaries (`Base`), so no push, call or assignment to a temporary writes
  another function's self or arguments (`Agrees`, `FramesStay`).
* `DeclaringOK`: the class whose body runs is the last one, and is on top of the stack.

The refinement maps what is copied and flat to what is neither. `Objects` looks for a method by
climbing from the object's class; a lookup in the copied table gives the
same (`DeclarerIs`: `Declarer`'s recursion has a solution, only one, and
it is the home in the table, by the least class where it was not). A frame of
`Objects` holds its self and arguments; `ActiveOf` reads them from the stack, and
`ActiveCalled`, `ActiveReturned` and `ActiveStays` say what calls, returns and
everything else do to them. What `OP_INVOKE` fuses is then a read followed by a call
(`InvokeSeen`), and its error paths are those of the two steps.

`ValpScannerProofs` proves about `ValpScanner`, for any source, from
`ScannerAssumption` (the classes of characters are told apart), both
properties of tokens that run `front_end` checks: `TokensTileHolds` and
`LongestTokenHolds`. `TInv` adds to the tiles the position of the scanner
(`Position`) and what lies between the last token and the next character: only
what may be skipped, or such and the part of a token under way (`Between`). For
the longest match `WInv` adds what was read of that token (`Reading`), from
which, when the scanner stops at a character that does not go on, no longer text can be a
lexeme; keywords are told letter by letter as `identifier_type` does. The
assumption is needed: with one character in two classes the longest match fails.

`ValpTypesProofs` proves about `ValpStrings` (`Str` of `ValpTypes`), for any characters, texts and bounds,
from `StringAssumption`, the three string properties that run `types` checks:
`CopiesAreRightHolds`, `EqualStringsAreOneHolds` and `MethodsGiveHolds`.
`StringsInv` adds that a string nobody wrote into is found under its characters
(`Sealed`). One that was written into keeps its old hash, and no copy is
mistaken for it, since `hash_find_string` compares the characters as well. What `split`
makes is by two recursions, where the text is cut (`cuts`) and the copies of the pieces
(`copy_strings`); that both functions exist and are what they say is by
induction over natural numbers, from the least-element principle (`Naturals`,
`CutsAre`, `CopiesAre`). A slice reads behind its piece, up to the buffer's end; as a C
string it is the piece all the same (`SliceIs`).

About `ValpArrays` it proves, for any arrays, values and bounds, from
`ArrayAssumption`, `ImplementsListsHolds` (`Spec => ImplementsLists`) and
`ArraysTypeOK`. `ArraysInv` says what each loop has done so far: a literal's
elements are its first operands (`Filling`); what an insertion moved is no memory
realloc left (`Inserting`); every call of `array_equal` found the elements before
its counter the same, called the next one for those at it, and compares arrays
that are the same if the outermost two are (`Comparing`). `ElementAt` spells what is
seen while a loop runs, so that its turns change nothing seen, and its last step
is the step of `Lists`. `Lists` compares as deep as there are pairs of arrays;
that this is deep enough, and a fixpoint, is `SameFixed`: each level finds a pair
that the one before did not, or nothing changes any more, and there are only so
many pairs. It is why a comparison that returns is right even about arrays that
hold themselves.

Only model-checked: liveness (`CallsReturn`, `ComesToAnEnd`, `ReachesTheEnd`),
which is beyond the prover, and the modules with recursive operators (`ValpMeaning`,
`ValpCode`, `ValpGrammar`, `ValpParser`), where tlapm has no backend.

## What is not modelled

Numbers beyond what comparisons tell apart, and printing; NaN boxing, which is
off and does not compile; the byte accounting that decides when to collect (any
moment is allowed instead); the limits of 256 locals, upvalues, cases and
arguments, and of 64 KB of code; the operand stack's end; line numbers of
instructions; names of natives other than as entries of the globals; reading
files and lines; the disassembler, which only prints.

## The plan

1. *Done:* `Dict`, `ValpHash`; `ValpHeap`, `ValpMemory`; `Variables`,
   `ValpClosures`; `ValpScopes`; `ValpMeaning`, `ValpCode`; `ValpClosuresRepl`;
   `ValpConstants`, `ValpGlobals`; `ValpGrammar`, `ValpParser`; `ValpScanner`, `ValpFrontEnd`; `Lists`,
   `ValpArrays`; `ValpStrings`, `ValpTypes`; `Objects`, `ValpDispatch`; the proofs about
   `ValpHash`, `ValpClosures`, `ValpClosuresRepl`, `ValpConstants`, `ValpMemory`,
   `ValpScopes`, `ValpDispatch`, `ValpScanner`, `ValpStrings` and `ValpArrays`.
2. The disassembler beside `ValpCode`: it steps over each instruction by the
   width `run` does.
