# saQut: specifications, model checking and proofs

This directory holds TLA+ models of the saQut compiler, its virtual machine and
its editor tools (C++17, `src/src/`), TLC configurations that check them on
small instances, and TLAPS proofs of what matters most.  Every definition is a
translation of code; `PROJECT.json` names, for each one, the lines it stands
for, and for each property a mutated definition that breaks it.

Contents: 1 the system, 2 the modules, 3 the runs, 4 fairness and bounds, 5 the
proofs, 6 what is not modelled, 7 known divergences, 8 the plan.

## 1. The system and its components

Source text flows through lexer, parser, symbol collector, type checker,
optimizer (on a clone of the tree) and IR generator into an `IRProgram`, which
the bytecode VM runs or, with `--jit`, MIR compiles.  The LSP server runs the
front half on every change of a document; the DAP server owns an `Interpreter`
and drives it in bounded chunks from the thread that also reads the requests.

| Component | Source (`src/src/`) | State | Operations | What is hard | What makes it correct |
|---|---|---|---|---|---|
| VM heap and collector | `vm/object.*`, `Interpreter::maybeCollect`, allocations and stores, `data/array.cpp` | intrusive object list, `markState`, `marked`, `gcCycleActive_`, `gcThreshold_` | mark roots, scan a budget of Grey objects, sweep, allocate, store with or without write barrier | a collection is spread over many instructions and the program keeps rewriting the graph | nothing reachable is deleted; garbage goes; a collection ends |
| JIT memory | `jitMaybeCollect` and the trampolines in `mir/mir_backend.cpp`, `vm/shadow_stack.hpp` | registers, shadow stack, globals, pending error | mirror a register, call, return, collect | the collector cannot see registers; one array of mirrors serves all calls | what is mirrored is never swept; a call does not disturb its caller's mirrors |
| Control flow, exceptions | `ir/ir_generator.cpp` (statements), `ENTER_TRY`/`LEAVE_TRY`/`THROW`/`CALL`/`RETURN` in `vm/interpreter.cpp`, the same in `mir/mir_backend.cpp` | instruction list, back-patch lists; `callStack_`, `tryStack_`; the pending error of compiled code | lower statements; enter, leave, throw, call, return | early exits out of `try`, unwinding over frames, `break` and `continue` in nested loops and switches; compiled code has no try stack | VM and compiled code do what the source says; a throw reaches the nearest `catch` |
| Values: type checker, optimizer, generator, VM, JIT | `semantic/type_checker.cpp`, `opt/`, `ir/ir_generator.cpp` (expressions), `vm/value.hpp`, `core/decimal.hpp`, `mir/mir_backend.cpp` | types written to the tree, slots and their types, values, registers | check, fold, generate, run, translate | five passes choose by type, each from its own tables; a conversion that one expects another has to emit | an accepted program prints its meaning, with and without optimizer; VM and JIT agree |
| Parser | `parser/parser.cpp`, `parser/token.hpp` | place in the text, errors, panic | parse every declaration, statement and expression; recover | recovery must progress; the tree depends on levels, stop tokens and lookahead | it ends, reads back what was written, drops nothing in silence and recovers |
| Scopes and slots | `IRGenerator::registerVariable`, `pushScope`, `popScope`; `symbol/symbol_table.hpp` | `nameToSlot_`, `shadowStack_`; chain of scopes | declare, open and close a block, look a name up | two walks of the same tree must agree on what a name means | a name is compiled to the declaration the checks resolved it to |
| Debug execution | `Interpreter::runUntilEvent` | `breakpoints_`, step depth and line, budget, resume line | run, pause, step over, into and out | stops over budget chunks, recursion, resume | each stop is where the debugger asked |
| DAP session and framing | `dap/` | `vm_`, `varRefs_`, `pendingRequests_`, the bytes read | the requests, whole and in parts, the runs in chunks, the end of the input | requests arrive while the program runs, the client goes away | every request answered, in order; a run can be interrupted; the server ends |
| Module loader | `module/` | `units`, `seen_`, `loadChain_` | depth-first load, cycle detection | diamonds, circles, missing files | each file once; a circle reported exactly when there is one |
| Imports and module initialisation | `SymbolCollector::validateImports`, `IRGenerator::generateModuleGraph` | import table, global slots, order of units | bind imported names, initialise globals | order, equal names | an importer sees initialised globals |
| LSP documents | `lsp/document_store.cpp`, `lsp/lsp_handler.cpp` | open documents, published diagnostics | didOpen, didChange, didClose, publish | the programs of several open documents overlap | the editor shows the errors of the texts it has |
| LSP queries | `lsp/lsp_handler.cpp` | none of their own | hover, definition, completion, rename, tokens | — | answers fit the last good table |
| Lexer | `lexer/`, `tokenizer/` | place in the characters | cut a text into tokens | — | each token is the longest one |
| Host interface, command line, benchmarks | `ffi/`, `cli/`, `diagnostic/`, `bench/`, `profiling/` | registry, options | call, print, measure | input and output | a call reaches the function it names |
| Third-party code | `mir/vendor`, `vendor` | — | MIR, nlohmann JSON | — | external |

How they meet in the models: `ControlVm` and `JitControl` run what `Lowering`
produces; `Compile` sends a program through `TypeRules`, `Optimizer` and
`FunctionCode` and runs the code in `ValueMachine` and in `JitMachine`;
`DapSession` extends `DebugRun`, so the server and the VM are one thread as in
the code, and every session is proved to drive the debugger as `DebugRun` allows
(`DebuggerInside`); `ModuleNames` extends `ModuleLoading` and goes on where the
loader ends; `LspDocuments` takes from `ModuleLoading` exactly what is proved
about it (`Cuts` of `ImportGraph`, `LoaderCuts`);
`VmHeap` implements the abstract `Memory`, and the two backends, `ControlVm` and
`JitControl`, the abstract `NearestCatch`.

## 2. Modules

| Module | Models |
|---|---|
| `Memory` | abstract: what a program may assume about memory |
| `VmHeap`, `VmHeapProofs` | the heap, the incremental tricolour collector, every instruction that touches a reference; the inductive invariant, safety, the refinement of `Memory` |
| `JitHeap`, `JitHeapProofs` | registers, shadow stack and the stop-the-world collection of compiled code, for an arbitrary program |
| `Lowering` | from statements to bytecode by back-patching |
| `NearestCatch` | the instructions, and abstractly where an error goes: to the nearest enclosing catch |
| `ControlVm` | the VM executing that bytecode: the same instructions, and the try stack by which it finds the catch |
| `JitControl` | the same bytecode compiled: the pending error and where it jumps; both backends as implementations of `NearestCatch` |
| `ControlVmProofs` | for every bytecode: the try stack, the table of handlers, and that both implement `NearestCatch` |
| `Meaning` | abstract: what a structured program does |
| `Types`, `TypeRules` | types and trees; the type checker and the table of methods it reads |
| `Optimizer` | constant folding and dead code elimination |
| `Opcodes`, `FunctionCode` | instructions and what the VM computes for them; the code of expressions, statements and functions |
| `Values`, `Methods` | arithmetic of every type; the methods of strings, arrays and structs |
| `ValueMachine` | the VM on values |
| `JitMachine` | which programs the JIT takes; what its code computes |
| `Evaluation` | abstract: what a checked program prints |
| `Compile` | a program on its way through all of these |
| `Tokens`, `Parser` | tokens as the parser sees them; recursive descent, Pratt's loops, panic |
| `SourceText` | abstract: the text of a tree |
| `Scopes`, `ScopesProofs` | the scopes of the symbol collector and the slot map of the generator, over the same walk |
| `DebugRun`, `DebugRunProofs` | `runUntilEvent` and the debugger's commands |
| `DapSession`, `DapSessionProofs` | the debug adapter around it, and a client |
| `ImportGraph` | reachability and circles of an import graph |
| `ModuleLoading` | `ModuleLoader::loadUnit` |
| `ModuleNames`, `ModuleNamesProofs` | names, imports, global slots and initialisers of the loaded program; the properties of both for every import graph and program |
| `LspDocuments`, `LspDocumentsProofs` | open documents, their compilation, what is published |
| `MC...` | instances for TLC |

**VmHeap.** One turn of the interpreter loop is a safepoint (`maybeCollect`)
and an instruction; `phase` says where in the turn the VM is.  `list` is the
intrusive list from `Heap::head`, `cell` the fields of structs and the elements
of `Ref` arrays; a value that is not a reference is `NoRef`.  Scanning and
sweeping take one object per step.  Freed addresses are handed out again.
The write barrier is called by `FIELD_SET` and `ARRAY_SET` but not by `push`,
`insert`, `slice` or `concat`.  That is safe because the roots are marked again
at *every* safepoint of a cycle, so no instruction of a cycle ever holds a
White object (`RootsSeen`) and nothing White can be stored into a scanned one
(`Tricolour`).  It rests on `CycleKeepsThreshold`: the branch of `maybeCollect`
for "below the threshold, cycle under way", which does not mark the roots, is
never taken.

**JitHeap.** Compiled code keeps references in registers and copies some of
them to the shadow stack at the offset that its function was given; a call moves
the base up and a return or an error moves it back.  `jitMaybeCollect` keeps
what the shadow stack, the globals and the pending error lead to.  The program
is arbitrary: any instruction may follow any other.  The result of a string
concatenation is in a register only (`mir/mir_backend.cpp:1759`), and the model
lets it be swept: what is promised is about mirrored registers.

**Lowering, NearestCatch, ControlVm, JitControl, Meaning.** `Lowering` turns a statement into
instructions as `generateStatement` does, with the loop contexts and the lists
of jumps to patch.  `NearestCatch` has the instructions, one action each, and
bytecode, whatever made it (`Code`); an error finds its catch by looking at the
code of the frames (`Catch`, `Report`).  `ControlVm` extends it by the try stack,
which is how the VM does it; the runs give it the lowered programs.  Conditions are answers of the
host (`Ask`), so both ways of every test are taken.  `JitControl` is the same
code compiled: an error is a pending value that is looked for behind the
instructions that can raise one, and where it jumps was decided when the
function was compiled.  `Meaning` evaluates the statement itself; `FollowsSource`
says that trace and result of a finished run, in either, are what `Meaning`
gives for the same answers.  `ErrorsFindTheirCatch` says that both implement
`NearestCatch`, which has neither try stack nor pending error: while an error is
pending in compiled code, the program is already where the error will take it
(`SourceStack`, `Delivered`), and the functions left on the way are stuttering.
What the slot holds that waited for a function left by an error is not promised
(`Interrupted`): the VM leaves it alone, compiled code writes to it.

**The value chain.** A program is a list of statements over declared variables.
`TypeRules` writes types into its tree or rejects it; `Optimizer` may fold it;
`FunctionCode` writes its code with the types of its slots; `ValueMachine` runs
it; `JitMachine` says whether the JIT takes it and what its registers then
hold: reading a number as a pointer, or a register never written, is
`Strayed`, since what happens then is undefined.  `Evaluation` gives the meaning
without slots and opcodes, each value of the type the checker gave it.  Widths
are scaled: an int has 5 bits, a longint 11, a byte 3, and a floating value
counts in halves with a bound beyond which it is rounded, so that every
wrap-around and every loss of precision happens to small numbers.

The code is known to differ from the meaning for some kinds of programs (7
lists them).  `Evaluation` marks a run that meets one with a tag in `odd`, and
the two properties leave runs with a tag out, `PrintsTheMeaning` only for the
tags that concern the VM.  The tags, and where the code they stand for is:

| Tag | What the run has met | Code |
|---|---|---|
| `unconverted` | a value that is not converted to the wider type of its place: assignment, argument, return; a decimal element | `ir/ir_generator.cpp:889` (no conversion, against 296 for declarations) |
| `null widened` | a null where a type without null is wanted | `semantic/type_checker.cpp:456` (narrowing by name) |
| `alias` | a variable changed while its value waits as an operand: the operand is the variable's own slot | `ir/ir_generator.cpp:885` |
| `compound` | `op=` on anything but an int, or a string with `+=`: always the int opcode | `ir/ir_generator.cpp:942` |
| `null used` | a null in arithmetic or a cast: a field of the value is read that does not count | `ir/ir_generator.cpp:1485`, `vm/value.hpp:103` |
| `truth` | an operand of a short circuit that is not a bool is handed on as it is | `ir/ir_generator.cpp:1079` |
| `other types` | comparing types that have no type in common | `ir/ir_generator.cpp:1061` |
| `no operation` | an operator that the type has no opcode for: `%` of doubles, bits of decimals | `ir/ir_generator.cpp:1570`, `vm/interpreter.cpp:535` |
| `postfix` | `++` on anything but an int: the int opcode | `ir/ir_generator.cpp:1237` |
| `null element` | a null put into an array | `data/array.cpp:103` |
| `odd cast` | a cast with the wrong source opcode (`decimal as int`, `longint as double`) | `ir/ir_generator.cpp:1399` |
| `unset` | a field or element whose default is an int 0 of another type | `vm/interpreter.cpp:872` |
| `unwritten` (JIT) | a variable declared without a value: its register was never written | `ir/ir_generator.cpp:370` |
| `negated box` (JIT) | `!` of a string or decimal: a pointer is compared | `ir/ir_generator.cpp:1024` |
| `nullable box` (JIT) | a nullable string, decimal or float from a call, field or parameter | `mir/mir_backend.cpp:1533` |
| `decimal element` (JIT) | elements of a decimal array | `mir/mir_backend.cpp:2257` |

**Tokens, Parser, SourceText.** A token is its spelling; a rule of the parser
takes and returns its state.  All rules call each other through `Parse`.  Two
histories say whether a loop went round without taking a token (`stuck`) and
where a token that matters was passed over with no error (`dropped`).
`SourceText` writes trees with the fewest parentheses that the grammar's levels
allow.  The exceptions in `NothingDropped` and `RecoveryGoesOn` are known
divergences (7).

**Scopes.** One walk over a function updates both name tables: the collector's
`scopes` and the generator's `nameToSlot`, `shadowStack` and `globals`.  A
symbol of the collector is written as the place of its declaration, so that
"both mean the same" is an equality (`NamesAgreeUnlessReused`).

**DebugRun, DapSession.** A program is a table of instructions with lines;
branches go either way.  `RunLoop` is the loop of `runUntilEvent`, an action per
way it can leave or go on.  `DapSession` has an action for each request handler,
which for a run or a step only begins it: the VM's steps follow as `VmStep`,
while the client keeps sending.  `Poll` and `PauseRun` are what happens between
two chunks.  `SendPart` is a frame of which only the beginning has arrived:
`FrameReader` counts it as pending input, so the run that looks for a pause
waits in `readMessage` for the rest (`Blocks`), and a frame that is cut off at
the end of the input keeps the server from seeing that end.

**ModuleLoading.** `loadChain` is the recursion of `loadUnit` made a stack;
`todo` are the imports a file's loop has still to take, in any order.

**ModuleNames.** After the loader, one action per element that a pass walks:
`Register`, `ValidateImport`, `CheckBody` are the passes of
`collectModuleGraph`, `Number` and `Initialise` those of `generateModuleGraph`;
`unit` and `item` are where the loops of the pass are, `allGlobalVars` is the
list of globals that `Number` fills and `Initialise` walks.  All tables are flat
maps by name.  A declaration is a function or a global with an initialiser and
the names it reads; an import has the name it asks for, the name it makes
visible, and for its path the set of files the text is an ending of.

**LspDocuments.** A text is what matters of it to others: whether it has an
error of its own, whether it exports the name its importers use, what it
imports.  A compilation is one step, since the server is one thread; which
imports the loader reports as circular is any choice that `Cuts` allows: imports
on a circle, at least one of each circle among the files it loads.  That the
loader reports such a set is its property `LoaderCuts`, with the theorem
`ReportsAreCuts`.  Names of different files are distinct and each file has one
URI.

## 3. Runs

| Run | Question | Instance |
|---|---|---|
| `heap` | can calls, returns, throws, globals and stores lose an object to a collection of budget 1? | 3 objects of 1 cell, 2 slots, 1 global, depth 2, threshold 2 |
| `heap_live` | does a cycle end, and is garbage deleted? | 3 objects, 1 cell, threshold 1: a cycle begins with one object, two are born before its sweep |
| `jit_heap` | is a mirrored reference ever swept or overwritten? | 2 objects, 2 registers, main with two mirrored and its callee with one |
| `control` | do the bytecode and the compiled code do what the source says, and implement `NearestCatch`? | two statements of every kind nested in every order around every leaf, and a callee |
| `control_escaping` | also when `return`, `break` or `continue` leaves a `try`? No: finding | the programs left out of `control` |
| `compile` | does an accepted program print its meaning, optimised or not, and do VM and JIT agree? | some thousand programs: every operator on every pair of types, conversions, casts, null tests, arrays, structs, methods, calls |
| `parse` | does the parser end, read back, drop nothing, recover? | all texts of up to 3 tokens, prefixes of every construct followed by any 2, the texts of some 15 000 trees, broken statements before good ones |
| `scopes` | do both name tables agree and do blocks leave no trace? | 3 local names, one of them of `for`, one of `catch`, one of a global; bounded nesting and slots |
| `debug` | do breakpoints hold and do steps end where they should? | five programs: branches and calls over two files, the same without the entry stop, throws over frames, recursion, a loop in chunks of 3 |
| `dap` | is every request answered once, in order, whatever the program does? does the session only do what `DebugRun` allows? | programs that end, fail, loop and hang; 7 requests, whole or in parts, chunks of 2 |
| `modules` | is what is reachable loaded, and is exactly a cut of the circles reported? does an accepted program read only what it may, and are its globals initialised? | every graph over 4 files with at most 2 imports each, at most one file missing; 960 programs over 3 of them, some with imports that rename |
| `lsp` | does the editor show the right errors? | 3 files, a circle, a self-import, errors, missing files |

The finding of `control_escaping`: an exit out of a `try` body skips
`LEAVE_TRY`; the entry stays on `tryStack_` and takes a later throw, even of
another function.  `control` leaves such programs out for the VM, and for the
JIT those with an element in the body of a `try`
(`mir/mir_backend.cpp:2311`: the inline check leaves the function past its own
handlers).

`PrintsTheMeaning` and `BackendsAgree` are differential properties: two
translations of the same program, written from different code, have to end in
the same output.  The parser's model was itself compared with the compiled
parser: the sequences of error codes are the same on 12 000 random texts.

## 4. Fairness and bounds

- `FairSpec` of `VmHeap`: weak fairness of `Next`; the interpreter loop is the
  only thread and runs until `main` returns.  The program may allocate in the
  middle of a cycle as long as there is a free address; only a sweep frees them,
  so `Obj` bounds what one cycle can see born.  It stands for the memory of the
  process: the code sets no limit, and a program that allocated a new object
  between any two safepoints could prolong a cycle until memory ends.
- `FairDapSpec`: weak fairness of `Server`, one thread that always goes on.  The
  client owes nothing.  A program need not end, so `EveryRequestAnswered` and
  `EofEndsIdleServer` assume that runs end (`RunsEnd`) and `EveryPauseAnswered`
  only that steps do (`StepsEnd`); the programs include endless ones, for which
  the assumption fails and a pause is still answered.  `EofEndsIdleServer` is
  about an input that ends with a whole frame.
- `FairNamesSpec`: weak fairness of `NamesNext`; loader and compiler are calls
  that run to their end.

Bounds.  Heap: three objects suffice for a scanned one, one about to be stored
into it and one in between; budget 1 is the finest interleaving; a threshold
below the number of objects (2 in `heap`, 1 in `heap_live`) lets objects be born
in the middle of a cycle, which the next marking of the roots greys, so that the
sweep is put off; depth 2 lets a reference live
in the caller alone.  JIT heap: one object in a register and one that a store
makes it hold; a caller and a callee whose mirrors would overlap if the base were
wrong.  Control: two nested statements show every pair of contexts a jump can
cross, and callees show throws and returns over frames.  Compile: the samples of
a type hold its bounds, zero, a negative value and one that loses precision;
errors of a translation by type show up in expressions of depth two.  Parser:
every loop and every recovery is reached behind its prefix, and two tokens behind
it decide each branch but those that look over pairs of brackets, which the
texts of the trees have.
Debug: chunks of 2 or 3 instructions put every instruction at a chunk's border.
DAP: after the handshake, three requests are enough for one being executed, one
kept back and one unread.  Modules: four files hold a diamond with a circle;
the programs have an importer, a file between and one below, globals and
functions, hidden names, equal names and ambiguous paths.
LSP: an importer, a file between and one below.

## 5. Proofs

`VmHeapProofs` proves, for every set of addresses, slots, globals and cells,
every threshold and every positive budget, that `IInv` is inductive, and from
it `NoDangling`, `Tricolour`, `FlagsAgree`, `CycleKeepsThreshold`,
`SweepMakesRoom` and the refinement `Spec => ImplementsMemory`.  The
instructions are summarised by one action, `ProgramEffect` (what an instruction
may do to roots, cells and colours); each instruction is shown to be such an
effect, and invariant and refinement are proved for the effect.  `IInv` is
needed because `NoDangling` alone says nothing of colours: it adds that the
list has no object twice, that the cells of listed objects are listed, that
roots are not White during a cycle, and what the sweep has already walked.
From the same invariant follows `MarkingAdvances`, the safety half of
`CycleEnds`: while a cycle marks, no store and no allocation takes back what was
scanned, and every pass that puts the sweep off has scanned one object more, so
only new objects can prolong a cycle.  That the cycle ends under `FairSpec` is
left to TLC.  The assumptions are `VmHeapAssumption`: `NoRef` is no object, the threshold is an
integer, budget and depth are positive.

`JitHeapProofs` proves `TypeOK`, `ShadowIsMirror` and `MirroredSurvive` for
every finite heap and every layout of mirrored slots.  `IInv` adds to them what
a call relies on: the frames lie one above the other on the shadow stack, the
mirrors of one below the base of the next, for the suspended frames too; and no
register, entry, global, pending error or cell names an object that is gone (a
register whose object was swept holds `Swept` from then on).  There is a lemma for each way an
instruction changes the stack (a write, a sweep, a return, a call).  The
assumption says that the layouts
are sequences of slot counts and the set of objects is finite.

`ModuleNamesProofs` proves, for every set of files and every import graph,
`LoadedOnce`, `EntryFirst`, `CyclesAreReal`, `NoCycleMissed` and `AllLoaded`,
and from them `LoaderCuts`, the promise that `LspDocuments` builds on.
`IInv` says that the chain is a path of imports without repetition, that what
was seen is on the chain, finished or missing, and where each import that was
taken has gone (`Gone`): missing, reported, finished before its importer, or
next on the chain.  When the chain is empty the order of `finished` is
therefore a topological order of the imports that were not reported, so these
have no circle.  Reachability is "in every closed set that has the source"
(`Leads`), which needs no recursion and no induction.  The assumption is that
the entry is a file and that graphs and losses are graphs and sets of files.

`ControlVmProofs` proves `VmTryStackIsLexical` for every bytecode, whatever
generator made it, whose try bodies are left by their `LEAVE_TRY` or by an error
only (`Contained`: a body ends with its `LEAVE_TRY`, bodies are nested or apart,
no jump crosses the border of one and no `RETURN` stands in one).  The instance
assumes, and TLC evaluates, that exactly the programs without a `return`,
`break` or `continue` out of a try compile to such code
(`ContainedAssumption`).  The lemmas about bytecode say what one instruction does to the
set of bodies the program is in: nothing, for a jump, a call, a return; one more,
the innermost, for `ENTER_TRY`; one less, the innermost, for `LEAVE_TRY`; and the
handler of the innermost is outside of that and inside of all the others.
`IInv` says that every frame stands in its code, that each entry belongs to a
body that its frame is in and each such body has its entry, and that entries of
outer frames and outer bodies come first.  The last entry is therefore the one
an error or a `LEAVE_TRY` has to take, and an unwinding ends in the frame that
made it, never in one that has returned since.  The assumption (`CodeAssumption`)
is that targets are in the code or just behind it, and that what a call, a try or
an element fills is a slot of its function.

It goes on to prove `ErrorsFindTheirCatch`: both backends implement
`NearestCatch`, for every bytecode of the kind the run gives them
(`ErrorsFindCatches`).  For the VM these are the programs above; for compiled
code those of `JitFaithfulOf`, whose bodies may be left in any way (nothing is
stacked when the program runs), but with no element in a try body, where compiled
code leaves the function past its own handlers (3), and no sum of decimals in a
function that can raise nothing else: `errorCapable` does not list that
instruction (`mir/mir_backend.cpp:1360`), so nobody looks for its error.
`FaithfulAssumption`, which TLC evaluates, says that the run leaves out exactly
the programs these conditions leave out.  The steps of the argument:

- With nothing pending, the operators of the instance are those of the machine
  (`TopSame`, `FrameSame`, `OrdinarySame`), so an instruction that raises
  nothing is itself.
- `HandlersAreLexical`: the handler noted for an instruction is the innermost
  try statement around it.  The table is made by a loop over the instructions
  with a stack; the induction is over the numbers of instructions, with the set
  of those up to which the stack is what the code says (`Induct`), so that it
  needs no theorem with an operator for a parameter.
- `Stacked`: each frame that waits for another stands behind a `CALL`, and the
  slot it waits for is its own.  Every step of `NearestCatch` keeps this
  (`NearestStacked`).  So the body an outer frame is in, as its instruction
  pointer says, is the body its `CALL` is in, as the table says.
- The VM (`VmNearest`): with `IInv`, the last entry of the try stack belongs to
  the innermost body of the innermost frame that is in any, so an unwinding is
  the `Catch` of `NearestCatch`; an empty try stack is its `Report`.
- Compiled code (`JitImplements`): raising an error is the `Catch` or the
  `Report` (`RaisedStep`), whether the handler is in the function itself or
  further out; each function left after that maps to the same state
  (`OutwardStep`).  `InFlight` adds to `Stacked` that at most one error is
  pending, and that the function it leaves is then at its end and is one of which
  the backend knows that it can raise errors.

`DapSessionProofs` proves `NoRequestLost`, `AnsweredInOrder`, `ClientKnows` and
`HandlesAreFresh` for every number of requests and every program.  `IInv` says
that the requests are numbered in the order they were sent, that those unread
have the last numbers, that what was read is answered or kept back and not both,
that an answer other than that to a pause was given when nothing older was left,
and in which phase of the session which of this can be non-empty.  These four need
nothing of what the VM does to a program: they are about the queues and the
handlers around it.

It proves as well that a session implements `Spec` of `DebugRun`
(`DebuggerInside`): whatever the client sends and whenever, each handler moves
the debugger as one of its commands does or leaves it alone, and each `VmStep`
is a step of `runUntilEvent`.  The handlers do not test what the debugger's
commands require, so `Driven` has to: only known requests are queued, the server
runs or steps exactly while a command is under way and otherwise stands between
two (`InStep`), and a program is built before it is launched and launched before
it is started (`Started`).  Therefore the theorems about `DebugRun` hold in
every session (`SessionStopsRight`).

`LspDocumentsProofs` proves `DiagnosticsStayHome`, `FreshDocumentsAreRight` and
`CirclesAreShown` for every set of files and every set of texts.  The last one
is not inductive: a circle may lose the file that showed it when a document on
the way has changed.  `CirclesTold` strengthens it: take the imports of the
files that have neither changed since the document `u` was compiled nor show a
cycle; no circle of them begins where `u` leads through unchanged files.  Either
another compilation loads that beginning, and then reports a new cut, or it
loads no file of the circle and publishes nothing for them.  The lemmas about
`Leads` (larger graphs lead further; only the files on the way matter) carry it.
The assumption says what texts are and that `Missing` and `NoFile` are neither a
text nor a file.

`ScopesProofs` proves `NamesAgreeUnlessReused` and `BlockLeavesNoTrace` for
every set of names and every walk.  Neither is inductive: what holds behind the
end of a block is decided where the block began.  `Traces` says that undoing the
record on top of the shadow stack gives the map the block was entered with, and
that the map of an outer block is the one its inner block was entered with; to
add an entry to the record keeps this because a name's first entry is the one
that counts (`HasFirst`).  `Agreement` says of the current map and of the entry
map of every open block that they agree with the scopes outside that block, so
closing it leaves two tables that agree; `CatchKnown` carries the variable of a
`catch` from the head of the `try` to its handler.  The assumption is that
`None` is neither a name nor a slot.

`DebugRunProofs` proves `StepEndsWhereAsked`, `BreakpointHoldsInChunk`,
`NextStopsAtNextLine` and `StepOutStopsInCaller` for every table of programs.
`DebugInv` adds what the loop keeps in its fields while it runs: the frame and
the line a step was given in are those in `stepStartDepth` and `stepStartLine`
(`StepWaits`), the line that is passed without a stop is the one that was
reported last (`Reported`, `SkipKnown`), and a program has a frame while
it runs and none when it has ended.  The assumption says that a function is
a sequence of instructions, that targets are positive and that what is called
exists.

`ModuleNamesProofs` goes on to prove, for every program over the files,
`ReadsAreImported`, `GlobalsInitialised` and `EarlierAreInitialised`.  It first
shows that the compiler's steps are the loader's or stutter (`LoadsFirst`), so
all that is proved of the loader holds here (`LoaderInvariant`) and the passes
may rest on it: each unit is in the list once.  `NamesInv` says of every pass
what its loops have done up to the place where they are.  The argument for the
globals: the list holds the places of the globals in the order of the text, each
once; a number is the position of a declaration of its name, so a name declared
once owns its slot; `main` has filled the slots of the positions it has passed
and nothing fills them again.  The assumption says what programs are and that
`Unset` is no file.

Beyond the prover: liveness under fairness (`CycleEnds`, `GarbageFreed`,
`LoadingEnds`, the DAP properties), `ENABLED`, and induction over trees.
`Lowering`, `Meaning`, `Parser`, `SourceText` and the value chain are recursive
over trees and texts, so `FollowsSource`, `PrintsTheMeaning`, `BackendsAgree`
and the parser's properties (`EveryLoopTakesAToken`, `ReadsBack`,
`NothingDropped`, `RecoveryGoesOn`) are model-checked only.

## 6. What is not modelled

- The lexer's scanning (`lexer/`, `tokenizer/`): the parser's model begins at
  tokens.  Frames with a wrong header, and how bytes are cut into frames.
- The LSP queries: pure functions of the last good table and the text.
- The structural validator (returns on every path, unreachable code), dates,
  the clones of the optimizer, source positions, the numbering of enum members.
- Host functions, the command line, the wording of diagnostics, benchmarks,
  third-party code: input and output or somebody else's.
- Within the modelled parts: values that are not references (`VmHeap`,
  `JitHeap`), results of tests (`ControlVm`, `DebugRun`), the slots of
  temporaries (`Scopes`), the contents of stack frames and variables and a
  second launch in one session (`DapSession`), structs, enums, imports of host
  modules, sibling declarators and calls made by initialisers (`ModuleNames`), a file for
  which the parser returns no tree (`ModuleLoading`; it always returns one),
  the symbol tables kept for queries (`LspDocuments`).

## 7. Known divergences

Seen while modelling, the values and the texts with the compiled program too; no
run of their own.  Each is left out of the passing instances or allowed by the
model, so that the properties above hold.

Debugging, sessions, modules and documents:

- `ir/ir_generator.cpp:599`: a `default` clause that is not last is emitted in
  place and hides the clauses after it (`docs/adr-frontend-analiz.md:1159`).
- `ir/ir_generator.cpp:401`: `return;` in a void `main` returns slot 0 as exit
  status (comment at line 246).
- `ir/ir_generator.cpp:483`, `:654`: the head of a `for` and the variable of a
  `catch` share the scope around them, against `docs/adr-frontend-analiz.md:350`.
- `ir/ir_generator.cpp:109`: initialisers run unit by unit, the importer before
  what it imports, and a global may be read in an initialiser before its own
  (`symbol/symbol_collector.cpp:517` leaves the check to do), against
  `docs/adr-frontend-analiz.md:376`: the read gives the empty slot.
  `EarlierAreInitialised` promises the earlier ones only.
- `symbol/symbol_collector.cpp:190`: a second global of the same name is no error
  in the collector, and both initialisers store into the later one's slot;
  `GlobalsInitialised` is about names declared once.
- `symbol/symbol_collector.cpp:406`: `import {x as y}` of a file makes `y`
  visible, a name the import declares nowhere, and leaves `x` unimported; when a
  third file declares a `y`, exported or not, that one can be read.  Of a
  renaming import `ReadsAreImported` promises only that it asks for something
  its file exports.
- `symbol/symbol_collector.cpp:325`: the text `./b.sqt` ends no canonical path, so
  such an import is passed over without an error and its names are reported at
  their use.
- `vm/interpreter.cpp:369`: without `stopOnEntry`, a breakpoint on the first
  line of `main` is skipped (`dap/dap_handler.cpp:459`); `BreakpointHoldsInChunk`
  allows it.
- `vm/interpreter.cpp:419`: a jump, which has no line, ends the skipping of the
  resume line, so a breakpoint in a loop of one line stops again (363-364).
- `vm/interpreter.cpp:360`: `stepOver` from an instruction without a line
  becomes a run to the end of the frame (comment at 164).
- `vm/interpreter.cpp:454`: `stepOut` of a recursive call that returns to a
  line equal to the one it left goes on (comment at 176).
- `vm/interpreter.cpp:433`: a `stepOut` from an instruction without a line is not
  over when an error unwinds to the handler of a caller (705; comment at 176).
- `vm/interpreter.cpp:1394`: an error nobody catches leaves `runUntilEvent` as a
  C++ exception and ends the server (`knowledge-base/04_IR_Backends.md:156`).
- `dap/dap_handler.cpp:493`: `next` and `stepOut` run without a budget, so a
  pause is not read (212-215); `:260`: a `terminate` waits behind an endless run.
- `dap/dap_handler.cpp:380`: a launch of a program that does not compile writes
  its events before its response (454).
- `lsp/lsp_handler.cpp:290`: a file other than the queried one never learns that
  its last error is gone; closing an importer leaves what it reported elsewhere.
- `lsp/document_store.cpp:98`: the branch for an empty graph ("last good table")
  is never taken: the overlay always finds the document being updated.
- `ir/ir_generator.cpp:71`: a local that shadows a global is initialised in its
  slot and read from the global.
- `vm/interpreter.cpp:369`: each chunk of one `continue` sets the resume line
  anew, so a breakpoint that comes up as the first instruction of a chunk is
  skipped.
- `dap/dap_handler.cpp:261`: `poll()` reports the closed pipe as readable, so the
  branch that ends an endless run at the end of the input is not reached.
- `dap/frame_reader.hpp:37`: a frame cut off at the end of the input makes the
  server spin for ever: the comment says "no complete frame left", the code tests
  whether the buffer is empty.  `dap/dap_handler.cpp:244`: a part of a frame that
  arrives during a run blocks the run until the rest comes.

Parser (`parser/parser.cpp`, `parser/token.hpp`):

- `S[]? f;` is no declaration (385, 1201), though `int[]? f` is; `export` is
  ignored before import, ffi and auto functions; a parameter without a name ends
  the list in silence; `catch` takes any token as its name.
- Levels: `+` and `-` as prefixes take an operand of the binary level, so
  `12 / -2 * 3` is `12 / -(2 * 3)` (569; token.hpp:741); `a = b = c` is
  `(a = b) = c`; `x as int ? 2 : 3` is a cast to `int?`.
- `for (int i = 0; ; i++)` takes `i++` for the condition; `if` and `while`
  without "(" get none; statements between the clauses of a switch, the
  size in `int y[3]` and a `do` without `while` are passed over in silence;
  `int x = ;`, `[1,,2]`, `x = ;`, `x ? 2 : 3` and a missing `;` are accepted.
- A panic that begins at ";" eats the next statement (`RecoveryGoesOn` leaves
  that error out).  `date` is missing from the keywords (token.hpp:413).

Values in the VM:

- No conversion where a value is assigned, passed or returned (only where a
  variable is declared): a longint variable given an int holds an int.
- `op=` and `++` use the int opcode for every type: wrong for longint and
  decimal, an error for elements (`a[0] += 5`), an exception in the compiler for
  fields (`p.x += 5`), no change for `a[0]++` and `p.x++`; a byte counts to 256.
- Equality of longint with double or decimal, `longint < float`, `decimal as
  int`, `longint as double` and `double % double` read the wrong field of a
  value; `double d;` and a fresh float field print as ints.
- `(x = 0) + (x += 5)` and `x + (x = 3)` see the later value of `x`.
- `!n` of a null is 0 and `if (n)` is false; arithmetic with a null takes 0;
  narrowing goes by name, past shadowing and calls that change a global.
- A function declared without parameters accepts any number of arguments.
- With `--optimized`, `(-2147483647 - 1) / -1` ends the compiler
  (`opt/constant_folding.hpp:159`).

JIT against VM (`mir/mir_backend.cpp`; the comment at 970 says "incomplete
coverage is acceptable, a wrong answer is not"):

- A register that was never written is read (`int x; print(x)`); `!s` of a
  string reads a pointer; elements of a decimal array and nullable strings from
  fields print 0, from functions an address; nullable strings that were joined
  are compared by address; `longint op= int` and `longint as double` are right in
  the JIT and wrong in the VM.
- A reference that is in a register only is swept (1759, `vm/shadow_stack.hpp:24`).
- An element out of bounds leaves the function past its `try` (2311).
- A nullable global makes the JIT refuse every program; `--jit` of a program that
  it refuses is an error, the VM does not run it (`cli/commands/run.hpp:121`).

## 8. Plan

Done, in this order: the collector and its proof; control flow; scopes; debug
execution and the DAP session; the loader and its proof; names and initialisation
of several files; the documents of the LSP; control flow and memory of compiled
code; the value chain from the type checker to both machines; the parser; the
proofs about the JIT's memory, the DAP session, the documents, scopes, debug
execution, names and the try stack, and that both backends send an error to the
nearest catch.  What remains:

1. The lexer over characters; headers of DAP and LSP frames.
2. The queries of the LSP on a stale table (`lsp/lsp_handler.cpp:1255`).
3. Second launches in one DAP session; dates and their JIT trampolines.
