# Verification of the TC compiler and virtual machine

TC is a small statically checked language. `tc` (src/src/vm) reads a program and
its imported `#lib` modules, analyses it in a fixed sequence of stages and runs
it with a tree-walking executor over one flat array of static slots; the same
front end feeds an ahead-of-time compiler (src/src/aot) and a host interface
(src/src/vm/embed) that calls single functions of a program. The executor trusts
the analyzer: it has no check of its own for unset variables, for jumps nobody
takes, for re-entered functions, for missing returns, or for the type of what it
puts into a slot. What the two sides
promise each other is the subject of this project.

Paths below are relative to the repository root.

## 1. Inventory

| Component | State it keeps | Operations | Talks to | What makes it correct |
|---|---|---|---|---|
| Lexer, parser (`src/vm/lexer`, `src/vm/parser`) | token cursor, AST under construction | one recursive-descent function per construct | hands the AST to the analyzer | blocks close where the source closes them |
| Statement index (`tc_stmt_index.h`) | none: a numbering of the AST | subtree counts, block ranges, skipping | every later part names statements by it | one preorder numbering, the same everywhere |
| Module loader (`tc_module.c`) | `out->deps`, dependency graph, colours | collect imports, load, cycle check, order | parser, file system; later stages walk `deps` | each needed module once, cycles found, importees first |
| Symbols, scopes (`tc_analyzer_pass1.c`, `tc_analyze_6a.c`, `tc_scope.c`, `tc_symbol.c`) | one symbol table for all modules, scope frames, labels, slot counter | define, close a scope, look up (by name, by definition, by statement index, in this and other modules), labels | all checks, flow analysis, the executor (by slot, by name) | every lookup finds the declaration the source means |
| Semantic checks (`tc_analyzer_pass2*.c`, `tc_*_check.c`) | bindings written into the AST | one function per statement or expression kind | const evaluation, CFG, executor | nothing ill-typed reaches the executor |
| Constant evaluation (`tc_const_eval.c`) | values of constants | fold expressions | CFG pruning, static initialisation | same result as the executor |
| Static members (`tc_static_init.c`) | in-degrees, queue, which constants have a value or failed, the deferred diagnostic | order and evaluate static lets, check static vars; prepare them in the VM | constant evaluation, diagnostics, executor start | each member is what its initialiser says, whatever the order |
| Call graph (`tc_callgraph.c`) | edges, Tarjan's index, lowlink, stack | collect, components, pick the error | executor (static parameters) | no function can re-enter itself |
| Flow analysis (`tc_cfg.c`) | nodes, edges, loop/goto/return fix-ups, IN and OUT bit sets | build, prune, reach, fixpoint, diagnose | executor (unset slots, jumps, return) | verdict = verdict over paths |
| Executor (`tc_executor.c`, `tc_call_frame.c`) | slots, statement cursor, call frames, C stack | one function per block, if, while, statement, call | heap values, diagnostics, I/O | follows the CFG; context restored after a call |
| Structs, memblocks, pointers (`tc_struct_exec.c`, `tc_memblock_exec.c`, `tc_ptr_exec.c`) | heap blocks, handles in slots, slot numbers as pointers | construct, clone, load, store, copy, field access | executor, static initialisation | values have no aliases |
| Embedding (`tc_embed.c`) | slot array, `tmp_top`, `tmp_marks`, error flag | create, call, slot access, temporary regions, make_ptr | host, executor | arrays of the host are its own |
| AOT (`src/aot`) | emitted text | one emitter per construct, run-time library | C compiler | same behaviour as the executor |
| libtc, driver, I/O, diagnostics | handles, streams, message buffers | compile, run, print | all | reporting |

Everything is single threaded and nothing is persisted: there are no crashes to
recover from and no messages to lose. The hard behaviours are others:

* a tree walk that must act like a graph: jumps unwind C calls and blocks are
  restarted with a cursor that is not where the block thinks (Executor);
* a fixpoint whose visiting order has nothing to do with the shape of the graph
  (DefiniteInit);
* static slots in place of frames, made safe by a check in another stage
  (CallGraph, Calls);
* pointers into arrays that grow, and recursion over graphs with cycles
  (ModuleLoader);
* long sequences of host calls of which any may fail (Embed);
* values that are really handles, so that every statement has to remember to
  clone (Values);
* stages that run over all modules and constants in an order of their own, and
  go on after one has failed (Statics);
* one table of names for all modules, looked up in many ways by passes that
  each walk and number the statements anew (Symbols, Checker);
* checks of types that the executor relies on blindly, spread over the forms of
  right-hand sides, some by the outermost type only (Rules, Judgements, CheckedRun);
* errors that leave half of the work done.

`PROJECT.json` lists these as hazards at their lines, with the properties that
would catch each.

## 2. Modules

| Module | Models | State and actions |
|---|---|---|
| `StmtTree` | the numbered body of one function and what stages 1 to 10 guarantee of it (`WellFormed`) | operators only: block ranges, loops, visibility, legal goto targets, read and write sets |
| `ControlFlowGraph` | the CFG builder, constant pruning, reachability, unreachable statements, missing return | operators only; node numbers keep the creation order of `tc_cfg_add_node` |
| `DefiniteInit` | `tc_analyze_definite_init` | `in`, `out`, the rest of the sweep `todo`, `changed`; `Visit`, `Resweep`, `Check` |
| `FlowWalk` | the abstract promise: control walks enabled edges of an accepted graph | `at`, `written`; `WalkStep` |
| `Executor` | one activation of a body in `tc_execute_block/if_at/while_at/statement_at` | `stack` is the C stack, `ctl` the returned `TcExecControl`, `next` is `ctx->index.next`; one action per step of each C function |
| `AcceptedRun` | flow stage, then execution | composes `FlowWalk` (INSTANCE) and `Executor`; `FollowsTheGraph` is the refinement: the executor implements `FlowWalk` |
| `CallGraph` | the recursion check | Tarjan with its C recursion as `visits`; `Root`, `Neighbour`, `Leave`, `Decide` |
| `Calls` | `tc_exec_call_function` with static parameter slots, for programs the check accepted | EXTENDS `CallGraph`; `HostCall`, `CallStmt`, `StoreArg`, `EnterBody`, `StoreIntoParam`, `Fail`, `EndCall` |
| `ModuleLoader` | `tc_collect_imports_recursive`, `tc_build_and_check_dag`, `tc_module_topological_dep_order` | `deps`, `cap`, `block` (which allocation), the three recursions as stacks |
| `Embed` | the slot array of one `TcEmbedCtx` under any order of host calls | `slots`, `tmpTop`, `marks`, `err`, `rc`; `open` is the host's abstract view |
| `Aggregates` | what structs and memblocks hold, as cells; element addresses | operators only |
| `ValueStore` | the abstract promise: a variable owns its value, of whatever type | `value`, `target`, `assigning`; one action per kind of statement, no handles, no heap |
| `Values` | how the executor keeps values: `tc_struct_exec.c`, `tc_memblock_exec.c`, `tc_ptr_exec.c` and the storing statements of `tc_executor.c` | `slots` (scalars and handles), `heap`, `ptr`, `pending` (field assignments in their right side); `ImplementsValueStore` is the refinement |
| `Statics` | the static members of the modules from the dependency graph to the first statement: `tc_func_eval_static_lets`, `tc_func_check_static_vars`, the deferred diagnostic, `tc_exec_init_all_static_vars` | `file`, `degree`, `queue` (Kahn's algorithm), `constant`, `failed`, `pending`, `report`, `slot`; one action per outcome of an initialiser |
| `Arithmetic` | the integer operations of `src/vm/runtime` (`tc_sem_int.c`, `tc_sem_bitwise.c`, `tc_sem_cast.c`, `tc_semantics.c`), the folding that uses them (`tc_const_eval.c`), the executor's typed loads and the compiled program's bare ones (`tc_aot_rt.c`) | `slot` (the executor's tagged slot), `raw` (the compiled program's word), `instr`, `status`, `exit`; `Fold` for constants, `Start`, `Fetch`, `Execute`, `Copy` |
| `Symbols` | the symbol table of all modules and every way a name is looked up in it: `tc_symbol.c`, the lookups of `tc_analyzer_pass2*.c`, `tc_cfg.c`, `tc_scope.c`; labels | operators only |
| `Types` | types, their equality, sizes, and the struct table: `tc_types.c`, `tc_struct_check.c` | operators only; a type is the sequence of its constructors |
| `Rules`, `Judgements` | what the second pass says of an operand, of a right-hand side, of a store, a call, a format: `tc_analyzer_pass2_rhs.c`, `tc_type_check.c`, `tc_ptr_check.c`, `tc_memblock_check.c`, `tc_struct_field.c`, `tc_func_check.c` | operators only; a judgement is a code, "ok" or the diagnostic |
| `Checker` | `tc_analyze` from the loaded modules to the flow stage: structure, struct registration, first pass, labels, second pass, for all modules | `stage`, `turn`, `pos`, `next` (`TcStmtIndex`), `blocks`, `structs`, `table`, `frames`, `labels`, `scopes` (visible tables), `bound`, `report`; one action per kind of statement in each pass |
| `LexicalScopes` | the abstract promise: what a name, a goto and a struct mean, read off the nesting of the source | EXTENDS `Checker`; operators and properties, no frames, no indices |
| `CheckedRun` | the executor on the statements of a program `Checker` accepted: `tc_execute_statement_at`, `tc_eval_rhs`, the files for pointers, blocks and structs, calls | EXTENDS `LexicalScopes`; `memory` (a tree of parts per slot), `handed` (arguments before and after each call); `Begin`, `RunDefine`, `RunAssign`, `RunStore`, `RunIo`, `RunCall`, `RunDone` |
| `MC*` | instances for TLC | `MCPrograms` enumerates all bodies of a given shape, `MCChecker` families of small programs |
| `FlowWalk_proofs`, `Embed_proofs`, `ModuleLoader_proofs`, `Calls_proofs`, `Statics_proofs`, `Values_proofs`, `Arithmetic_proofs`, `AcceptedRun_proofs` | theorems and proofs | |

### Choices of abstraction

* *Statements.* A body is flat tables over preorder indices, exactly the
  numbering the CFG and the executor share. A variable is named by the statement
  that defines it; expressions are the slot they read and the static value of a
  condition (true, false or unknown). Evaluation is a choice: either branch of
  an unknown condition, success or a run-time error.
* *The two recursions.* C calls become explicit stacks, because what is
  hard about the executor is what happens between the return of one call and
  the next action of its caller.
* *Memory.* The dependency array is its contents, its capacity and the number of
  its allocation; `realloc` may or may not move. A read through a pointer of
  an older allocation may still find the old bytes, or crash (`ReadFreed`).
* *`Embed`.* Slots hold one word. A call of a TC function stores the
  arguments and then makes one store anywhere it may (declared slots, or an
  element of an open array through its pointer) before it succeeds or fails;
  more stores are more calls. The host ends arrays it opened, or ends once too
  often. `make_ptr` of no elements opens no region (see section 6).
* *`Values`.* One cell per scalar: no widths, no padding. A memblock has its
  header cell, because the bounds checks read it. The executor frees blocks only
  when the program ends, so the heap grows for ever; a block nothing refers to
  can never be found again (handles come from slots, from the analyzer's constants
  and from a field assignment under way), so the model gives its name out
  again. That the reuse cannot be noticed is part of what the refinement checks. An
  assignment, a definition, an argument and a result are one action (`Copy`,
  `Construct`, `PtrLoad`, `LoadElement`): in the code they are four places that
  each clone by type. Two statements do not clone (disagreements 8 and 18): `shared` is the
  set of types of which one of them has stored a handle. A block that is accessed as if it
  were larger or of another type (`Overrun`) ends the run, and `outside` says which types it
  was: from then on the program reads or writes bytes that are nobody's. It happens
  where the constructor of a type is wrong (`Misbuilt`, disagreement 31), in a copy between
  different elements (`Alike`, 21), and to the variables of `Mistaken`: those some statement
  gives a value of another type that the checks let through, or the width of a homonym
  (22, 23, 24, 32). What such a run does before it goes wrong is in the model, and what
  remains true beside it is what the properties say. A static variable with a wrong
  constructor is stopped at once; in the code it is the next statement that reads it.
  A callee running inside a field assignment can name the base only if it is
  static (`Nameable`), but can reach it through a pointer.
* *`Statics`.* An initialiser is a sum of two operands, a copy, a struct of one
  field or a conversion: the kinds of right sides the code treats differently when
  it collects dependencies, evaluates and prepares. An operand is a literal, a
  member or a field of one, of the same module or an imported one; a member is named by its
  place, so names, types and accessibility are right. A sum above `Limit` is the
  evaluation that fails. A place's second half is its line: `tc_diagnostic_defer`
  compares lines only, across files too. A `static let` of `ptr` or `memblock` type
  also has its type resolved there, which is not modelled.
* *`Arithmetic`.* `HostWidth` stands for 64. A behaviour folds a chain of constants,
  stores the last in a variable, and then runs the same operations on its slot in the
  executor and in the compiled program. A pointer can be cast to another type, so an
  operation reads and writes the slot at any type; the executor remembers the type of
  the last store and reduces the bits when it loads (`Loaded`), the compiled program
  has the bits only. The second operand is a literal. Words are numbers below
  2^HostWidth; bitwise operations act on sets of positions. An operation the host's C
  leaves undefined gives the error "undefined", which no property allows. After a copy
  at a type too narrow for the bits (`narrowed`) the back ends are not compared any
  more, see disagreement 17.
* *`Checker`.* A program is the token sequences of its modules, so the passes' C
  recursion over blocks becomes a stack of open blocks. Each pass counts statements
  for itself, as in the code (`TcStmtIndex`): that the passes agree on the
  count is a result (`BindsLexically`, `LookupsAgree`), not assumed. The first fault ends the analysis. Struct numbers
  start at 1 (`Struct(1)` is the code's 0, where that matters the model says so). A
  static member's initialiser is a literal here: its evaluation is `Statics`. The
  call graph and the flow stage, which come after and may replace the report, are
  `CallGraph` and `DefiniteInit`. A program's modules are taken in the order of
  `out->deps`; libraries import nothing.
* *`Rules`, `Judgements`.* Operators return the first code in the order of the
  code's early returns. Literals are a class and a small number; the ranges of wide
  integers and of floats are not modelled, `Arithmetic` has the range checks.
* *`CheckedRun`.* A value is a tree: constructor, number, the slot a pointer leads
  to, parts. Numbers that were computed are 0; a literal index, count or offset is
  kept, since bounds depend on it. Programs with branches are analysed only: what
  the executor does with those is `Executor`. A failing statement stops the run.
  A block built by a wrong constructor has parts that are `Garbage`, as has the target of a
  copy from other elements; where such a part would be followed, the run ends. A constant
  is no source of a `memblock_copy` (disagreement 10).
* *Memory exhaustion* is left out of all modules: `malloc` succeeds.

## 3. Runs

| Run | Question | Instance, and why it is enough |
|---|---|---|
| `body_accepted` | does the executor do what the accepted graph says? | all bodies of 1 to 4 statements of every kind of control (return, break, continue, goto, label, if, while), void or not; and all bodies of 5 statements with a definition, a use, a goto, a label and one more (an assignment or a read among others), alone and wrapped in `label L; if c then .. end; goto L`. Four statements nest a jump two blocks deep with a statement to skip; the wrapped bodies re-enter the scope of a variable, which takes eight; one body of six in which a `read` is reached past the definition of its target |
| `body_any` | are the rejections about something real, and does execution move on? | all bodies of 1 to 3 statements with dead code and constant conditions, executed though rejected; all non-ending bodies of up to 4 statements |
| `flow_walk` | is the fixpoint the path semantics? | every graph over 4 nodes in which each node has a predecessor, one slot: bit sets are independent per slot |
| `embed` | do nested regions keep the arrays apart? | 2 declared slots, 5 temporary ones, depth 3, arrays of 0 to 2 elements: both limits (depth, space) are met, at and beyond the boundary; a size_t of 16 values, of which `tmp_begin` may be asked for each, so that the subtraction of the space check would wrap were the operands not compared first |
| `imports` | are imports resolved once, in order, or diagnosed? | every import graph of the entry and three modules with lists of up to two imports, and worlds with a missing, a declared or a repeated name; the array starts at 2 so that it grows |
| `calls` | is a static slot as good as a frame? | every call graph of three functions with up to two calls each and one or two parameters, two argument values; and programs with recursion inside a library, followed to four calls at a time, and with functions of two modules on one line: `ParamsArePrivate` excepts the functions concerned (`SharesLine`, `RecursUnseen`) and holds of all others |
| `values` | can handles be noticed, and what is left of values when they are stored? | two structs (one static), a static memblock of two of them, a memblock of another, wider struct, a scalar, a constant of each aggregate type and one that is a memblock of memblocks, three pointers, eight blocks, one field assignment under way; one variable in `Mistaken`; operands of type usize up to 3, where a block has 2 elements, so that sums wrap. Every pair of variables of one type, each statement between them, in any order. Once a handle has been stored without a clone the structs, the block of them and one pointer are enough to see what is shared (`FewAfterSharing`); there is no bound on the handles stored. States are compared up to the names of blocks (VIEW `View`): who refers to a block is all that a statement can tell of it |
| `statics` | does the order of evaluation never show, and is a rejection for a cause? | every module of up to three static lets of two types, of two members with variables, of two and a sum of both or a conversion, of a sum of two lets anywhere among three; every module of two with an importer visited after it or before it: a queue in which two wait for one, and a chain of three, need three. The 18666 programs of the run were also written out as TC and given to a build of the sources: verdict, place of the diagnostic and values were those of the model for each |
| `arithmetic` | is arithmetic on host words arithmetic of the type's width, and the same in both back ends? | a host of 4 bits, signed and unsigned types of 4 and 2 bits and bool, every operation, mode and operand. Types of the host's width meet the checks that precede an operation and the product by halves (`tc_umul64`), types of half of it the range checks that follow. With a host of 6 bits and types of 6, 3 and 2 bits (599042 states) the same properties hold |
| `checker` | does a name, a label, a struct and a type mean to the checker what it means in the source, and can the executor rely on it? | nineteen families (`AllPrograms`), some 11,000 programs: every way to declare, hide and use a name around a branch, a loop, a function, a static member and a second module; gotos and labels at five places of nested and sibling blocks; one statement of every form with right and wrong operands behind a fixed set of variables of every type (scalar, pointer, struct, struct in a struct, block of scalars, pointers and blocks); pairs of statements that move composites; blocks of structs, pointers and of blocks made from the first or another struct of the table, loaded, stored and copied; struct variables of one name in a program and a library, of the same and of another width; calls and members of a library; returns; parameters; struct definitions of every shape of recursion; the layers of a file |
| `shared_line`, `sibling_branch` | disagreements 1 and 2 | the smallest instance that shows each, see section 6 |

The families of `checker` leave out some of the places where the checks are known to have a
hole (section 6, 20 and 22 to 25): literals where a composite is wanted, the counts of
blocks inside other types or of another module's blocks, a returned field, static members of
one name in two modules. Constructors of a wrong width (31), copies from
another element type (21) and homonyms of structs (32) are in: `SlotsHoldTheirType` excepts the slots
they spoil (`Misbuilt`, `MixedCopies`, `WidthMistaken`) and holds of all others; without any one
of the three exceptions TLC finds a slot that is wrong. `LookupsAgree`
leaves out uses with a homonym in the other arm of a branch (`InOtherArm`) and
definitions that a block of another module spans (`Spanned`); everything else is in.

Every property has a mutant in `PROJECT.json`: a plausible bug in one definition
that makes TLC find the property violated.

*Fairness.* All processes are single C calls that run until they return, so weak
fairness of their step is what the code's scheduling gives:
`FairWalkSpec` (the fixpoint), `ExecFairness` (the executor) and the loader's `Spec`.
`AcceptedRun`, `Calls`, `Values`, `Statics`, `Arithmetic`, `Checker`, `CheckedRun` and `Embed` check safety only and assume none: a host
need not call again, a loop need not end. `GetsOn` says that execution that
does not end keeps reaching statements; a program may run for ever.

## 4. Properties worth reading first

* `FollowsTheGraph` (AcceptedRun): refinement of `FlowWalk` by the executor.
* `ReadsAreWritten`, `LifetimesAgree`: no unset variable is read, although the
  CFG keeps one bit per slot for the whole body where the standard ends a
  variable's initialised state with its scope.
* `VerdictIsPathVerdict`: the analyzer rejects exactly the bodies with a bad
  path, and names the first node of one.
* `InternalErrorIsMissingReturn`: of the executor's "internal error" exits (a jump
  that nobody takes among them) only the missing return can be reached.
* `BindsLexically`, `NamesVerdict`, `LookupsAgree`: three passes and the executor find
  names by frames, by copied tables and by statement indices; all mean the innermost
  declaration in front of the use.
* `LabelVerdict`: a goto reaches the nearest label around it, or is refused for cause.
* `StructsAreGrounded`: no struct contains itself by value.
* `SlotsHoldTheirType`: what is accepted never puts a value of another type, length or
  struct into a slot, whatever way it goes there, but for three named mistakes.
* `OwnedBlocks`, `LetsNeverChange`: a statement that stores a handle
  costs its own type its value semantics, and no other.
* `ParamsKeepTheirValue`: nor does a function change its parameters, by name or
  through a pointer it made.
* `ParamsArePrivate`: parameters behave as if each activation had its own.
* `CycleVerdict`, `CollectsTheNeeded`: import resolution on any graph.
* `ImplementsValueStore`: handles, the heap, and the block a field assignment
  took before its right side ran cannot be noticed.
* `StaysInside`: no sum wraps its way past a check of `memblock_copy`.
* `StaticsAreRight`: constants and static variables are what their initialisers say
  of the final values of the members they name.
* `LegalityVerdict`, `EarliestFailure`: a module is accepted only if it is legal and
  rejected only for a cause, and a failed constant spoils no diagnostic.
* `ResultsAreExact`, `ConversionsAreExact`: every operation gives the number or the
  error of the language standard, although the host computes with wider words.
  `BitwiseIsExact` says the same of the bitwise operations, bit by bit.
* `AgreeUntilNarrowed`: executor and compiled program have the same value or the
  same error, whatever type a pointer gave the slot.
* `OpenDataIntact`: the arrays a host has open are its own.

## 5. Proofs

TLC checks small instances; the theorems hold for every value of the constants.

`FlowWalk_proofs` (every graph: any nodes, edges and slots):

* `StopsAtSolution`, by `SweepOK`: while a sweep has changed nothing, each node
  it has already visited satisfies its equation, because the sets it was
  computed from have not changed since. `StopsAtFixpoint` alone is not
  inductive: it says nothing of a sweep under way.
* `SetsOnlyShrink`: needs OUT to be at least what the node would compute now,
  the monotone half of the same argument.
* `GreatestSolution`: every solution stays below the sets.
* `AcceptedReadsAreWritten`: from the fixpoint, `OutIsWritten` (OUT of the
  current node is a lower bound of what has been written) is preserved by each
  step of the walk, and the reads of the next node were checked against its IN.
* `VerdictMatchesPaths`: a slot is proved initialised at a node if and only if every
  path from the entry sets it (`VerdictIsPathVerdict`). `MayBeUnset(s)` is the least set
  with the entry and closed under edges out of nodes that do not set `s`; the nodes
  whose IN has `s` are the complement of a closed set, and the complement of the least
  one solves the equations, so `GreatestSolution` gives the other direction. The
  diagnosis (`CulpritInv`) names a node and a slot of the final sets.
* `TypeCorrect`.

`ModuleLoader_proofs` (every world of modules, finite or not, every growth of the array):

* `LoadsTheNeeded` (`CollectsTheNeeded`). The invariant of the C recursion is
  `CollectInv`: the imports that a cursor has passed are loaded, and a loaded module
  that no frame of the recursion is at has no import left. It is what makes the guard
  against a second load harmless: the skipped module may be half collected, but a frame
  further out is still at it. When the stack is empty, `deps` is closed under imports.
* `ReportsTheCycles` (`CycleVerdict`). The colours: grey modules are those on the
  stack of the search, each reaches those above it (`SearchInv`), and black modules
  import only black ones and are on no cycle (`BlackInv`). That the ordering loop never
  gets stuck needs more than "on no cycle": every nonempty set of black modules has a
  member that imports none of the set (a fourth conjunct of `BlackInv`, preserved as
  a module turns black), so the modules not yet placed have one that is ready
  (`SomeReady`), without any count of steps.
* `OrdersImporteesFirst` (`ImporteesFirst`): each module is placed once, so the order is
  as long as `deps` only when it has them all (`OrderCount`).
* `LoaderTypeCorrect`.

The reads through a freed array (`ReadFreed`) are in the model: the theorems hold for a
build in which such a read finds the old bytes, or crashes.

`Calls_proofs` (every program: any number of functions, calls and parameters):

* `AcceptedCallsDoNotRecur` (`RecursionVerdict`). The invariant of Tarjan's algorithm
  (`TarjanInv`) says what the numbers, the stack and the lowlinks mean while the C
  recursion is under way. The functions it is at lead to all on the stack above them, and
  each on the stack leads back to one of them not above it (`PathInv`); a lowlink is the
  number of a function on the stack that is reached (`LowInv`); and an edge that has been
  looked at, out of the stack and into it, is accounted for by a lowlink on the path
  (`ArcInv`). The last one makes a pop right: when the function on top is the root of
  its component, no edge leads from what is popped to what stays below, so each popped
  function reaches the others and nothing earlier reaches back (`DoneInv`).
  What a call may lead to is a least closed set (`LeadsIn`), which agrees with what the
  check sees on the functions of the entry module, as no library calls those.
* `ReturnsToItsCaller` (`ContextIsInnermost`). The property speaks of the innermost call
  only; the invariant (`RunInv`) adds that every call on the stack saved the function
  and the next statement of the call below it (`SavedOf`), and that all but the last have
  been entered.
* `StaticSlotsAreFrames` (`ParamsArePrivate`), for every program the check accepts. Two kinds
  of functions are excepted by the property itself, because their slots are not their own:
  those defined on the line number of another function with parameters (`SharesLine`,
  disagreement 1) and library functions that can call themselves (`RecursUnseen`,
  disagreement 12). The programs with such functions are not: the theorem says that every
  other activation keeps what it was given whatever they do. Each call leads to those above it
  (`ChainOf`), so by the verdict no function outside the exceptions is active twice
  (`CallsDiffer`). An argument of any function, also one on a shared line, is stored into a slot
  of a function on the same line, because there are at least as many parameters on that
  line as the function has (`SlotOnLine`, by counting); a store by the innermost call therefore
  reaches no slot of an activation that the property speaks of (`StoreIsPrivate`).

`Statics_proofs` (every program: any modules, declarations and values), without hypotheses:

* `StaticsHoldTheirMeaning` (`StaticsAreRight`), `VerdictFollowsTheRule`
  (`LegalityVerdict`), `FirstFailureIsReported` (`EarliestFailure`). None of the three is
  inductive. The invariant (`IInv`) has first what Kahn's algorithm keeps: the
  degree of a let is the number of its dependencies that are not done, and the queue has
  exactly the lets that are not done and whose dependencies are (`Released`). So when
  the queue is empty the first let left over would be in it, and "circular static let
  dependency" is never reported (`NothingIsLeft`).
* The references the graph does not see rest on something else: the lets that wait for
  none come first in the queue and in source order (`FreeFirst`). A let that waits for
  none is therefore evaluated when exactly the free lets before it are, and one that
  waits is evaluated after all free lets, which is where the exceptions `Unseen`
  and `Overtakes` come from, and that there are no others.
* A let that is legal and not one of the exceptions stops only at a let that failed
  (`Stops`); hence a rejection is for a cause, and what is withheld and legal is derived
  (`Explained`), although the flag that says so may be anything.
* The values: while no evaluation has failed, each constant is computed from constants
  that were there (`FromConstants`) and that never change; the static vars are prepared
  in source order from what is before them (`VarsPrepared`).

`AcceptedRun_proofs` (every well-formed body: any number of statements, any nesting of
blocks and jumps, any conditions). `WellFormed` says what the parser and stages 6a to 10
leave; that they do leave it is not proved (section 7).

* The tables. A body is flat, so that blocks form a tree has to be derived: two blocks
  around a statement are one inside the other (`InnermostBlock`, by a least
  counterexample), every index between a statement and its end is in one of its
  arms (`ArmsCover`), siblings do not overlap (`SiblingsApart`). `Closure`, the operator that
  stands for the queue of `tc_cfg_mark_reachable`, is the least set closed under the edges
  (`ClosureLeast`, `ClosureIsClosed`): a layer that adds nothing is found within as many steps as
  there are nodes.
* `ExecInv`, the invariant of the executor. None of the properties is inductive: they say
  nothing of the C calls that wait. The calls on the stack nest as blocks and statements do
  (`StackOK`, `Called`), and what the innermost call was handed is tied to the node that
  control has reached (`Phase`): a block about to run its next statement is at a node whose
  edges lead there (`Ready`); a jump under way stands in the block it unwinds, and its target
  block is around (`Jumping`), so somebody takes it. (`ExecInv` was first tried by TLC, on the
  instance of `body_any`.) Each action has a lemma (`...Kept`): the invariant holds after
  it, and control stayed at its node or took an enabled edge (`Moves`).
  From it `ExecutorTypes`, `OnlyMissingReturns` (`InternalErrorIsMissingReturn`) and
  `DeadCodeNeverRuns` (`UnreachableNeverRuns`) follow for every body, also one the analyzer
  rejects, under `ExecSpec`.
* `RunIsAWalk` (`FollowsTheGraph`): the refinement of `FlowWalk`. A step of the executor is a
  `WalkStep` or a stutter (`ExecuteWalks`), from `Moves`; a step of the analysis is one of the
  analysis.
* `NoUnsetRead` (`ReadsAreWritten`). The graph of every well-formed body is one that
  `FlowWalk_proofs` is about (`BodyGraphs`), so its theorems hold of the walk; a statement
  about to run is the end of an edge from the current node (`Dispatched`).
* `OneBitPerSlot` (`LifetimesAgree`). An edge into a block goes to its first
  statement (`EntryEdge`), because a jump reaches only blocks around it, so nothing
  initialises a variable before its scope is first entered (`ScopeEntryUnset`). Where
  every path from the entry of the body sets a variable, so does every path from outside
  the scope (`ScopesAgree`).
* `PipelineTypes` (`TypeOK`).

`StopsAtFixpoint` and the types of `FlowWalk`, `Embed` and `Arithmetic` are not in the runs
`flow_walk`, `embed` and `arithmetic`: the theorems cover them. (`AnalysisTypeOK` is still a part of
`AcceptedRun`'s `TypeOK`, which `body_accepted` checks.)

`Embed_proofs` (every number of slots, depth, argument list and program):
`RegionsAreNested`, `OpenArraysAreIntact`, `TypeCorrect`. `RegionsNest` relates
neighbours on the stack of regions; keeping data apart needs the order of every
two of them (`Ordered`), and the inductive invariant is the conjunction of types,
nesting, order and data. The sizes are words of a size_t (`SizeRange`): that the
subtraction of the space check cannot wrap is `GrantedFits`, from the comparison in front of it.

`Values_proofs` (any types, variables, constants, pointers and programs, without hypotheses):
`ValueSemantics` (`OwnedBlocks`), `ConstantsKept` (`LetsNeverChange`) and
`AccessesAreInside` (`StaysInside`, from the headers and the form of the range
check). The statements that store a handle are in the model; what they cost is said by the
properties: `shared` has the types of which a handle was stored, `outside` those whose
blocks were left, and `StaysInside` says that the second happens only through the mistakes of
section 6 that it names.
`OwnedBlocks` is not inductive: a field assignment under way may still write to
a block its base no longer has, so the invariant adds that this block is
nobody else's, or of a type that is shared (`Awaited`); a pointer may be stored through, so it must
lead to a variable that has a value of its type (`Pointed`); and cloning a memblock rewrites
its header, which is no change only because what a variable holds is of its type, header
included (`Held`). Each statement has a lemma (`...Keeps`).

In the same module, `Refinement`: up to the first handle that is stored without a clone `Values`
implements `ValueStore` (`ImplementsValueStore`). The mapping takes a slot with a handle to the
cells of its block, and a field assignment under way to the same with a mark when
its base has been given another block since. Each action has a lemma: it is the
store's action of that name, or changes nothing the store has (an error stop, the
change of phase). Two facts carry them. A clone goes to a block no slot and no
waiting assignment has, so it gives one variable a value and marks exactly the
assignments that wait for that variable (`StoreIsBecome`, `MarksReplaced`). A write into
a block is a write to one variable, as its block is no other's (`WrittenIsChange`, from
`OwnedBlocks`); when a field assignment ends in a block its base has lost, no
variable has that block (`EndRefines`, from `Awaited`).

`ValuesHaveTheirType` (`TypeOK`) follows from the same invariant and the phases (`InPhase`).
What carries it is that an element, a value with one element changed and a memblock with a
range written are of their types (`ElementTyped`, `WithElementTyped`, `WithRangeTyped`), and
that a statement whose check passes on a block of its type reaches cells of that block
(`CheckedIndexIsCovered`, `CheckedRangeIsCovered`).

`Arithmetic_proofs` (every host width, every width
of a type that is the host's or at most half of it, every mix of signedness):

* `TypeCorrect`: no value has bits beyond its width, and "undefined" (a signed
  operation of the host out of its range) is not among the errors a behaviour can end
  with. Each operation has a lemma that its result is a value of its type or an
  error of the standard (`ApplyIsResult`); the ones that carry it are that the checks
  by division let through only products the host can represent (`ProductsDefined`),
  that a product of narrow types fits the word (`NarrowProductDefined`), and that
  only MIN / -1 has a quotient out of range (`QuotientsInRange`).
* `BackEndsAgree`: the invariant relates the tagged slot of the executor to the bare
  word of the compiled program, and says that a constant is folded at its own type.
* `ConversionsExact` and `ResultsExact`: the number that bits stand for is unique
  (`NumbersAreUnique`), so what the code computes from them is it
  (`NumberIsCompared`); a remainder by the word keeps the one by the type's modulus
  (`HostRemainder`), so wrapping at the wider word loses nothing; each overflow check
  refuses exactly the results that are no number of the type (`StrictIsChecked`,
  `ShiftedIsChecked`: `PowOverflows` lets the product through that is exactly MIN); the
  product by halves is the low word of the product (`LowProductIsExact`); the host's
  quotient is the only one towards zero (`QuotientIsTruncated`); a right shift filled
  by hand is the floor of the quotient (`FilledQuotient`).
* `BitsExact` (`BitwiseIsExact`). The model says what the host's `&`, `|`, `^` and `~` do: the
  result is the word with a given set of bits (`WordOf`). That every set of bits has a word is
  proved (`EveryWord`): of the widths at which some set has none the least is not 0, and
  the next bit is added to a word of one bit less (`OneBitMore`). The masking that
  follows in the code leaves the bits below the width and clears those above
  (`LowBits`, `MaskedBits`, also after an inversion: `InvertedBits`).

Assumptions are the named ASSUMEs of the modules, which TLC evaluates in the runs:
`GraphsAssumption`, `EmbedAssumption`, `LoaderAssumption` (every import list names modules of the world), `CallProgramsAssumption` (calls name functions, and no library calls the entry module), `LimitAssumption`, `ProgramsAssumption` of `AcceptedRun` (bodies are well formed) and of `Statics` (an operand names a declaration, of the module itself or of another as its form says), `ParamsAssumption`, `SizeAssumption` (all slots of a context are fewer than a size_t has values), `TablesAssumption`, `BindingsAssumption`; of
`Arithmetic`, `WidthsAssumption` (the widths of types), `NoneAssumption` (None is no
error), and one fact of arithmetic, `PowersAssumption` (2^(u+v) = 2^u * 2^v for the
widths of a host word): exponentiation is a primitive of which the provers know nothing.
(`BodiesAssumption` of `MCExecutor` is about the run: its bodies are well formed.)

*Model-checked only:* liveness (`Terminates`, `GetsOn`, `Resolves`), which needs
fairness and ENABLED; everything about `Checker`,
`LexicalScopes` and `CheckedRun`. A theorem about these would need as a hypothesis what the
parser leaves of the nesting of tokens and, for `NamesVerdict`, `LookupsAgree` and
`SlotsHoldTheirType`, the exceptions of section 6 for programs of any size; it has not been
attempted. The
library's induction theorems take an operator as a parameter, which the provers at hand
cannot instantiate; where induction over numbers is needed (block tables, `Closure`, the bits of a word) the proofs
use a least counterexample, from the well-foundedness of the naturals (`LeastElement`).

## 6. Disagreements met

Shown by a run: 1 and 2. Eight more are in the model, under a property that states what is
asked and that TLC refutes when it is added to the invariants of a passing run: 3, 29 and 30
(`ImportsAreMeant`, `NamesEarlierMembers`, `WithheldIsDerived` in `statics.cfg`), 12
(`RecursionIsReported` in `calls.cfg`), 31 (`BlocksFit` in `values.cfg`), 21 (`CopiesMatch` in
`checker.cfg`); and 8 and 18, when `shared` is taken out of `OwnedBlocks` or
`LetsNeverChange`. The others were met while modelling.

1. `shared_line`: parameter slots are found by line number across modules.
2. `sibling_branch`: `tc_cfg_find_visible` and the executor's lookup by name take a
   variable of the then arm for one of the same name in the else arm, which follows it in
   statement indices: a legal program is refused as "used before initialization", or
   `ptr_address` points to the wrong variable (prints 1 where the standard says 9).

3. `ImportsAreMeant`: a module's static lets are evaluated before those of the modules it
   imports, unless those were met before. `static let A = KeyLib.KK` is 0, where the
   standard lets an initialiser use an imported public `static let`
   (`docs/TC语言标准设计说明书-0.0.44.md:944`); a field of an imported struct is refused as
   "not available by source order". `ImportsLate` excuses both in the run `statics`.
4. The module whose imports are being collected is a pointer (`current`) into an array
   that is reallocated when it grows: a module with imports at depth one, in a program
   of more dependencies than the array has room for, is read after it was freed
   (`ReadFreed` in `ModuleLoader`; the loop of `tc_collect_imports_recursive`).
   The properties of `imports` hold where the old bytes are still found.
5. `read(x)` is recorded in the CFG as a write only, so `x` need not be initialised
   (a `goto` around its definition is accepted); the language standard asks for it
   (section 9.2, `docs/TC语言标准设计说明书-0.0.44.md:2181`). The analysis and the executor
   agree, so `ReadsAreWritten` holds with read statements. `LifetimesAgree` takes a read
   for a write too: with the standard's reading set it would fail on `ReadPastDefinition`.
6. `make_ptr` of an empty array opens no region, but the Embed design
   (section 16.5, `docs/TC-Embed详细设计说明书-0.0.44.md:1981`) tells the host to call
   `tc_embed_tmp_end` after the TC function has returned: the extra end pops
   the region of an array opened before.
7. `if false then (nothing) else return 1 end` is rejected for a missing return:
   the edge out of an empty then block is a fall-through and is never pruned
   (`docs/TC语言标准设计说明书-0.0.44.md:1099` calls only the else branch reachable).
   `InternalErrorIsMissingReturn` is one-sided for this reason.
8. A static memory block initialised from a constant or another static variable
   shares its block (`tc_exec_init_static_var` clones structs only): storing an element
   changes both, a `static let` included. In `Values` it is `InitStatic`, and `shared` has the
   type from then on.
9. A field assignment whose right side calls a function that assigns the base is
   lost: the field is written into the block the base had before the call.
   `ValueStore` says so (`replaced`), since the standard does not say which of
   the two comes first; what is checked is that the late write harms nobody else.
10. `memblock_copy` from a constant ends in an internal error, because constants
    have no slot; the standard allows a `let` as the source
    (`docs/TC语言标准设计说明书-0.0.44.md:1641`). `CopyRange` stops there.
11. The target of an address is looked up by name among the symbols of all
    functions at run time (`tc_ptr_exec.c`). `Values` takes the target the source names;
    `LookupsAgree` says when the lookup finds it, `sibling_branch` when not.
12. Recursion inside an imported library is not seen: edges are collected from the
    entry module's functions only (`Adj` in `CallGraph`), while the standard forbids all
    recursion (`docs/TC语言标准设计说明书-0.0.44.md:2139`). The programs of `calls`
    have such libraries; `RecursUnseen` excepts their functions, and those only, in
    `ParamsArePrivate`.
13. A static variable initialised with `cast` crashes the VM (`CrashStaticVar`): its
    initialiser is not type-checked, and `tc_static_let_resolve_field_operands` has
    no case for it, so the source type of the cast is a null pointer
    (`tc_executor.c:616`). The standard lists `cast` among the initialisers
    (`docs/TC语言标准设计说明书-0.0.44.md:945`).
14. An operand `Self.m` that is not the whole initialiser is no edge of the graph. The
    declaration may be evaluated while an earlier `m` still waits, and the legal
    program is rejected as "not available by source order" (`Overtakes`).
15. A static variable may not be initialised from imported members although the
    standard allows it (line 945): `OperandAllowed` refuses them, `Overtakes` excuses it.
16. Of two diagnostics the standard wants semantic errors before failed constants,
    and within a stage source order (lines 2381 and 2382). A reference ahead on a later
    line is reported before an earlier error of evaluation, because the graph is built
    first; and `add(Self.F, Self.V)` with a failed constant `F` hides the error that
    `V` is a variable. `EarliestFailure` is about failed constants only.
17. The executor makes a value anew at the type of each load, so that both back ends
   agree (its comment says so, `src/src/vm/executor/tc_executor.c:86`). Two words still
   differ: a compiled program copies the whole word when `ptr_load` reads a slot at a
   narrower type, and a later load at the wide type sees the high bits (300 stored as
   int32, copied as int8: 44 in the VM, 300 compiled); and a branch on a bool variable
   that a pointer set to 256 is not taken in the VM and taken compiled.
   `AgreeUntilNarrowed` ends at the first (`narrowed`); branches are not in `Arithmetic`.
18. `ptr_store` of a struct or memblock stores the operand's handle, so both share a
    block; if the operand is a `let`, the constant can be changed (`let c`,
    `ptr_store(B, p, c)` with `p` pointing to `b`, `b.x = 7`: `c.x` is 7), although values
    have no alias (`docs/TC语言标准设计说明书-0.0.44.md:681`). It is
    `PtrStore` in `Values`; `shared` has the type from then on.
19. The end of a block is marked on all symbols whose definition has an index inside
    it, of other modules too (`tc_mark_block_scope_end`, `MarkScopeEnd`): a local of a
    library function is then not found by the flow analysis, and its uses are refused as
    uninitialised or not looked at (`Spanned` excuses them in `LookupsAgree`).
20. That the target of a pointer is read-only is forgotten when the pointer was set
    inside a block: the mark goes to the block's copy of the table. A function can then
    store into its parameter (standard, lines 797 and 2004). `ParamsKeepTheirValue` runs straight
    lines and does not meet it.
21. `memblock_copy` compares the element type with the destination only: copying from a
    block of wider or narrower elements moves bytes of another type (`tc_memblock_check_copy`),
    where the standard demands it of both blocks (line 1692). `MixedCopies` excepts the target
    in `SlotsHoldTheirType`; in `Values` such a copy (not `Alike`) leaves the block.
22. The counts of memory blocks are compared for the outermost block of a definition or
    an assignment by name only: `memblock<memblock<int32, 2>, 2>` may be initialised
    from blocks of 4, and `var t: memblock<int32, 4> = L.B` from a member with 2; later
    indices up to 3 leave the block. The standard demands equal counts
    (`docs/TC语言标准设计说明书-0.0.44.md:565`).
23. `tc_check_operand_strict` ends early for literals: an integer is accepted where a
    pointer is wanted, 0 or `nullptr` where a block or struct is, `nullptr` where an
    integer is (standard, lines 741 and 756; the comment in the function says only
    `nullptr` gets there).
24. `return a.p` with a field of pointer, block or struct type compares the field with a
    type that was never filled in: it is refused for pointers and blocks, and accepted for
    the struct registered first, whatever the function returns; the caller then reads past
    the end of the smaller struct (standard, line 2086).
    Of 22, 23 and 24 `Values` knows the variables they may spoil (`Mistaken`).
25. Two modules with a static member of one name, or a library's static member and a
    top-level variable of the program, are refused as a duplicate definition: the outermost
    frame is one for all modules. `NamesVerdict` would fail; the families of `checker` keep
    such names apart.
26. A module that is named but not imported is accepted in `Module.member` and in calls, as
    long as it is loaded (and so is the module's own name); for structs the import is
    demanded, as the standard does for all (line 1173). `LexicalScopes` follows the code.
27. An entry program given in memory under a name without `.tc` has no module name, so
    that its symbols are no module's.
28. When a call is refused and has an argument `Module.member`, the analysis that looks
    for an earlier diagnostic (`tc_sem_salvage`) reads operands the refused check has
    freed (`tc_struct_field.c:184`, `tc_cfg.c:471`).
29. `NamesEarlierMembers`: the other side of 14. A let that waits for another goes to the
    end of the queue, and by then a let declared after it may have its value: `static let
    a: int8 = add(int8, Self.c.x, Self.b)` is accepted with `b` declared behind it. The
    standard has only static lets that are earlier in the source (lines 944 and 1076).
    `Unseen` excuses it in `LegalityVerdict`.
30. `WithheldIsDerived`: `tc_symbol_table_add_ex` leaves `ct_eval_failed` of a new symbol as the
    memory has it. With a failed constant pending, a semantic error at a constant that
    has no value yet may be dropped as derived from it (`SeemsWithheld`); the program is
    still rejected, for the constant.
31. A memblock constructor makes its element type from the tag alone
    (`src/src/vm/executor/tc_executor.c:673`): a struct element is given the size of the struct
    registered first, an element that is a memblock that of a handle. The block is then shorter
    or longer than what `tc_exec_memblock_clone` and the element accesses take it to be, and
    they read outside it (an address sanitizer confirms it); `memblock_load` of a
    memblock takes the bytes of the inner block for a handle. The standard has `count` elements
    of `sizeof_bits(T)` for any complete `T` (line 548). `Misbuilt` names the types, in `Values`
    and in `CheckedRun`; of all other types the properties hold.
32. An assignment of a struct takes its width, and the number of the struct, from the last
    symbol of that name in the table (`tc_executor.c:1192`): with a struct variable
    of the same name in another function or module the clone has that one's size,
    and with a homonym that is no struct the run ends in "internal error: struct assign
    missing id". `WidthMistaken` excepts such variables in `SlotsHoldTheirType`.

## 7. Plan

1. *Arithmetic*: the theorems are there; branches on the results of operators are next
   (disagreement 17), and the ranges of literals.
2. *Checker and flow*: take the programs of `Checker` on to `ControlFlowGraph`, so that
   `WellFormed` and `Visible` of `StmtTree` become results instead of assumptions, and
   `tc_sem_salvage`'s choice of the report.
3. *CheckedRun with branches*: the statements of `CheckedRun` under the control of
   `Executor`; then the families can have disagreement 20.
4. Proofs: lemmas on the lookups of `Symbols` (equality of types is an equivalence, a marked end only hides).
5. Runs are kept few: new questions are put to an existing run where its instance
   can carry them.

## 8. Not modelled

Lexing, parsing and printing; the C library's floating point; the text the AOT
compiler emits; file location and path handling; diagnostics' wording; memory
exhaustion. See `components` in `PROJECT.json` for the reason of each part.
