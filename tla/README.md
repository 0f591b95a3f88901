# Speed Charm Event Language: TLA+ specifications, models and proofs

The program under `src/` is the compiler and the register virtual machine of a
small scripting language for games. A script is a set of *name blocks*
("modules" below), each with fields and with up to three *phase blocks*
("sections"): `start`, `main` and `end`. A host program compiles a script once
and then calls `run_sce_vm_context(&ctx, "module")` once per frame and module.

This directory holds TLA+ modules translated from that source, TLC
configurations that check them on small instances, and theorems that TLAPS
proves for every instance.

## 1. The system

    source text --lexer--> tokens --parser--> tree --code generator--> chain of
    instructions --loader--> symbol tables --update calls--> execution

Everything is single-threaded C. Two things interleave all the same:

* the host's update calls for **different modules**, which share one
  `Sce_VM_Run_Context`: the pointer to the current module
  (`now_vm_symbol_`), the registers, and the error;
* the **cells** (registers and variables) that point to one heap string, each
  with a flag that says whether deleting the cell frees the string. Registers
  are copied byte for byte, so only the order of the compiled instructions
  decides whether a string is freed once, twice or while it is in use.

| Component (source) | State | Operations | Correct when |
|---|---|---|---|
| Lexer (`sce_lexer.c`) | mode, buffer, token list | one step per character | see 3.4 |
| Parser (`sce_parser.c`) | token cursor, tree, errors | block, statement and expression parsers | see 3.5 |
| Code generator, control (`sce_ir.c`) | scopes with their names, `is_error`, `has_phase_label`, `if` counter | name blocks, sections, default sections, `if`, global chain, declarations and uses of names | each jump has its label, sections end in a jump, a name it accepts is there when the code runs |
| Code generator, expressions (`sce_ir.c`, `sce_ir.h`) | number of registers in use | expressions, assignments, system calls with SAVE/LOAD | the code computes the value of the expression |
| VM loading and control (`sce_run.c`) | module list, label tables, initialiser addresses, section contexts, current module, error | load, update, initialise, enter, resume, jump, exit | see 3.1 |
| VM memory (`sce_run.c`) | registers, object tables, heap strings | the moves, `ADD`, system calls, section ends | see 3.2 |
| System calls (`sce_run.c`, `sce_system_call.h`) | argument registers, result register 128 | `__write__`, `__read__`, `__open__` | arguments are checked, then deleted once |
| Growable strings (`transfer_test_functions.h`) | block, capacity, index | init, append, move, truncate, empty, delete | see 3.3 |
| Allocation helpers (`std_ext/ext_alloc.c`) | - | `safety_realloc`, `dupalloc`, `clamp_realloc` | the block has the byte that was asked for |
| Number and UTF-8 conversion (`std_ext/ext_strs.c`) | - | pure functions | - |
| Driver (`app_1.c`) | source text | read file, append the standard declarations, one update | - |
| Frame timer (`proc_os_system.c`), debug printers, headers | - | - | - |

`PROJECT.json` lists them all with their status, and under `hazards` what in
this code is hard to test, each at its line.

### What is hard here

* **Stale state**: the current-module pointer after another module ran; the
  flag array `has_phase_label` from one module to the next; freed strings
  behind register copies.
* **Protocol sequences**: initialiser, start, main, end and exit share one
  stack of contexts per module and are entered over many host calls.
* **Partial failure**: an error in an initialiser, in a section or in the
  loader has to stop what runs; a failed allocation between freeing the old
  section and entering the new one; an append whose `realloc` fails; and an
  error's message, which is allocated like everything else: when that fails, the
  machine goes on as if there were no error.
* **Boundaries**: strict against non-strict comparison in `safety_realloc`, the
  terminator, the first block of ten bytes.
* **Liveness**: a section's code ends in a jump to its own label, and only the
  early return in that jump gives the frame back to the host. The lexer's loop
  reads a byte again in another mode, and the parser's loops go round until a
  bracket: both end only if something is consumed in the end.
* **Ordering**: the lexer changes its mode in the middle of a word; the parser
  moves declarations in front of what was read before them.
* **What was accepted against what is there**: the code generator resolves names
  in its own scopes, the machine in tables that are freed and renewed.

## 2. Modules

| Module | Models | Kind |
|---|---|---|
| `VmControl` | loading and running chains of instructions (`sce_run.c:419-497, 600-840, 1590-1640, 1840-1990`) | state machine, parameterised by the programs |
| `ModuleLifecycle` | what the comments at `sce_run.c:765-809` promise about a module's sections | abstract specification |
| `Lexer` | `start_lexer_sce` and the driver's way to it (`sce_lexer.c`, `app_1.c:14-15, 50-81`) | state machine, parameterised by the sources |
| `MCLexer` | all short sources | instance for TLC |
| `LexerProofs` | types and the order of bytes | proofs |
| `LexerTextProofs` | no byte is lost | proofs |
| `LexerMatchProofs` | tokens are cut where they should be, and the declarations survive | proofs |
| `SceAst` | tokens and nodes (`sce_parser.h`, `sce_lexer.h:46-71`) | definitions |
| `Parser` | the blocks and statements of `start_build_sce_ast` (`sce_parser.c`) | state machine, parameterised by the token lists and by what reads expressions and declarations |
| `ParserExpr` | expressions and declarations (`sce_parser.c:735-1204`) | recursive operators, TLC only |
| `ParserProofs` | how blocks nest, fields first, sections once | proofs |
| `ParserSpec` | the tree a program stands for, the words a tree says, the properties that rest on them | reference definitions, TLC only |
| `MCParser` | programs, expressions and token lists with errors | instance for TLC |
| `SceIr` | the control skeleton of the code generator: scopes, errors, sections | recursive operators, TLC only |
| `MCVmControl` | small scripts compiled with `SceIr`, and hand-written chains | instance for TLC |
| `VmControlProofs` | theorems about calls, sections, errors; the refinement of `ModuleLifecycle` | proofs |
| `VmNamesProofs` | declarations and uses of names, on top of `VmControlProofs` | proofs |
| `StringBuffer` | `U8_String_Buffers` on `safety_realloc` | state machine |
| `MCStringBuffer` | two buffers | instance for TLC |
| `StringBufferProofs` | theorems about `StringBuffer` | proofs |
| `VmMemory` | registers, variables and heap strings under every instruction emitted | state machine, parameterised by the compiled statements |
| `Ownership` | the rules a statement's code keeps so that no string is freed twice or used after it was freed | predicate on compiled statements |
| `VmMemoryProofs` | theorems about `VmMemory` on code that keeps the rules | proofs |
| `ScriptVariables` | what a script may expect of its variables, statement by statement | abstract specification, TLC only |
| `SceIrExpr` | register allocation and the code of statements | recursive operators, TLC only |
| `MCVmMemory` | statements compiled with `SceIrExpr`, refinement mapping | instance for TLC |

`SceIr` and `SceIrExpr` are kept apart from the state machines: the state
machines take code as a CONSTANT and can be proved about, and TLC feeds them
what the code generator would produce. What the machine needs of that code and
does not test is stated as predicates on chains (`WellCompiled`, `WellDeclared`
in `VmControl`) and on statements (`Disciplined` in `Ownership`): the theorems
assume them, and TLC checks them on all code of the passing runs (`JumpsPlaced`,
`RulesKept`). The stages of the pipeline meet in
`SceIr`'s programs: `ParserSpec` checks that the parser turns every way of
writing such a program into the tree for which `SceIr` generates code, and
`MCVmControl` runs that code.

## 3. How state and actions correspond to the code

### 3.1 Control (`VmControl`)

An instruction is an opcode and a name; an address is a position in the chain
and 0 is NULL. One `run_sce_vm_context` call is a sequence of steps, one per
instruction, and `stage` says where the call stands; the host's `Update(m)` is
enabled only between calls.

| Variable | C |
|---|---|
| `code`, `inst`, `mode`, `started` | the chain and the loader's position and flags (`run_collect_label_sce_vm_context`) |
| `modules`, `labels`, `initAt` | `vm_symbol_`, `label_table_`, `global_filed.lebel_adress_` |
| `filed`, `ctx` | `global_filed.obj_table_` and the stack `label_context` of each scope |
| `now` | `now_vm_symbol_`, the shared current module |
| `stage`, `running`, `pc` | position in the call: collect, idle, init, enter, section, crashed |
| `result`, `err` | the kind of value in register 128; `vm_error_status.error_str` |
| `inits` | history variable: how often a scope's initialiser was run |

Loading is `CollectName`, `CollectLabel`, `CollectOther`, one step per
instruction, with the duplicate-name and duplicate-label errors, and
`CollectCrash` for the dereference of `vm_symbol_` when no module could be
allocated. A call is `Update`, `FinishInit`, `Resume` or `EnterStart` or
`NothingToRun`, the instructions, `FinishRun`. A jump is `UnknownLabel`,
`ChangeSection` (main, end), `Exit`, or `Branch`. `ExecCrash` is the
dereference of a NULL `label_context`. When `OutOfMemory` is TRUE each
allocation may fail, of tables, modules, contexts, objects and values' texts,
and of error messages as well. The loop stops at a message, not at an error: one
whose message was not allocated is `Lost` (`Report`; the fallback code that
`get_vm_error_status` sets instead is never read), and `After` goes on behind
it, in no section after a failed section change, and past the end of a section
or module into what the chain has next.

`WellCompiled` and `WellDeclared` say what the code generator keeps for every
program it accepts: a NAME has its NAME_REPEAT behind it, an initialiser runs
into a jump to exit, the jump of an `if` is behind its test and leads forward in
its section, in front of every section and every exit label is a jump that
leaves the call, a name is declared once in the fields and once in a section,
and what a section uses is declared on every way to it, in the fields, or in the
globals.

`ModuleLifecycle` is the abstract specification: a module is idle or in one
section, an update starts an idle one, and an update moves no module but its
own. The refinement mapping reads a module's phase off its stack of contexts
and the label its address is at.

### 3.2 Memory (`VmMemory`)

A cell is `[own, kind, n, at, ref]`: `own` is `is_const_value`, `at` the heap
object of a string, `ref` the variable an address (`Sce_Virtual_Memory *`)
points to. `heap` maps the objects that are allocated to their texts; a text is
a sequence of pieces, not of bytes. `fault` records an access to a freed string
or variable, or a second free; nothing runs after it. One action executes one
instruction of the statement that `Begin(s)` chose; `LeaveSection` deletes the
variables of a section, which is what a jump between sections does to memory.

`Registers`, `SAVE`, `LOAD` and the deletion of argument registers are modelled
with the register numbers the code generator emits (`SceIrExpr`), since whether
two cells own one string depends on them.

`Ownership` says which code is safe. Nothing in a register tells whether its
bytes are still to be used, so each point of a statement gets a state with what
is *known* there of each register: nothing, a value that no other cell in use
has, an int of known value (a system call's number), or the address of a known
variable. `Allowed` says in which states an instruction may run, `Assigned` which
variables it changes there (only the statement's target may be), `After` what is
known behind it, and nothing is known where a statement starts: statements can
follow each other in any order. An assignment from a variable (`f = x`) and a
call in a call's arguments do not keep these rules, and both are findings
(section 7).

`ScriptVariables` knows neither registers nor owners: a statement changes one
variable, in one step, to the value of an expression over the variables as they
are, or fails. The refinement mapping replaces a cell by its value. A statement
of the machine stutters until its last effect, so a partly executed statement
must not be visible in any variable.

The machine has a case for `+` only; it skips the instructions of `-`, `*`, `/`,
`%`, shifts and bit operators (`Ignored`, `sce_run.c:692`). `ScriptVariables`
promises nothing of the value of an expression with one of these
(`FinishUnpromised`): only that the statement ends, that its target has some
value, and that no other variable changes.

`__open__` looks at the bytes of whatever is no string (`Streamed`): an int's are
its value, a bool's, float's or null's partly what was there before, so the
model lets it take those for a stream or refuse them.

### 3.3 Strings (`StringBuffer`)

A buffer is its three fields, the size its block really has and the place of
its terminator. `Capacity` is `safety_realloc`'s growth with the width of
`block_capacity` as modulus (`Width`), and `Grown` is an append with its silent
return when `realloc` fails. `Move` is `move_u8_byte_u8_string_bufferr` with
the copy of one byte more than the text, `FromValue` is what `ADD` does to turn
a number into a string: it appends with `vsnprintf` to a zeroed buffer, whose
first block has ten bytes whatever is asked for. Ten characters and a terminator
do not fit: `100.0` is printed as `100.000000`, and ints have ten digits from
1000000000 on (`overlong` remembers that such a value was printed). Any
allocation may fail (`starved` remembers that one did); `fault` records an
access outside a block or through NULL.

### 3.4 Lexer (`Lexer`)

The driver's steps are `Load` and `InsertStd`, each with its failure; then one
step of the loop per action, named for what the byte is in the current mode. A
handler that answers `continue` is an action that leaves `pos` alone (`Again`),
the others take the byte (`Take`). The stack buffer and the tokens hold
*positions* of the source, not bytes: whether a byte is lost, doubled or moved
can then be said. `Listed` is `append_lexer_token_lists` with its silent return
when the list cannot grow; `Closed` empties the stack buffer only if it could.
`Abort` is the `assert(false)` for the modes of character literals, which have
no case in the loop (their handlers, `sce_lexer.c:181-200`, have no caller).

What the code does and the model shows: `!=` and `::` are never formed, since
`!` and `:` are tokens at once; `.5` is an error literal, the dot counts twice;
a word goes on behind a comment in its middle; the byte after `@` is not looked
at for a line end; `:::@` does not end a comment; a dot at the very end is lost.

### 3.5 Parser (`SceAst`, `Parser`, `ParserExpr`, `ParserSpec`)

A state is a moment between two statements: the stack of open blocks, from the
module through a name block and a section to nested `if` blocks, and the
position. An action is one turn of the innermost block's loop. What lies inside
a statement (expressions, declarations, the bodies of functions and instances)
is read by `ReadExpr` and `ReadDecl`, constants of `Parser`, of which
`ReadersAssumption` says that they go on from where they start, not past the
end, or never come back (position 0). `ParserExpr` defines the program's, with
the shape of the C functions; `Expr(t, level, i)` stands for the whole ladder of
operator levels, one function each in C, with the table `Operators` for what the
functions differ in. `MCParser.cfg` joins the two. A node is its type, text and
two children, with `UNSET` for a pointer that the code never writes; the nodes
that link a block's statements are one node with the sequence of them.

`Placed` and `Hoisted` are the moving of declarations in front of sections and
name blocks; `Delivered` the return of a block's node to the block around it,
where a second section of a kind turns into an error that ends the name block
and is forgotten. `lost` is a history variable for what comes out of nothing or
goes into nothing: tokens dropped at top level, ends of name blocks that are not
there. `hung` is a loop that consumes nothing inside a statement, `crashed` the
use of the token behind a last `name`.

`ParserSpec` states the tree independently: for programs, from `SceIr`'s
abstract syntax and without order; for expressions, by splitting at the loosest
operator instead of descending. `Words` goes back from a tree to what it says.

The code generator in `SceIr` threads its state (`Generator`) through the
program: the code so far, the scopes with their suffixes and names, the number
of `if`s, the sections seen, and `is_error`, which a later success clears as in
the code. `Accepted` is the driver's test before it runs a program.

## 4. Runs

Checked with `tlc -config X.cfg Module`. Runs that pass:

| Run | Question | Bounds |
|---|---|---|
| `MCVmControl` | a host that finishes a module (takes it to exit) before it updates another: all invariants, the life cycle, that calls return, that a start section is left, that compiled code finds its names, and that its jumps and declarations are where the theorems want them (`JumpsPlaced`) | 2 modules; 48 programs of two full modules, of which the code generator accepts 25, 24 accepted ones with missing sections, duplicate names, failing initialisers or an `if`, 18 hand-written chains with both outcomes of a test |
| `MCVmInterleaved` | a host that updates two modules in any order, and every allocation may fail, error messages included: what survives | 4 programs, since each allocation doubles the behaviours, and at most one object in a table (`MaxObjects = 1`) |
| `MCStringBuffer` | any sequence of string operations, with failing allocations: it stays in its block until one fails or a value is too long for the first block, and a block that is there ends its text until then | 2 buffers that are alike (`Symmetry`), texts of 0, 1 and 9 bytes, printed values of 9 and 10 characters, no text over 21 bytes |
| `MCVmMemory` | any sequence of 21 compiled statements over two script variables and two standard streams; each one's code keeps the rules of `Ownership` (`RulesKept`) | see below |
| `MCLexer` | any source, missing file, failing growth of the list: bytes and their order, longest tokens, the standard declarations, termination | all sources of up to 3 bytes of 13 kinds; of 4 to 6 bytes of the kinds that comments, strings and numbers are made of; 3 tokens of room at first |
| `MCParser` | programs become their trees, an error-free tree says what the tokens said, fields come first, sections once, termination | 720 token lists with a known tree: programs of up to 2 globals, 2 fields and 2 name blocks woven in many orders, all expressions of up to 2 operators and of 3 operators of six kinds; 5,921 others: a program and a function with one token removed, replaced or inserted, and 8 beginnings with all endings of up to 2 tokens of 15 kinds and of 3 of 7 |

Runs in which TLC finds a counterexample, each against one sentence of the
source (section 7): `MCVmMainReturns`, `MCPrintedFloat`, `MCVmDefault`,
`MCSharedText`, `MCNestedCall`, `MCSavedRegister`.

Why the bounds are enough:

* **Two modules.** All interference goes through one pointer
  (`now_vm_symbol_`), one error and one result register; a third module can
  only be "the other one" again. The host updates without a bound on the number
  of calls: the state does not grow, since contexts are freed (`OneSection`)
  and initialisers run once (`InitOnce`), so TLC explores all sequences of
  updates. The declarations of a section are freed with it, and `y` is declared
  again each frame.
* **Lost errors.** A machine that goes on behind an error declares variables
  again and again in one context. `MaxObjects` stops that: a table that has as
  many gets no more while allocations may fail (they then fail). One is enough:
  `OneSection`, `InitOnce` and `CallReturns` depend on contexts and addresses, a
  second object of a table changes neither. With `OutOfMemory = FALSE` the bound
  is not used.
* **Text lengths.** A new block has 10 bytes and the second has twice the
  requested position plus two; 9 and 1 reach a full first block from both
  sides, 21 passes a second growth, and `Width = 256` is out of reach of
  doubling 22 (the code's is 2^32 and the text bound then means texts below
  2^31). Nine and ten characters are the longest value that fits the first block
  and the shortest that does not. The theorem of section 6 covers all lengths.
* **Memory.** `MaxText = 1` and `MaxInt = 1` stop a statement from *starting*
  while some string has more than one piece or some variable is above 1, so
  sums still produce longer strings and larger numbers inside a statement and
  as its last result. Registers 1 to 5 and 128 are all that the
  chosen statements use. Eleven objects: a string's number is reused only when
  no cell holds it, and four variables with six registers never hold more than
  ten different strings (`ObjectsAssumption`).
* One line for `__read__`, since it is copied and never looked at.
* **Sources.** The appended declaration `k x=1;` follows every source, so three
  free bytes meet a word, an operator, a number and punctuation behind them. The
  modes that last (comments, strings) remember nothing but themselves; the
  longer sources are there for runs of colons, lines, and strings that are
  joined. `Room = 3` makes the list grow in the middle of most sources.
* **Token lists.** Two fields and two name blocks are the fewest with something
  in front of and behind a moved declaration; the loops of a block look at most
  three tokens ahead, which the endings of three cover behind each kind of
  beginning. `IntWidth = 3` lets the literal 9 wrap, `FloatMax = 4` makes 4.5 a
  Double literal and 4.0 a Float.

`CHECK_DEADLOCK FALSE` in `MCVmInterleaved`, `MCVmMainReturns` and the memory
runs: there the machine does stop, after a crash, a misuse of the heap, or an
error that ends a memory statement. The lexer and the parser stop when they are
done.

### Properties worth their run

* `OneSection`, `InitOnce`: hold for every order of updates, errors included;
  they are what keeps a script from leaking a context per frame and from
  initialising its fields again. They hold for lost errors too, although the
  machine then runs on into code of another section or module.
* `RunsInOwnScope`, `NoNullContext`, `ModuleLifecycleSpec`: hold for a host that
  finishes a module before it updates another, and fail for others
  (`MCVmMainReturns`): the assumption under which the VM is right.
* `ErrorStopsCall`: an error stops the call it happens in; only the first
  instruction of the next call still executes. It holds while memory lasts, as
  does `ModuleLifecycleSpec`: both are checked and proved without failing
  allocations, and a lost error breaks both.
* `CallReturns`, `StartIsLeft` (liveness): each call gives the frame back, and a
  start section hands over. `CallsGoForward`: why it does, without fairness: no
  jump of compiled code leads back in the call that takes it, so a call costs at
  most a turn per instruction.
* `NamesFound`, `DeclaredOnce`: what the code generator accepted against the
  tables that are alive when the code runs. The machine itself neither closes
  scopes nor looks for duplicates; both rest on the code generator's scopes, on
  contexts being renewed, and on `InitOnce`.
* `InBlock`, `Terminated`: a string's fields and its block agree, whatever was
  moved, truncated or failed to grow. `InBlock` names the two ways out of a
  block, and `MCPrintedFloat` shows that the second one is open with all memory
  there is.
* `JumpsPlaced`, `RulesKept`: what the machine relies on and does not test, on
  the code that the code generator's control skeleton and its expressions emit.
  They are the hypotheses of the theorems of section 6, so these are not about
  chains and statements that nobody compiles.
* `NoStaleAccess`, `OneOwner`, `ScriptSpec`: byte-wise register copies are
  harmless for the statements of `Plain` and `Failing`, floats, operators without
  effect (of whose values `ScriptSpec` promises nothing) and results that nobody
  takes included. `OnlyTargetChanges`: the half of
  `ScriptSpec` that says what a statement leaves alone, instruction by
  instruction and for failing statements as well.
* `InOrder`, `NothingLost` (lexer): every byte of the source is in one token, in
  order, or is a blank, a quote or comment, through re-read bytes, comments
  inside words and dropped tokens. `LongestMatch`: no token could have taken the
  first byte of the next. `DeclarationsSurvive`: the appended declarations become
  the tokens they are alone, unless the file ends inside something.
  `Completes`: a source without `'` is lexed to its end. `TurnsRunOut`: bytes
  that handlers leave to one another are taken within two turns.
* `ProgramsRead`: the tree is the one the program stands for; a literal that does
  not fit is wrapped in that tree too, and a pointer that the code never sets is
  `UNSET` in it, so neither is called wrong. `NothingSkipped`:
  an error-free tree says what the tokens said (an error that is built and not
  linked into the tree is tolerated). `FieldsFirst`, `SectionsOnce`:
  what the code generator relies on and does not test. `Completes`: the parser
  ends unless it is in one of the loops that consume nothing (`Spins`); a `name`
  that is the last token makes it read behind the list, which counts as an end,
  and nothing else does that.
  `TurnsRunOut`: one such loop in the blocks is the only one.

### Fairness

`FairSpec` has weak fairness of `Machine`, the steps of a call in progress. They
are the iterations of C loops in one thread: nothing outside can keep them from
running. The host has none: nothing in the repository makes it call.
`StartIsLeft` therefore only asks that *the call* that enters start leaves it.
Lexer and parser are one thread each that waits for nothing: weak fairness of
their next-state relations.

## 5. Abstract specifications

* `ModuleLifecycle`, implemented by `VmControl` for an exclusive host
  (`ModuleLifecycleSpec`).
* `ScriptVariables`, implemented by `VmMemory` for the statements of
  `MCVmMemory` (`ScriptSpec`).

Both are checked by TLC; that `VmControl` implements the first is also proved,
for allocations that succeed (`LifecycleImplemented`), and of the second that
a statement changes no variable but its target (`OthersKeepTheirValue`).

* `ParserSpec`'s trees are the functional specification of the parser: what a
  list of tokens should become, in definitions that do not follow the code
  (`ProgramsRead`).

## 6. Proofs

`tlapm` on `VmControlProofs`, `VmNamesProofs`, `StringBufferProofs`,
`VmMemoryProofs`, `LexerProofs`, `LexerTextProofs`, `LexerMatchProofs` and
`ParserProofs` proves, for every set of programs, names, labels, variables,
statements, sources and token lists that meets the assumptions in the modules:

| Theorem | Says | Assumes |
|---|---|---|
| `TypeCorrect` | `Spec => []TypeOK` | - |
| `InitialisedOnce` | `Spec => []InitOnce` | - |
| `AtMostOneSection` | `Spec => []OneSection` | - |
| `CodeRunsInItsScope` | `Spec => []RunsInOwnScope` | an exclusive host |
| `NoCrash` | `Spec => []NoNullContext` | an exclusive host, allocations succeed |
| `ErrorsStopCalls` | `Spec => []ErrorStopsCall` | `AllCompiled`, allocations succeed |
| `LifecycleImplemented` | `Spec => ModuleLifecycleSpec` | `AllCompiled`, an exclusive host, allocations succeed |
| `VariablesDeclaredOnce` | `Spec => []DeclaredOnce` | `AllCompiled`, `AllWellDeclared`, an exclusive host, allocations succeed |
| `NamesAreFound` | `Spec => NamesFound` | the same |
| `EveryCallGoesForward` | `Spec => CallsGoForward` | the same |
| `BuffersInBlock` | `Spec => []InBlock` for the string buffer | - |
| `TextsTerminated` | `Spec => []Terminated` for the string buffer | - |
| `MemoryTyped` | `Spec => []TypeOK` for the memory | `AllDisciplined` |
| `NoStringUsedAfterFree` | `Spec => []NoStaleAccess` | `AllDisciplined` |
| `EveryStringHasOneOwner` | `Spec => []OneOwner` | `AllDisciplined` |
| `OthersKeepTheirValue` | `Spec => OnlyTargetChanges` | `AllDisciplined` |
| `LexerTyped` | `Spec => []TypeOK` for the lexer | - |
| `LoopComesToAnEnd` | `Spec => TurnsRunOut` for the lexer | - |
| `BytesInOrder` | `Spec => []InOrder` for the lexer | - |
| `NoByteLost` | `Spec => []NothingLost` | - |
| `WordsAndOperatorsWhole` | `Spec => []LongestMatch` | - |
| `DeclarationsStay` | `Spec => DeclarationsSurvive` | `StdCut` |
| `ParserTyped` | `Spec => []TypeOK` for the parser | - |
| `FieldsComeFirst` | `Spec => []FieldsFirst` | - |
| `SectionsComeOnce` | `Spec => []SectionsOnce` | - |
| `BlocksComeToAnEnd` | `Spec => TurnsRunOut` for the parser | - |

`AllCompiled` and `AllWellDeclared` say that every chain is `WellCompiled` and
`WellDeclared`, `AllDisciplined` that every statement is `Disciplined`. That the
code generator's output is like this is left to TLC (`JumpsPlaced`,
`RulesKept`), because `SceIr` and `SceIrExpr` are recursive. The statements of
`MCSharedText`, `MCNestedCall` and `MCSavedRegister` (section 7) are those that
are known not to be `Disciplined`, or to lose a value although they are. The assumptions are
needed: a chain in which a branch is the first instruction of a call runs on
with an error pending, and one in which a section's code falls into the next
declares the next one's variables in its own table. `StdCut` says that the declarations are
words, operators and punctuation with blanks between them, cut at `First` and
`Last`, and that the last one is no operator the table could lengthen, as those
of `app_1.c:69-72` are; TLC evaluates it for the declarations of `MCLexer`.

`ProgramsAssumption` asks of a chain only that it starts with a NAME and that
its names are names: chains the code generator would never emit are covered
too. `NamesAssumption` keeps the names of modules, the root scope and "no
module" apart. `LengthsAssumption` says that twice the longest text fits in
`block_capacity`. `BytesAssumption` says that sources and declarations are
sequences of kinds of bytes, of any length. `ReadersAssumption` says of the
readers of expressions and declarations what section 3.5 tells, and that a
declaration becomes a node and no name block; TLC evaluates it for the readers
of `ParserExpr` on every token list of `MCParser`.

The argument for control, in three layers:

1. `TypeInv`: `TypeOK`, and that the loader has a scope after its first
   instruction and a call has one to resolve names in. Needed since
   `labels[Scope]` and `ctx[now]` are otherwise applied outside their domain.
2. `CallInv`: each stack of contexts is empty or holds one section, except the
   scope whose initialiser runs; an initialiser that was run is gone or is the
   one that runs; the scope that is being initialised is the current one.
   `OneSection` alone is not inductive: a stack of two could only be excluded
   if the context that is popped is not `global_filed`, which is why "one
   section" and "whose address is not 0" go together; and `InitOnce` needs that
   `FinishInit` clears the address of the scope that was initialised, so that
   `now = running`.
   None of this asks what `err` is, so it holds for lost errors as well.
3. `ExclusiveInv`: the only module in a section is the current one. It is what
   an exclusive host gives; without it `Resume` would leave the pointer on
   another module, and the code would run in a scope whose stack may be empty.

`ExecuteFrame` says what an instruction leaves alone and serves all of them.

4. `AddressInv` and `ContextInv`: a label's address is that of its LABEL, an
   initialiser's is behind a NAME_REPEAT and the machine runs straight from
   there, and a context that is not `global_filed` is a start, main or end
   section's. `ErrorStopsCall` is then almost inductive: the one step that goes
   on with an error is a branch that is taken. `TakenWithoutError` excludes it,
   since a branch is never the first instruction of a call (`BranchesTest`) and
   only the first one runs with an error.
5. `LifecycleInv`, for the refinement: a module whose sections have begun has no
   initialiser left, so a call that is past its initialiser is for a module.
   `CallRefines` and `ExecuteRefines` map the steps: `Update` is the abstract
   begin of a call, `EnterStart` its start, `ChangeSection` and an `Exit` in a
   section leave the section, `FinishRun` ends the call, and all others stutter.

For names (`VmNamesProofs`), on top of these:

1. `LoadInv`: until an error, each module was loaded once, and a label is found
   in the module it stands in. It turns "the label with this name" into a
   position near the jump.
2. `FieldInv`: a scope's table is empty until its initialiser runs, which runs
   straight; the table holds what was declared between its start and `pc`.
3. `SectionInv`: a section's table is empty between calls; in a call it holds
   only what is declared between the section's label and `pc`, and `pc` has not
   passed the next section's label (`Reached`). `StepOn` and `BranchOn` keep
   that: a jump that leaves is in front of every such label, and branches lead
   forward and not over one. A declaration that is about to run is then not in
   the table (`FieldsApart`, `ObjectsApart`).
4. `InitialiserInv` and `FoundInv` are the other half: a loaded scope that was
   not initialised still has its initialiser's address, so a module in a section
   has all its fields, and the section's table holds what *every* way to `pc`
   declares. A branch that is taken jumps over exactly the declarations that are
   not on every way. `UsedFound` puts the three tables together.

Termination is proved as far as it can be without fairness: as a measure that
falls. For a call of the machine it is the distance of `pc` from the end of the
chain (`EveryCallGoesForward`, by `BranchForward`: an initialiser has no jump but
its exit, a branch with an error pending is not taken, and any other is
`BranchOn`'s). For the lexer and the parser it is `Ahead`, twice what is left to
read and one for a byte that was left to the next turn, or for each block that
is open; a turn may leave the position alone only if it lowers the other part.

For strings, `BufferInv` has two layers: until a byte outside a block was
accessed, a block that is there is `Sound` (it has `size__` bytes and the text ends in it, at the
terminator); while it is `Quiet`, that is until an allocation failed or a value
of ten characters was printed, every buffer in use has its block and
nothing outside was accessed. `GrownIsSound` and `GrownFits` are the lemmas
about appends for the two layers; the second rests on `CapacityIsEnough`, that
the capacity does not wrap. `ValueFits` is the case of an empty buffer, which
`overlong` splits at ten bytes.

For memory, `Safe(t, reg, var, live)` says that the machine is as a state `t` of
`Ownership` knows it: a variable's string is allocated and in no other variable;
a register that is known to own its string has it alone among the variables and
the registers known to own theirs; nothing is said of the others, which hold
whatever was left there. `OneOwner` is not inductive without this, since moving a
register into a variable is safe only if no other variable has the string. There
is one lemma per instruction (`...Keeps`): from `Safe(t)` and `Allowed(t, i)` to
no misuse of the heap and `Safe(After(t, i))`. `MemInv` carries a statement's
state along its code, and forgets all of it between statements.

`OthersKeepTheirValue` follows from `MemInv` before and after a step. `Assigned`
says statically which variables an instruction may change, and `Disciplined`
asks that it is the statement's target. An instruction that frees strings frees
none of a variable it does not assign, since that one's is still allocated
behind it (`WithoutLeaves`); a new string is no variable's (`WithLeaves`); and
the string `ADD` appends to in place is the target's or one that its register
has alone (`AddLeavesAlone`).

For the lexer, `LexerInv` adds to `InOrder` what makes it inductive: `Unused`, the
first byte that is in no token and not in the buffer, is `pos`, or `pos - 1`
after a dot, which the code reads in one turn of the loop and puts down in the
next; every position in a token or the buffer is before `Unused`; and the buffer
is not empty while an operator is extended. `ListedSound` (an append to the list,
which may fail silently) and `PushSound` (a byte put behind the buffer) carry
the order, and there is one lemma per mode.

`NoByteLost` needs `KeptInv`: each byte that was read has a place (a token, the
buffer, a blank or quote, a comment), the dot that was read in advance is
remembered by the mode, and in a comment the mode says where it started and
whether the colons so far are odd, which is what decides whether `@` ends it.
`EndInv` is what the last turn leaves of it. `WordsAndOperatorsWhole` needs
`CutInv`: the last token, if it is a word, does not touch what comes next, and
while an operator is extended the buffer is the one byte in front of `pos`.

`DeclarationsStay` is about what happens after a state, `EndsClean`, so its
invariant holds from there on only. `FollowInv` says where in the declarations
the loop is: some number of their tokens have been listed, each with the
positions of its own bytes, and the next byte is between two tokens (`AtGap`),
in a word that the buffer holds the start of (`InWord`), or behind an operator
(`InOperator`). The tokens listed before that state do not matter, which is the
point: what the source was is forgotten. `TokenAt` tells from the first byte of a
token what it is, there is one lemma for the turns in each of the two modes, and
at the end of the text all tokens have been listed.

For the parser, `Nested` says which kind of block is at which depth, and that a
name block's owner is its declaration. `SectionsOnce` speaks of the finished tree,
which only comes of the last step; what carries it is `Held`: an open name block
has noted in `has` every section in its slots, each once (`Noted`), and every
name block that is over, a slot of the module, has each once or the mark
(`UnitSound`). `FieldsHeld` is the same for fields: behind the first slot of a
module or name block there is no expression statement (`Led`), since `Placed`
keeps them in `fields`, and `HoistedLeads` shows that moving them gives a list
that fields lead, whatever was first. It holds while no token was dropped: a
dropped token leaves an empty slot, and a field that follows goes into it,
behind whatever is there. The loop that goes round at a token that starts
nothing leaves such slots without dropping any, so the invariant leaves it out:
it does not end, and so never gives a tree.

**Only model-checked**: liveness (`CallReturns`, `StartIsLeft`, the two
`Completes`), which needs fairness, beyond the measures above; that code is `WellCompiled`, `WellDeclared`
and `Disciplined` (`JumpsPlaced`, `RulesKept`), and that the parser's trees are
those of the programs and say all the tokens said (`ProgramsRead`,
`NothingSkipped`), since the code generator and the readers of expressions are
recursive operators; and the refinement of `ScriptVariables` (`ScriptSpec`): what
a statement means is a recursive function of its expression (`Eval`), so
that its code computes it is an induction over expressions.

## 7. Where the source says something else

| Run | The code | The sentence |
|---|---|---|
| `MCVmMainReturns` | a module that resumes its section does not become the current one; with two modules updated in turn the end of one's main section renews the other's | `sce_run.c:802-803` |
| `MCPrintedFloat` | the first block of a string has ten bytes, and the sum of a number of ten characters (`100.0`, which prints as `100.000000`, or `1000000000`) and a string writes eleven | `sce_run.c:1059-1062` |
| `MCVmDefault` | the flags for default sections are not reset between modules | `sce_run.c:788` |
| `MCSharedText` | a variable assigned from a variable keeps a pointer that the first one's next assignment frees | `sce_run.c:1757-1759`, `sce_run.h:11` |
| `MCNestedCall` | a call in a call's arguments: the outer call reads registers that `LOAD` restored | `sce_ir.c:305-308` |
| `MCSavedRegister` | `x = __write__(stdout, a + b)`: the operator in the argument overwrites the register where the address of `x` is saved, so `x` keeps its old value and no error is reported | `sce_ir.c:353-358` |

Met on the way, without a run of its own: `-`, `*`, `/` and `%` are compiled and
have no case in the machine (`sce_run.c:692`), although `README.md:8` lists them
as implemented: `3 - 1` is 3 (`VmMemory`'s `Ignored`; `ScriptVariables` promises
nothing of their values); nor have the comparisons, although `sce_ir.c:773-774`
says where their result is, so the jump of an `if` finds no condition and stops
the module with an error; the comment at
`sce_parser.c:456-461` promises `name x : once`, whose parser has no caller.

## 8. Not modelled, and why

* Parser: functions without a caller (statements `return`, blocks of a base
  `else` or `if`, the meta part of `name`). Section calls are always errors,
  since `build_sce_ast_call_section` asks for a `;` of the wrong type, so nothing
  follows from them. Allocations succeed: what a NULL node does differs from call
  to call and is not handled anywhere.
* Lexer: the growth of the stack buffer is `StringBuffer`'s; the copy of a
  token's text succeeds.
* Number conversion beyond the integer of a literal, and UTF-8 beyond what a
  word byte is: no caller in the compiler or the machine, or rounding of
  floating-point numbers.
* Code generator: `else` branches, instances and functions, for which it
  generates nothing; operands that are Double literals (an operand without an
  instruction); a statement that mixes a call and an assignment by commas, of
  which only the call runs; comparisons other than what a jump sees of them.
* The frame timer (floating-point time, not in the CMake build), the debug
  printers and the OS call macros (output only), macro headers.
* Double, Char and Virtual values: no instruction that is emitted makes one.
  Integers do not wrap and floats are not rounded in `VmMemory`.
* The dead copy of the context: `start_sce_vm_context` returns it by value with a
  pointer into the local one, and the first update reads a module name through
  that pointer. The models read the table as it was.
* Shadowing: a section's variable that has a field's name is declared and never
  used, since the machine looks at fields first and both have the empty suffix.
  No document says which one is meant.
* Expressions that need more than a few registers: the register stack of the
  allocator and register 129.
* The end of the program (`delete_sce_run_vm_context`), which frees everything.
* `x = x` and a sum whose left operand is a call's result: both lose a value
  in the program and no sentence of the repository promises otherwise; the
  memory runs leave these statements out.

## 9. Plan

In the order in which they matter:

1. The rest of the refinement of `ScriptVariables` by `VmMemory`, the value a
   statement gives its target: a relation between what is known at a point of its
   code and the expression it was compiled from.
2. Composition of control and memory: a jump deletes the variables of the
   section it leaves, over several modules; shutdown.
