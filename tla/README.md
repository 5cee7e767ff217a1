# CinC in TLA+

CinC compiles a subset of C11 (`int`, `long`, `void`, functions, every statement, tentative
definitions and linkage) to x86-64 assembly and leaves assembling and linking to `cc`. This
directory specifies what its parts do, from the command line to the instructions, checks them with
TLC on small instances and proves the most important properties with TLAPS for every instance.
`sema.c` and the like are the files in the compiler's own source directory, `src/` of the
repository.

A run of a configuration is `tlc -config X.cfg M`, with the module M the table of runs names; the
proofs are checked by `tlapm M_proof.tla`.

## 1. The system

    main.c ──▶ lexer.c ──▶ parser.c ──▶ sema.c ──▶ ir.c ──▶ x86.c ──▶ .s ──▶ cc
    driver     tokens on    recursive    symbols,   three-    lower, slots,
               demand       descent +    types,     address   fixups, write
                            Pratt        targets    code

An invocation is one process and one thread; a phase hands the next a data structure and is not
called back. Concurrency comes in only from outside: several invocations may run over one file
system, as `make -j` has it. There is no retry and no timeout. What is hard here is of another
kind: state that is saved and restored around recursion, tables that outlive the scope that filled
them, declarations that may come in any order, lists changed while they are walked, code that is
correct only for some operand shapes, two programs (the compiler and its output) that have to agree
on addresses, recovery from errors that must come to an end, and files left behind by failures.

| Component | State it keeps | Operations | Talks to | What makes it correct |
|---|---|---|---|---|
| Driver `main.c` | options, list of objects, failed or not | compile, assemble, link, clean up | every phase in turn; `system()` | success is true; an executable is not touched before every file is compiled; no leftovers |
| Lexer `lexer.c` | cursor into the source | next token, one token of lookahead | called by the parser | looking ahead changes nothing |
| Parser `parser.c` | current and previous token, `panic` | statements, declarations, Pratt expressions, `synchronize` | builds `ast.h` trees | accepts the language, with its trees; comes to the end of any input |
| Declarations in `sema.c` | stack of scopes, `linked_symbols`, symbols, `next_symbol_id` | declare, define, bind a parameter, push and pop a scope, finish tentative definitions | fills `decl->sym`, `result->symbols` for ir.c and x86.c | one symbol per entity, the right diagnostics, one definition per object |
| Statements in `sema.c` | `fn_ctx`: break/continue/switch targets, last case, labels, gotos | `analyze_stmt`, `resolve_gotos` | fills targets and case lists for ir.c | every jump has the target its nesting gives it |
| Expressions in `sema.c` | none but the tree | type, insert conversions, fold constants | rewrites the tree in place | refuses the ill-typed; folding agrees with run time |
| IR generation `ir.c` | instruction list, pseudo and label counters | `emit_stmt`, `emit_expr` | reads the tree, writes IR | the code does what statements and expressions mean; labels are unique |
| Lowering `x86.c` phase 1 | instruction list | `lower_ir_instr`, `lower_call`, `lower_params` | IR to operands without limits | operand sizes, flags and the ABI |
| Stack slots, phase 2 | `pseudo_offset`, `frame_size` | `replace_pseudo` | rewrites operands | slots disjoint, aligned, in the frame |
| Fixups, phase 3 | new instruction list | `fixup_instr` | rewrites instructions | every instruction has an encoding; meaning kept |
| Writing, phase 4 | none | `write_instr`, `write_function`, `write_static` | the `.s` file | names and storage |
| Diagnostics `diagnostics.c` | error counter | report | all front-end phases | an error makes the file fail |
| `base/` | hash map, vectors, intrusive lists | set, get, push, append | everywhere | a map is a map whatever collides or grows; a list loses nothing |

Behaviours that are hard to test, with their lines, are the `hazards` of `PROJECT.json`.

## 2. The modules

| Module | Models | Refines / uses |
|---|---|---|
| `Driver` | main.c and the error count, several invocations over one disk; `cc` as it is used | |
| `Tokens` | the kinds of token | |
| `Parser` | parser.c, with lexer.c as a source of tokens | EXTENDS `Tokens` |
| `Grammar` | reference: C's grammar for what ast.h can hold, with the trees | EXTENDS `Tokens` |
| `CTypes` | `constant_convert` | |
| `Declarations` | the declaration half of sema.c; `write_symbol_name`, `write_static`'s choice | |
| `DeclarationRules` | the language's rules, over the declarations only | EXTENDS `Declarations` |
| `NestedStatements` | abstract: what break, case, goto refer to, by nesting | |
| `ControlContext` | `analyze_stmt`, `resolve_gotos` with `fn_ctx` | refines `NestedStatements` |
| `ExpressionTrees` | expressions as the parser makes them | EXTENDS `Arithmetic` |
| `ExpressionMeaning` | reference: C's types, constraints, defined results, in any order C allows | EXTENDS `ExpressionTrees` |
| `Expressions` | `analyze_expr`, `eval_constant`, `emit_expr`, and the IR running | EXTENDS `ExpressionMeaning` |
| `StatementTrees` | what parser and sema hand to ir.c: trees with targets | |
| `StructuredControl` | abstract: which expression is evaluated after which | EXTENDS `StatementTrees` |
| `StatementCode` | `emit_stmt`, labels, jumps, and the list running | refines `StructuredControl` |
| `Arithmetic` | two's complement at byte, int and long width; meaning of IR operators | |
| `InstructionSelection` | phases 1 and 3 for one IR instruction, and a processor | EXTENDS `Arithmetic` |
| `StackSlots` | phase 2 | |
| `Activations` | abstract: functions with variables of their own that call each other | |
| `StackMachine` | prologue, `lower_call`, `lower_params`, ret, on a stack | EXTENDS `StackSlots`, refines `Activations` |
| `Dictionary` | abstract: keys with the value each was last given | |
| `HashMap` | base/hashmap.c | refines `Dictionary` |
| `ItemSequences` | abstract: sequences that passes rewrite | |
| `Lists` | base/list.h and the passes of sema.c and x86.c that change a list while walking it | refines `ItemSequences` |
| `MC*` | constants for TLC | |
| `*_proof` | theorems | |

How they fit together: `Driver` decides which files are compiled and takes "compiles" as a fact
about a file; `Parser` says which texts have a tree and which; `Declarations` gives every identifier
its symbol, `ControlContext` every jump its target, `Expressions` every expression its types and its
instructions. `StatementTrees` starts where these end. `StatementCode` takes an expression as one
instruction; `InstructionSelection` takes one IR instruction with any operands; `StackSlots` and
`StackMachine` take the pseudos and calls in between. Each assumes of the one before only what that
module checks: trees are those of the grammar, targets are those of the nesting, operands have the
types the conversions gave them (`InstructionsFit`), every pseudo has a size. `HashMap` and `Lists`
justify that the others take a map for a function and a list for a sequence.

### State and actions against the code

**Driver.** `disk` is the file system, `run` the memory of each invocation, with `at` for the place
in `main` it has come to: a step is a line of main.c that touches a file or calls `system`, so two
invocations interleave between any two of them. `Assemble` and `Link` are `cc`, which fails if what
it reads is missing or is not what it needs, may fail otherwise at any time, and refuses an output
that is one of its inputs. `run_command` looks at the status only, so nothing is assumed of the
output of a `cc` that failed: it may be as it was, gone (`ld` removes it when a link fails) or
spoilt (`CommandFails`). What is assumed of `cc` is that it writes no file but the one it is given
with `-o`. `errors` is `error_count`, never reset. `first` is the disk before, for
the properties.

**Parser.** The C functions call one another; `todo` lists what the calls under way have still to
do, the innermost first, and `values` the trees they have returned and that are not yet put
together. A step goes to the next token or call. `parser` is `parser_t` with `error_count`. The file
is not fixed beforehand: `Lex` settles the next token when the parser asks for one, `EndOfFile` ends
the file, so that one behaviour stands for all files with the same beginning. `Files` bounds what
may be asked for: the kinds of token, how many, and how many (`wild`) after the first that no
sentence could have there.

**Declarations.** `scope` is `sema.scope` (innermost last), `linked` is `sema.linked_symbols`,
`symbols` and `nextId` are the symbols by id, `pending` the parameters `analyze_function` has still
to bind, `error` whether any diagnostic was reported. One action per call of `analyze_declaration`
(`DeclareObject`, `DeclareFunction`, `DefineFunction`), one per bound parameter, one per
`scope_push` and `scope_pop`, and `FinishTentativeDeclarations`. A declaration is a record of what
the code looks at: name, kind, base type, storage class, parameters, whether it has a body, and of
the initialiser only whether it is absent, constant, computed at run time or ill-typed. The
analyser goes on after an error and so do the actions. `declared` is a history of declarations with
the scopes open around each; only `DeclarationRules` reads it.

**ControlContext.** `stack` holds the recursive calls of `analyze_stmt` under way, each with its
saved C locals; `ctx` is `fn_ctx`. Meeting a statement is a step, returning from its call another.
`firstCase`, `nextCase` are the linked case list, followed by `Chain`; `gotos` waits for
`ResolveGotos`.

**Expressions.** `source` is the tree as parsed, `expr` what `Analyze` (`analyze_expr` with
`convert_to_type`) made of it, `code` what `Build` (`emit_expr`, `emit_convert`) emitted and `value`
the IR value of the whole. Then the instructions run, one per step, over `mem` and `temps`. `phase`
says how far it came: "refused" if a diagnostic was reported, "crashed" where the compiler takes the
size of a type that is not there, "undefined" where the IR does what has no result. These analyses
are functions of the tree, so they are operators (recursive on the tree) inside one action each.

**StatementCode.** `code` is the instruction list; statements the recursion has still to visit
stand in it as `visit` placeholders at the place where their instructions will be. `EmitStmt`
replaces the first placeholder by what one call of `emit_stmt` emits, placeholders for its
sub-statements included, and allocates its temporary labels; this is depth-first order, the order
of the recursion. In phase `run` the list is executed: a condition may give any value in `Value`.
A function definition's own label stands for the symbol name `write_function` writes.

**InstructionSelection.** `instr` is one IR instruction; `Lower` is `lower_ir_instr`, each `Fixup`
step is one call of `fixup_instr`, then the processor executes `code`. Memory holds the value of
each variable at its own width and accesses that are wider or narrower deposit or read bits, so a
wrong operand size shows. `flags` is the last comparison and is lost at every instruction that sets
flags otherwise. A register starts with junk. Lowered code reads no register it has not written,
which is why one instruction from any register contents stands for a sequence.

**StackSlots, StackMachine.** `offset`, `frameSize`, `stackSize` as in the code. In the machine,
memory is words of 4 bytes tagged with which half of which value they hold, so a value read at a
wrong address, or half of one and half of another, reads as `Junk`. `PushArg` copies 8 bytes
whatever the operand's size, as `pushq` does. Code addresses on the stack are records naming what
is to be done after the return.

**HashMap.** `entries` and `count` as in the code, `call` the call of `hashmap_set` or
`hashmap_get` under way, `probe` its search, one entry looked at per step, and `old` the resize in
progress: the array being filled and how far the old one was walked. The hash function is chosen at
the start, any of `Hashes`.

**Lists.** A node is a number in the order of allocation, `next` its pointer. Appending, joining and
the two passes are step by step as the macros and loops have them: `convert_to_type` may put a cast
in the place of the node the walk is at, and `fixup_instr` moves a node to the new list or makes
others instead. `ItemSequences` knows the last item too, except during a pass in place, so the tail
of the list has to be right again when `analyze_call` is done.

## 3. What is checked

All passing runs search the whole state space of their bounds. Deadlock is checked in every run
except `Parsing`, `Driver`, `Expressions` and `Lists`, where a program, or a bounded supply of
nodes, comes to an end.

| Run | Module | Question | Bounds, and why they suffice |
|---|---|---|---|
| `Linkage` | MCDeclarations | Is an identifier declared again and again diagnosed, stored and defined as the rules say, in every order? | One name as object, function and parameter, with all storage classes, initialisers and the single-declaration errors, up to 3 of them and 3 scopes: inheritance of linkage needs three (hide, inherit, conflict). 841,000 states. |
| `Scopes` | MCDeclarations | Which symbol is a name, and how is it called in the object file, after any shadowing? | Two names, function with a parameter, 4 declarations, 4 scopes, depth 4: an extern behind a local behind a file-scope object, twice. 879,000 states. |
| `Switches` | MCControlContext | Do nested statements keep their contexts, case lists, labels and gotos apart? | 4 statements of any kind, depth 5, two functions, two labels: a switch in a case of a switch in a loop, and back out. Case values 1 and 9 are equal as an int of 3 bits (`IntModulus` 8 for 2^32). 581,000 states. |
| `ControlFlow` | MCStatementCode | Does the code of a function evaluate what its structure says? | Every function of total weight 7 (module MCStatementCode gives the weights), two functions: two loops in each other, a switch with two cases of their own or with case, default and break, loops with a conditional break or continue, gotos and cases into a loop. A construct's code depends on its own shape and on what its sub-statements jump to, so pairs and a jump are what can interact. 675,000 states. |
| `Expressions` | MCExpressions | Are exactly the ill-typed expressions refused, does the rest compute what C says, and does folding agree? | All expressions of up to five nodes (fewer where there are many operators) over four kinds of symbol: a static int that functions change, an automatic long, functions with and without value and with none, one and two arguments, an undeclared name. Five nodes put an operator with a side effect under one with another, or a call that changes an object after an argument that reads it. int of 3 bits, long of 4. 330,000 states. |
| `Operators` | MCInstructionSelection | Can every lowered instruction be encoded, and does it compute what the IR instruction means? | All operators, all pairs of operand kinds, every value of a 3-bit int, a 4-bit long and a 2-bit byte. The widths keep the order 8 < 32 < 64 the code relies on and leave values that need the wider type; the code looks at widths only by size and by whether an immediate fits an int. 897,000 states. |
| `ShiftCounts` | MCInstructionSelection | finding, see below | same |
| `Calls` | MCStackMachine | Are slots disjoint and framed, and do calls on them keep the ABI and the caller's data? | Six pseudos of both sizes in four functions, in every order of first use. `ArgRegCount` 1 for 6, so one, two and three arguments are none, one (padded) and two on the stack. Three activations, recursive ones included: the one in the middle has a caller and a callee with its own layout. 75,000 states. |
| `Parsing` | MCParser | Does the parser accept the language, give its trees, and come to the end of anything else? | Thirteen kinds of file, one per part of the language with the tokens that part needs, of 4 to 11 tokens: two nested constructs of each part, as dangling else or two operators of each pair of levels. After the first wrong token up to 5 more of any kind, which is more than the two levels of recovery need to meet each other's stop tokens. 293,000 states. |
| `Driver` | MCDriver | Do exit status and files agree, whatever fails, if no other invocation writes the same files? | Up to three inputs of which two have one base name, outputs that are inputs, `.s` inputs, odd command lines; every input a program, a text or missing, leftovers of earlier work; two invocations together, with and without names in common. 98,000 states. |
| `Names` | MCHashMap | Is the hash map a dictionary, and does every call return? | Four keys in a table of capacity 2, which grows twice; 15 hash functions, from all keys colliding at the array's end to none. 824,000 states. |
| `Lists` | Lists | Do lists keep their items while they are joined, rewritten and moved? | Four nodes, any order of operations: a cast put first, in the middle and last, where the tail has to move. 466 states. |

### Fairness

Nothing inside the compiler is scheduled, so most specifications say nothing of fairness, and a
compiled program that loops for ever is a legal behaviour of `StatementCode` and `StackMachine`.
Where it is stated it is weak fairness of a process's own next step:

* `Parser`: of `Parse`, as the process runs as long as it can, and of `EndOfFile`, as a file is
  finite. `Terminates` then says that no loop of the parser goes round without a token.
* `HashMap`: of the call under way. `CallsReturn` says that a search ends.
* `Driver`: of each invocation's step, as the operating system schedules every process and `cc`
  ends. `EveryRunEnds` says that `main` gets to an exit on every path.

### The properties

* `DiagnosedExactly`, `OneSymbolPerEntity`, `StorageAsDeclared`, `DefinedHasBody`,
  `VisibleIsInnermost` compare the symbol tables with rules stated over the history of
  declarations alone. `SymbolsStable` is an action property: no later declaration takes back what
  an earlier one relied on. `LinkedOnce` and `AssemblerNamesDistinct` are about the object file.
* `ImplementsNesting`: the saved locals, the linked cases and the deferred gotos give every
  statement the target its nesting gives it, diagnostics included. `ContextIsInnermost` is why.
* `RefusedExactly`, `ComputesAsC`, `InstructionsFit`, `FoldedAsRun`: an expression is refused if and
  only if C gives it no type; if C defines it, the result and the memory afterwards are ones C
  allows (`ExpressionMeaning` reduces an expression in every order the language leaves open);
  operands of every IR instruction have the sizes the back end takes them to have; a constant
  expression folds to what its code would compute. Where the order of evaluation makes a result
  undefined in C, nothing is asked.
* `JumpsResolve`, `ImplementsStructure`: the output assembles (every label once, every jump with
  one), and runs as the structure of the statements asks. The refinement maps a program counter to
  the next expression it reaches through labels and jumps; the abstract side moves through places in
  the tree and knows no labels. A loop that never evaluates anything is a place of its own on both
  sides.
* `EncodableCode`, `AccessesFit`, `FlagsReachReader`, `ComputesMeaning`: about phases 1 and 3.
  `ComputesMeaning` includes that every other variable keeps its value and that only a division C
  leaves undefined faults.
* `SlotsApart`, `SlotsInFrame`, `SlotsAligned`, `SlotsKept` for phase 2; `AlignedAtCalls`,
  `Balanced`, `ImplementsActivations` for calls.
* `ParsesGrammar`: a file without a diagnostic is one of the language and its tree is the one the
  grammar gives; one with a diagnostic is not of the language. `ListsWhole` and
  `OneReportPerToken` are about recovery.
* `SuccessIsTrue`, `CompiledUpToFirstError`, `NothingLeftBehind`, `ErrorsKeepExecutable` relate
  exit status, files before and files after. They are stated for invocations whose files are
  `Apart` from those of others: main.c names temporary files after the base name in the working
  directory, so two compilers that share one write each other's, and nothing can be promised.
  (Inputs of one base name in one command are not left out.) `ErrorsKeepExecutable` says that the
  executable of an earlier build is safe until every file of this one is compiled. When the link
  itself fails, it may be gone. `CompiledUpToFirstError` states what main.c does with an error
  count that is never reset, not that resetting it would be wrong: that files, reports and exit
  status agree on it.
* `ImplementsDictionary`, `RoomLeft`, `ImplementsSequences` for `base/`.

Each property has a mutant, a definition next to the one it replaces with the bug in its name
(`EmitFor_ContinueAtStart`, `ObjFile_First`, `NextIndex_Clamped`, ...), under which TLC finds the
property violated.

### Finding

`x86.c:350` says that the shift count may be an immediate or `%cl`. `fixup_binary` moves any
immediate that does not fit 32 bits to `%r10`, the count of a shift too: `x << 5000000000L` becomes
`sall %r10b, ...`, which no assembler takes. The run `ShiftCounts` shows it. (The count has no
defined value in C; the compiler nevertheless produces no program, and says nothing.) `EncodableCode`
leaves out exactly the shifts by a constant that is no byte, so that it says something about all
other code.

### Worth knowing

Behaviour the models made visible, which no document of the repository promises or denies:

* Recovery inside a block stops at keywords and `;` and `}` but not at `{`: a block met while
  skipping has its `}` close the block around it.
* A character that is no token raises panic again while tokens are being skipped, which silences
  the next report too. The file is refused in any case.
* A link that fails may take the executable of the earlier build away: `link_files` gives `cc` the
  name itself, not that of a temporary file.
* After the first file with an error no later file of the command line is compiled, however good;
  each counts as failed.
* Two inputs with one base name share their `.s` and `.o`; the last one wins, and the linker is given
  it twice.
* A void call as a condition, or under a cast to an arithmetic type, is not refused; the compiler
  comes to take the size of a type without one.

## 4. What is proved

| Theorem | Module | Statement |
|---|---|---|
| `TypeCorrect` | DeclarationRules_proof | `Spec => []TypeOK` of `Declarations` |
| `SymbolsAreStable` | DeclarationRules_proof | `Spec => SymbolsStable` |
| `LinkedSymbolsUnique` | DeclarationRules_proof | `Spec => []LinkedOnce` |
| `ObjectFileNamesDistinct` | DeclarationRules_proof | `Spec => []AssemblerNamesDistinct` |
| `TypeCorrect` | ControlContext_proof | `Spec => []TypeOK` |
| `ContextFollowsNesting` | ControlContext_proof | `Spec => []ContextIsInnermost` |
| `NestingDecides` | ControlContext_proof | `Spec => ImplementsNesting`, the refinement |
| `InnermostIsVisible` | DeclarationRules_proof | `Spec => []VisibleIsInnermost` |
| `EntitiesAreSymbols` | DeclarationRules_proof | `Spec => []OneSymbolPerEntity` |
| `DefinedMeansBody` | DeclarationRules_proof | `Spec => []DefinedHasBody` |
| `StoresWhatIsDeclared` | DeclarationRules_proof | `Spec => []StorageAsDeclared` |
| `ErrorsAreExact` | DeclarationRules_proof | `Spec => []DiagnosedExactly` |
| `JumpsFindTheirLabels` | StatementCode_proof | `Spec => []JumpsResolve` |
| `SlotTypesCorrect`, `SlotsNeverOverlap`, `FrameCoversSlots`, `SlotsNaturallyAligned` | StackMachine_proof | the type invariant and three invariants of phase 2, of `SlotsSpec` |
| `SlotsStay` | StackMachine_proof | `SlotsSpec => SlotsKept` |
| `SlotsAreLaidOut` | StackMachine_proof | `Spec => SlotsSpec`: the machine's slots are those of phase 2 |
| `StackAlignedAtCalls`, `StackBalanced` | StackMachine_proof | `Spec => []AlignedAtCalls`, `Spec => []Balanced` |
| `CallsKeepPromises` | StackMachine_proof | `Spec => ImplementsActivations`, the refinement |
| `CodeIsEncodable` | InstructionSelection_proof | `Spec => []EncodableCode` |
| `AccessesStayInside`, `FlagsSurvive` | InstructionSelection_proof | `Spec => []AccessesFit`, `Spec => []FlagsReachReader` |
| `ReportsBounded` | Parser_proof | `Spec => []OneReportPerToken` |
| `ListsStayWhole` | Parser_proof | `Spec => []ListsWhole` |
| `AlwaysRoom` | HashMap_proof | `Spec => []RoomLeft` |
| `TableIsDictionary` | HashMap_proof | `Spec => ImplementsDictionary`, the refinement |
| `SuccessCanBeTrusted` | Driver_proof | `Spec => []SuccessIsTrue` |
| `CompilesUpToFirstError` | Driver_proof | `Spec => []CompiledUpToFirstError` |
| `LeavesNothingBehind` | Driver_proof | `Spec => []NothingLeftBehind` |
| `ErrorsChangeNoExecutable` | Driver_proof | `Spec => []ErrorsKeepExecutable` |

They hold for any set of names, any declarations, any depth of nesting, any statements, any
functions, pseudos and depth of calls, any files of tokens, any keys, hash functions and capacities,
any command lines and disks, any number of invocations, and any widths that satisfy the assumptions
of the modules.

* *Declarations* (in DeclarationRules_proof). `TypeOK` is inductive: the tables only hold ids below `nextId`.
  `LinkedOnce` is inductive on top of it, because a symbol with linkage is made only when the
  linked table has none of its name, and is entered at once. Distinct assembler names follow: a
  symbol with linkage is named by its name, one without by its name and id. Stability goes
  action by action, with a lemma that `LaterState` is reflexive and transitive, since one
  declaration changes a symbol twice (merge, then initialise).
* *DeclarationRules.* The rules are stated over `declared` alone, so the strengthening ties the
  tables to that history. `ScopesInv`: open scopes are numbered in the order of opening, a
  declaration after another that stands in an open scope stands in it or further inside, and each
  open scope binds a name to the last declaration of it there, or to nothing. From it the innermost
  binding is that of the last enclosing declaration (`InnermostIsVisible`). Linkage is a recursive
  function of the history; that it exists follows from the least-number principle, and that a
  declaration more leaves it as it was for those before (`LinkStable`) lets `determine_linkage`,
  which looks at symbols, agree with the rule, which looks at declarations (`LinkageAgrees`).
  `EntitiesInv`: every symbol is that of a declaration and says what each of its declarations says,
  and one without linkage has one declaration. `DefinedInv` and `StoredInv` are about bodies and
  initialisers of each symbol; the second needs a word on tentative definitions, which get their
  zero only at the end. `DiagnosedInv` is the equivalence itself, broken into what a declaration
  violates by itself and what it violates with one before it, and mended where it does not hold: a
  parameter without a name breaks a constraint as soon as the definition is listed, and is reported
  when it is bound. A redeclaration that is refused conflicts with some earlier declaration, since
  its symbol says what those said (`BindErrorConflicts`); one that is accepted conflicts with none
  (`AcceptedWithoutConflict`), because everything that could conflict is in the symbol it found.
* *ControlContext.* `ContextIsInnermost` speaks of `ctx` and of the saved locals, and is inductive
  with `TypeOK`: a call that returns restores what was innermost one level below, which is what the
  saved locals say. "The innermost" is the largest element of a set of stack indices; that it exists
  follows from the least-number principle (`SmallestInNat`). For the refinement `NestingInv` says
  the rest. Following the case links ends, since they lead forward (`FromDefined`, by the
  least-number principle); `CasesInv`: a list ends where nothing is linked and no case is in two
  lists, so that linking a case after `last_case` appends to one list and leaves the others
  (`FromLinked`). `LastInv`: `last_case` ends the list of the current switch, and what each switch
  saved ends that of the switch around it, which `OrderInv` says is an earlier one. `GotosInv`: a
  goto is listed once and has no target before `resolve_gotos`, so that one without a label keeps
  none. Every action is then an action of `NestedStatements`, lemma by lemma (`...Nests`).
* *StatementCode.* `JumpsResolve` speaks of the finished list. `IInv` has two parts. `TreeOK` is about
  what is read in: a statement lies inside one with a smaller number, so that each has a function it
  is of (`Homes`) and what `Around` finds is in that function; a break, a continue, a case and, once
  the file is read, a goto have a target of the kind they need, in the same function. `CodeOK` is
  about the list. There are a set of visited statements and, for every position, a function it is of
  (`f`) such that a statement that is not visited and whose parent is has its one place in the list, one that
  is visited has each of its labels there, one that is further inside an unvisited one has neither,
  and a jump goes to a label that belongs to a statement of its function, or to a temporary that is
  already written. `f` ascends, which makes the positions of a function contiguous, so that "between
  the symbols of two functions" is the same as "of the function". One lemma per form of statement
  shows that it emits each sub-statement once, each of its own labels once and jumps to its own, to
  its targets' or to its cases' (`Piece`); `PieceKeeps` shows that a visit replaced by such a piece keeps
  `CodeOK`, once for all forms. When nothing is left to visit, every label is there.
* *StackSlots* (in StackMachine_proof). Disjointness is not inductive: a new slot must lie beyond
  all others of the function. `InGrowingFrame` says that the slots of the function being walked lie
  within `frameSize`, `Walked` that functions not yet walked have none and finished ones are done.
  The new slot is the range between the old and the new `frameSize`.
* *StackMachine.* `MachineInv` says that the activations on the stack are a chain: each frame has
  its saved `%rbp` and its return address where the one above it expects them, frames do not
  overlap, and what the caller pushed lies between. `%rsp` follows from the instruction the machine
  is at, by the chain (`Balanced`); a frame is a multiple of 16 and an odd number of stack arguments
  is padded, so it is aligned at a call. The slots never change while the machine runs, so every
  behaviour of the machine is one of `SlotsSpec`. For the refinement `CallsInv` says that there are
  frame pointers, functions, waiting variables and values, one for each activation, that the stack
  agrees with (`Describes`): the slots of each hold the values of its variables, its return address
  names the function and the variable that wait, and during a call the registers and the words
  pushed so far hold what the caller's operands meant when the call began. A store into a slot
  changes one variable of the innermost activation (`StoresForVariable`: slots of a function are
  apart, frames are apart); pushing, calling and returning keep what lies above (`StandsWhereKept`).
  The refinement mapping reads the activations off the memory by following the saved `%rbp`s, a
  recursive function over numbers; `BaseIs` shows, by the least-number principle, that it finds the
  frame pointers of `CallsInv`, and then each step is one of `Activations` or a stutter.
* *InstructionSelection.* The invariant describes what may still be in `old` (`FixableInstr`: the
  shapes lowering produces) and in `code` (encodable). One lemma per lowering function shows it
  produces fixable instructions, one per fixup that a fixable instruction becomes encodable ones.
  The sizes of accesses go the same way. For the flags, `FlowInv` says that between a comparison and
  the instruction that reads it there are only moves, in `old`, in `code` and across the seam.
* *Parser.* That there are no more reports than tokens is not inductive: the report of a `}` that is
  missing at the end of the file takes no token, and neither does one where recovery stops without
  having moved. `ReportInv` therefore keeps a budget. `Depth` counts the blocks under way: the `{`
  of each is held back and pays for the report of its `}`. Between two rounds of a loop
  (`LoopBudget`) errors and `Depth` together are at most the tokens read, with one report more
  allowed where a panic has come back to a block. Within a round (`StepBudget`) there is a token to
  spare, or else a panic is on, in which nothing more is reported, or the round began at the
  current token (`Fresh`): then the round takes one before its panic is over, in the statement or in
  its `recover` step, and that token pays for the next report (`TokenPays`). `Ordered` says which
  steps can wait behind which, so that every step knows the round it belongs to, and `BlockAhead`
  that a block is only begun at a `{`. The first token is read before any of this, hence `AtStart`.
  That lists are whole needs to know what `values` holds, which only `todo` tells: `TreesFit` gives
  every tree on the stack a type (what kind of tree it is, and whether it may be missing) such that
  the steps left to do lead from it, one after another, each taking what it expects (`Step`,
  `Leads`). A C function that may return nothing leaves an `any`, and only a `node` is appended. An
  item of a block is the interesting case: `parse_statement` returns nothing at the start of a
  declaration, but `parse_block_item` calls it only elsewhere, so `AtItem` says that the token it
  looked at is still the current one.
* *HashMap.* That a table is not full is not inductive: it depends on `count`, which the load check
  reads, and on what was checked before the search began. `Counted` says that `count` is at least
  the number of keys and below the capacity; `Reserved` carries the result of the load check from
  the call of `hashmap_set` to the insertion; `Growing` says that the array being filled is twice as
  large and holds no more keys than were walked. A key more raises a cardinality by at most one,
  which the lemmas about `Occupied` show. For the refinement the invariant has what lets a search
  find a key if and only if it is there: keys are there once, and from a key's home to its place
  there is no empty entry, in the table, and in the array being filled for the entries already
  moved. The two together are always the abstract dictionary; the step of the dictionary is the one
  in which the search ends, every other step a stutter.
* *Driver.* The properties relate the end of `main` to the disk at its start, and other invocations
  run in between. `ControlInv` says where in `main` an invocation can be with which lists, `MadeInv`
  what its outputs are made of, `LeftInv` which of its temporary files may exist, `QuietInv` that
  what it has not written is as it was. What a failing `cc` leaves may be anything (`Spoilt`), but the
invocation ends with it; so an executable is touched by a link only, and a link comes after all
inputs (`Complete`), which an invocation that has ended still knows (`EndOK`). A lemma says that the step of another invocation writes none
  of its files when the two are apart, for every part of the invariant. "The first file in error"
  is a least number, which exists because `<` is well-founded on the naturals.

Assumptions on constants are the `ASSUME`s of the modules, which TLC evaluates for every instance.
`MachineAssumption` says that `main` has no parameters, which is how the models call it, that the
stack starts at a multiple of 16, as the ABI has it, that a parameter's pseudo is of the function
it is a parameter of, as `emit_function` makes it, that the parameters of a function are different
pseudos, for sema.c:770 refuses a name given twice and each one left has a symbol of its own, and
that constants are not pseudos, which are operands of another kind. `DriverAssumption` says that names of inputs and
outputs are names the disk has or could have, and that at first a file is nothing, a text or a
program of its own.
`FilesAssumption` says that `Files` is made of sizes and of the four kinds of file the parser model
knows.
`PowersAssumption` in `Arithmetic` states facts about powers of two that follow from the widths but
that the solvers, which have no theory of exponentiation, cannot derive.

## 5. What is only model-checked

* The refinements `ImplementsStructure` and `ImplementsSequences`.
* What instructions compute (`ComputesMeaning`): that is
  arithmetic modulo powers of two under division and shifts, which the solvers do not do for
  unknown widths.
* `ParsesGrammar` of `Parser`, by comparison with a finite set of sentences.
* `Expressions`: what a recursive definition computes for every tree needs induction over data,
  which TLAPS cannot do here. (A recursive function over numbers, as `LinkageOf` is, is within
  reach: it exists and is unique by the least-number principle.) `Expressions` and `ExpressionMeaning` are the only modules with
  RECURSIVE operators; the others use recursive functions, so that their invariants stay in reach.
* Liveness (`Terminates`, `EveryRunEnds`, `CallsReturn`) and ENABLED.

## 6. What is not modelled, and why

* How characters make up a token: the lexer is a source of tokens. One too large to be a `long` is
  the token "huge", characters that are no token are "error".
* Vectors, which are sequences in every module, and the allocator, which ends the program when it
  has no memory. `hashmap_free`. Comparison of keys by length and characters: a key is compared as a
  whole.
* The text of the assembly and of diagnostics: formatting.
* Commands cut at 4096 bytes, and the length of paths.
* Files that cannot be opened for writing: the compiler writes through a null stream there.
* Conditions and cast operands without a value: `Expressions` shows that the compiler goes wrong
  (phase "crashed") and leaves exactly these out (`Unchecked`).
* `fixup_push` (an immediate operand that is too large for pushq) and statics as call operands.
* The type check of `return`. Function designators that are used as values.
* Initialisers in `Declarations` are given by kind and value, case expressions in `ControlContext`
  by value: `Expressions` says how the value comes about.
* What `cc` does with the assembly, apart from succeeding or failing.
* The test script, which compiles and runs example programs.

## 7. Plan

Every part that has logic of its own is modelled. What remains is mostly to prove:

1. `Lists_proof`: that what hangs together by the links is a sequence without repetition.
2. `Lexer`: identifiers, numbers at the limit of a long, and comments, over classes of characters.
