# IFJ17 compiler: verification development

The repository is a compiler from IFJ17 (a BASIC dialect with functions, nested
scopes, static and shared variables) to IFJcode17, an assembly-like language for
a stack machine with frames of variables. It is one single-threaded C program: it
reads the source once, emits code while it parses, optimizes the code and prints
it. This directory holds TLA+ models of it, the TLC configurations that check
them on small instances, and proofs of what holds for every instance.

There is no concurrency and no persistent state in this program, so there are no
interleavings of processes, no crashes to recover from and no messages to lose.
What makes it hard is *sequence*: state that one construct leaves for another
(stacks of tables and of labels, a place to insert declarations, a flag that
selects a list), in every nesting of constructs a source program can have. The
tests of the repository exercise single functions and single programs; the
models here go through **all** programs up to a size, and then run the code they
compile to.

## 1. Inventory

`ifj2017.c` calls `parser_parse`; on success the optimizer's passes rewrite the
instructions, `code_generator_render` prints them. All calls are synchronous;
components share state through pointers in `Parser`.

| component | state | operations | what makes it correct |
|---|---|---|---|
| **SymbolRegister** (`symbol_register.c`) | linked stack of variable tables, each with a number or an alias; counter of tables; table of functions | push, pop, find (innermost, recursive), new variable | no two variables share the identity the target program knows them by; a name finds the last declaration still visible; a block leaves nothing behind |
| **ParserSemantic** (`parser_semantic.c`) | actual function, whether it was declared before, frame of the declaration under way, error | add variable, function name, parameters, types; function start and end | duplicates are refused, parameters and variables of a function are local, nothing in the main part is |
| **Parser** (`parser.c`) | the above plus a `CodeConstructor` and a `Lexer`; recursion of the rules | one function per grammar rule | tables and labels pushed by a rule are popped by it; the final assertions hold |
| **Expression parser** (`parser_expr*.c`) | a list of expression tokens, each with the instruction that pushes it | shift, reduce: operations, calls, built-in functions | each expression leaves exactly one value; arguments reach their parameters |
| **CodeConstructor** (`code_constructor.c`, `stack_code_label.c`) | three stacks of labels, depths, the label of the outermost loop, a label counter | one or more operations per construct | labels are unique and placed once; declarations run once; the emitted code is runnable |
| **CodeGenerator** (`code_generator.c`) | two doubly linked lists, a flag that selects one | append, remove, insert before, flush, render | pointers hold the lists asked for |
| **CodeOptimizer** (`code_optimizer*.c`, `meta_data*.c`) | counts of uses, peephole patterns, graph of blocks, tables of constants | type casts, peephole, constant propagation, removal of unused symbols, jump and comparison rewriting | a rewritten program behaves like the original; counts agree with the code |
| **OrientedGraph**, **SetInt** (`oriented_graph.c`, `set_int.c`) | nodes, edges both ways; ordered lists | strongly connected components; insert, union, ... | components are those of mutual reachability |
| **Interpreter** (`interpreter.c`) | a stack of literals | evaluate one expression | same value as the target machine |
| **Lexer** (`lexer.c`, `lexer_fsm.c`, `token.c`) | automaton state, one pushed-back character, one pushed-back token, line | next token, rewind | every character is in one token; nothing pushed back is lost |
| **SymbolTable** (`symtable.c`) | buckets of chains, item count | get, get-or-create, move, remove, copy, clear, free | a map; an item stays where its users point; links lead through all the items of a chain; the count is how many are stored (after a removal it is not: section 4) |
| **LList, Stack, String** (`llist.c`, `stack.c`, `dynamic_string.c`) | linked lists, buffers | usual operations | sequences |
| **MemoryManager** (`memory.c`, `memory_debug.c`) | list of pages, chained both ways | alloc, free, exit | no page twice, all freed at exit |
| **Program, errors** (`ifj2017.c`, `error.c`) | error report | order of passes, exit codes | straight-line |

The hard behaviours, each listed at its line in `PROJECT.json`:

* **Order of pushes and pops across rules.** `IF`, `ELSEIF`, `ELSE`, `END IF`
  pop tables and labels another rule pushed.
* **State that outlives its construct.** `loops_initial_instruction`,
  `actual_function`, the alias of a table, `was_actual_function_declared`.
* **Code that moves.** A `DEFVAR` in a loop is emitted before the outermost loop,
  its default value where the loop has it; the flag of a static variable at the
  very start of the program; functions through a buffer to the end.
* **Pushes taken back.** A literal or variable that turns out to be an argument
  has its `PUSHS` removed; anything else is popped into the parameter.
* **Pointer lists with two heads.** Removal and insertion repair the ends of the
  list a flag selects, or always those of the main one.
* **Items that move and pages that come and go.** A hash table relinks its items when
  it moves, and every page it gives back is unlinked from its two neighbours.
* **Optimizations by counts and by position**, each pass relying on what the one
  before left: a graph of pointers into the code, counts kept up to date by hand,
  marks on the first and last instruction of an expression.
* **Loops over passes** that go on while a pass reports a change.

## 2. Modules

| module | models | lines of code |
|---|---|---|
| `ScopeStack` | variables, identities and stacks of tables, as operators; shared by the two models below | `symbol_register.c`, `symtable_variable.c`, `symtable_function.c` |
| `SymbolRegister` | the register driven by the calls `parser_semantic.c` makes, in any order the source can cause | same, and `parser_semantic.c` |
| `ScopeStackProofs` | lemmas about those operators | |
| `SymbolRegisterProofs` | proofs about the register | |
| `InstructionLists` | what the generator promises: two sequences, and what callers may ask | |
| `CodeGenerator` | the linked lists, pointer by pointer | `code_generator.c` |
| `CodeGeneratorProofs` | proofs about them | |
| `CodeConstructor` | what each construct emits, as operators on a constructor record | `code_constructor.c`, `stack_code_label.c` |
| `ExpressionRules` | what an expression emits, as a recursive function of how many of its reductions are done | `parser_expr*.c` |
| `ParserStatements` | the parser: one action per construct (or per beginning and end of one), with checks, tables, labels and code | `parser.c`, `parser_semantic.c` |
| `TargetMachine` | external: the machine that runs IFJcode17 | |
| `CompiledProgram` | parser and machine composed: parse a program, then run it | |
| `CodeConstructorProofs` | lemmas about what each function of the constructor does to code, labels and stacks | |
| `CompiledProgramProofs` | proofs about the parser and the code it has emitted | |
| `Characters` | codes of characters, `ctype.h`, the cast to `char` | |
| `LexerFSM` | the automaton, one action per case of its `switch` | `lexer_fsm.c`, `char_stack.c` |
| `Lexer` | calls for a token, the token given back, the data of tokens | `lexer.c` |
| `LexicalGrammar` | what the lexer promises: texts and tokens, no automaton | |
| `LexerProofs` | proofs about it | |
| `IntermediateCode` | instructions with operands, marks and signatures, the classes of instructions | `code_generator.c`, `code_instruction*.c` |
| `ConstantArithmetic` | literals, their operations and conversions | `interpreter.c`, `parser_expr_rules.c`, `common.c` |
| `TypedExpressions` | an expression with types: implicit conversions, folding of constants, calls | `parser_expr_rules.c`, `code_optimizer_expr.c`, `parser_semantic.c` |
| `PrecedenceParser` | the buffer of an expression, the precedence table, the shapes of the rules | `parser_expr.c`, `parser_expr_internal.c`, `parser_expr_prec_table_data.c`, `parser_expr_rules.c` |
| `ExpressionGrammar` | what an expression is and in which order it is computed, without a table | |
| `SourcePrograms` | what statements emit, and the program around them | `parser.c`, `code_constructor.c` |
| `OptimizerMetaData` | counts of uses and jumps, purity of functions and expressions, the marks that follow from them | `code_optimizer.c`, `meta_data*.c` |
| `UnusedCode` | removal of unused variables, results and functions | `code_optimizer.c` |
| `PeepHole` | the patterns, and one walk that replaces what matches | `code_optimizer.c`, `meta_data_peep_hole_pattern.c` |
| `ConstantEvaluation` | the interpreter; casts, literal and partial evaluation, jumps, comparisons, repeated writes | `interpreter.c`, `code_optimizer.c`, `code_optimizer_expr.c` |
| `CodeGraph` | blocks, edges, Tarjan's components | `code_optimizer.c`, `oriented_graph.c` |
| `ConstantPropagation` | the tables of constants and the stack that carries them from block to block | `code_optimizer.c`, `meta_data_constants_tables_stack.c` |
| `PassSchedule` | the order of the passes and what each may do to what the optimizer knows, without the code | `ifj2017.c` |
| `Optimizer` | the passes composed, one action each; implements `PassSchedule` | `ifj2017.c`, `code_optimizer.c` |
| `OptimizerProofs` | proofs about the schedule, the blocks of the code and Tarjan's components | |
| `ValueMachine` | external: the machine with values, input and output | |
| `MemoryManager` | the list of pages, as operators | `memory.c` |
| `SymbolTable` | the hash table, one action per function, with the memory it takes and gives back | `symtable.c` |
| `LinkedChains` | its chains as links from item to item, read and written as the functions do | `symtable.c` |
| `KeyedItems` | what it promises: maps from keys to items | |
| `SymbolTableProofs` | proofs about the tables, the list of pages, and that they are maps | |
| `MCSymbolRegister`, `MCCompiledProgram`, `MCLexer`, `MCOptimizer`, `MCSymbolTable`, `MCPrecedenceParser` | the instances for TLC | |

### How state and actions correspond to the code

**ScopeStack, SymbolRegister.** A table is a record with its number (`depth`),
its `alias` and the variables it holds; the hash table inside is a function of
names. The stack is a sequence, innermost last (the code's linked list has it at
its head). `Identity` is what
`code_instruction_operand_render_variable_identifier` makes of a variable: the
alias of its table, or the number, with its name, or its index when it is a
parameter. `DeclareVariable`, `DeclareFunction` and `FunctionStart` carry the
checks of `parser_semantic.c` as guards. `born` (a clock of declarations),
`declared`, `redeclared` and `outside` are history: nothing reads them but
properties. The first table's alias, which `symbol_register_init` does not
assign, is NULL as in a build without `NDEBUG`, which clears memory; with
`NDEBUG` its value is undefined, and only the identity of shared variables
depends on it.

**CodeConstructor, ExpressionRules.** The constructor is a record with the fields
of the C structure; each C function is an operator from a record to a record. An
instruction remembered by pointer (`loops_initial_instruction`) is remembered by
its label, labels being unique (`JumpsResolve` checks that). The
stack-of-labels is a sequence, top last. Data types, conversions, literals and
built-in functions are left out; the values a variable can have are `FALSE`,
`TRUE` (for the flags of static variables, on which jumps depend) and "some
value". The six global temporaries are one. An expression is the postfix sequence
of its reductions, as `PrecedenceParser` leaves it in `output`; the model
takes all the sequences the configuration lists.

**ParserStatements.** `part` is where the parser is in the grammar; `blocks` is
its recursion: the open rules, each with the declarations the *source* puts in
that block (this half is specification: it is never read by an action, except for
which rule is open). `variables`, `functions`, `actual_function`,
`was_actual_function_declared`, `constructor` are the fields of the C
structures; `globals` holds the frame of each variable. A rule that returns false
ends parsing (`refused`), as `parser_parse` does.

**TargetMachine, CompiledProgram.** The machine is not in this repository; it
is the IFJcode17 interpreter as the emitted code needs it: frames of declared and
assigned variables, the *height* of the data stack with the heights at calls, and
faults (undeclared, redeclared, unset variable, missing frame, stack underflow,
missing label, return without call). Values are abstract, so a conditional jump
goes both ways unless it tests the flag of a static variable. Parsing and
running are phases of one behaviour: every program of the given size, every path
of each.

**CodeGenerator, InstructionLists.** `first`, `last`, `buffer_first`,
`buffer_last`, `to_buffer`, `next` and `prev` are the C fields. `main` and `buffer`
are history: each action is one request to `InstructionLists` (which says what
the callers may ask) together with what the C function does to the pointers. The
early return for an instruction that is already linked is in the model. Memory
that was freed can be handed out again. `InstructionLists` assumes of the callers
that nothing is inserted before the head of the buffer (the code would make it
the head of the main list), that only instructions of the list being written are
removed, and that the main part is not empty when the buffer is flushed (the code
would dereference NULL). The first is checked where it matters, in the parser, as
`DeclarationsHaveAPlace`; the others hold because a removed `PUSHS` belongs to the
statement being parsed, and because `code_constructor_end_code` emits a jump just
before it flushes.

**LexerFSM, Lexer.** A step of the model is one call of `lexer_fsm_next_state`:
`Char` is the character it gets (`char_stack_pop`, then the stream), and each case
of the switch ends by skipping, storing or giving back that character. Characters
are byte codes, since the code's comparisons and its cast to `char` are about
codes; `CharOf` makes byte 255 the same as EOF, as the cast does. A call of
`lexer_next_token` is `NextTokenStart`, a run of `NextTokenLoop`, and
`NextTokenEnd`, or `NextTokenRewound` alone. The parser is abstracted to any
caller that takes tokens until the last or the first wrong one and gives back only
the one it has just taken: each rule that gives one back has just asked for it. The
widths of `int` and `long` are constants, so that small texts overflow them.
`tokens`, `taken`, `start` and `end` are history.

**PrecedenceParser, ExpressionGrammar.** `buffer` is the list of expression tokens,
`token` the one at hand. A turn of the loop of `parser_parse_expression` is one action:
a look into the table, with the delimiter of the expression given back and the end
looked up in its place, and then a shift, a reduction or a return. Token types keep
the codes of the C enumeration because the code calculates with them: literals and
functions are put in the place of an identifier, marks are told from terminals by a
mask, and the type of a token that is not one of expressions (133) passes that mask
and has no column, so that another row or memory after the table is read.
`Precedences` finds any precedence in such memory. A rule is its shape, what is
between the mark and the end of the buffer; `output` has its reductions, which are
what `ExpressionRules` and `TypedExpressions` fold. `ReduceWrongly` stands for all
errors of meaning a rule finds. `given_back` and `misread` are history.
`ExpressionGrammar` splits a sequence of tokens at its loosest operator outside of
brackets, and says the steps a machine with a stack would take.

**IntermediateCode, TypedExpressions, SourcePrograms.** Here the code has what the
optimizer looks at: operands (variables by frame and name, labels, literals with
type and value), the marks of `CodeInstructionMetaData`, purity. Doubles are kept in
halves, texts are sequences of characters.
`Expression` is a fold over typed reductions: it converts operands as the operation
signatures say, folds literals where `expr_eval` and the rules of the built-in functions
do, and emits the code of `LENGTH`, `CHR`, `ASC` and `SUBSTR`, which has labels and, for
the last, a loop of its own. Each generated label is placed in the code once, so the
counter of labels is moved by as many as the code of the expression has (`LabelsIn`).
`Unfolded` is the same expression with every literal pushed as a variable would be, so
that nothing about it is known when it is compiled. A
program is a flat list of statements, each compiled as its rule does it; the stack
of labels and the place for declarations in loops are in `CodeConstructor` and not
repeated here, so programs are compiled once, in the instance, and are constants of
`Optimizer`: `Parsed` as the parser leaves them, `Meant` with nothing folded. While the passes were written, random programs were put through the
compiler built from the repository and through the model, and the code after every
pass compared, instruction by instruction, with its marks.

**Optimizer and its passes.** A pass of `main` is an action; a `while` around a pass
is a pass that stays where it is in the schedule as long as it reports a change, and
the `do ... while` goes back to `LoopStart`. The code is a sequence; a pass is an
operator from code and tables to code and tables that walks it as the C function
does, from left to right, going back where the C code goes back. `meta` holds the
counts and the facts about functions, `graph` the places where blocks begin and end
and the edges in the order they were added, `interpreter` what the interpreter
leaves on its stack and in its buffer from one pass to the next, `evaluated` the
flag `expr_interpreted`, `advanced` whether the second half of the patterns is in the
list. A label no block begins with has a block that nothing sets, which is a
choice of any (`Strays`). `knowledge` is history: whether the graph is that of the
code, whether counts cover the uses, whether marks are in pairs, computed from the
other variables after each pass. It is what `PassSchedule` speaks about.

**ValueMachine.** The machine of `TargetMachine` with values instead of heights of
the stack: what it has printed and how it ended is the meaning of a program.

**MemoryManager, SymbolTable, KeyedItems.** The memory manager is that of the build
with `NDEBUG`: `head`, `next` and `prev` of its pages are the C fields, and the page is
the address its user gets (the code adds the size of the header). A table is a record
with its own page, the number of buckets, `item_count` and a sequence for each chain;
an item has its page and that of its copied key. Each action is one C function with
every `memory_alloc` and `memory_free` it makes, `Exit` is `memory_manager_exit`
whatever there is. `live` and `allocated` are history. Memory is not handed
out again before the end: that only matters to whoever points to what was released,
and `EveryPageHasAnOwner` says nobody does. Several tables share one list of pages.
The compiler itself neither moves a table nor removes an item; the tests do.
`LinkedChains` has the chains as they are in memory: `firsts` is the array of a table's
buckets, `links` has the fields `next` and `key` of each item (and the page of its key). Each
action is the one of `SymbolTable`, as a request, together with what the C function does
to the links: the walk to the last item or to the one before the removed one, a move that
takes the items of a chain one by one and appends each to another while the old links are still
followed, copies put in front. It reads nothing but links, at the moment the code does. The run
`symbol_table` is of `LinkedSpec`, so that all properties are checked in the same states.
`KeyedItems` has for each table the item each key has, so that a table that lost an
item and made a new one in its place would not implement it: the parser keeps pointers
to items.

`LexicalGrammar` describes the tokens as sets of texts and `TokensAreLongest` says
what the automaton makes of a source: the longest text from where it stands that is
a token or the beginning of one, with an error when that is only a beginning. One
thing there is taken from the code and not from a habit: inside a block comment a
quote takes the next character with it unless that is a slash, so `''/` does not end
a comment (`FromCommentBlockEnd`).

## 3. Runs

All runs are exhaustive at their bounds. `CHECK_DEADLOCK` is off where a program
may end (an accepted or refused program, a machine that halted).

| run | instance | shows |
|---|---|---|
| `symbol_register` | 3 names, 4 parameter lists (empty, one, a duplicate, two), 3 pushes, 4 declarations | identities, last declaration, outer meaning, and the inductive invariant of the proof |
| `code_generator` | 5 addresses | the pointers hold the lists (`ListsAreHeld`); walking along `next` from `first` and `buffer_first` is a behaviour of `InstructionLists` (`WalksAsAsked`, a refinement mapping) |
| `compiled_program` | four kinds of programs. *Loops*: 1 name; 2 loops, 1 condition, 2 `DIM`s, 1 `STATIC`, 1 `PRINT`. *Scopes*: 2 names; 2 `SCOPE`s, 2 `DIM`s, 2 shared, an assignment and an `INPUT`. *Branches*: 2 `IF`, 2 `ELSEIF`, 2 `ELSE`, 1 loop. *Functions*: a function name and a variable name that may coincide, 0 or 1 parameters; a declaration, a definition, a loop, recursion to depth 2, static, shared and local variables; arguments that are a variable, a sum, a call | declarations of loops run once and before every use; names in nested and following blocks; every shape of conditions; frames, calls, static flags, pushes taken back |
| `lexer` | all texts to length 5 over the characters of numbers and of comments; string bodies to length 5; words and numbers in a base to length 3; pairs of operators; `int` of 6 bits, `long` of 8 | longest tokens, their data, no character and no token lost, every call returns |
| `line_after_comment` | texts to length 5 over slash, quote, a letter and the end of a line | the finding on lines |
| `optimizer` | 15 programs named for what they are about, and every operation of four on every pair of an Integer literal, a Double literal, an Integer and a Double variable; each program on three inputs | folding and every pass keep what the program prints, every pass finds what it relies on, and ends; the graph and its cycles are right; `Optimizer` implements `PassSchedule` |
| `expressions` | every sequence of up to 3 tokens of 13 and of 4 of 7; three operators in a row, operators around prefixes, brackets and calls, calls in calls; 2 tokens beyond the last | what is accepted is an expression, reduced in the order of its meaning, and its delimiter is given back; no expression is refused |
| `changed_meaning`, `endless_peephole` | ten programs and one | the findings on the optimizer below |
| `symbol_table` | `LinkedSpec`: 2 tables of 1 or 2 buckets, 3 keys of which two always share a bucket, up to 10 pages before the end and 3 items counted in a table; the two tables may change places, and so may the two keys | buckets and chains implement maps, and the links are those chains; no page is lost, used after its release or owned twice |
| `branch_names`, `renamed_parameters` | the smallest programs that show it | the findings below |

**Why the bounds are enough to be interesting.** Each property is broken by a
mutant of the code at the same bounds (one for each property of each run, in
`PROJECT.json`). Two loops are needed to tell the outermost from an inner one, and
to have a second loop after the first; one declaration between them, one inside
and one after each. Two conditions give every nesting of branch in branch and
branch after branch. A function called twice, once from itself, has a static
variable that one call declares and the next must skip. Five addresses give a list
with a first, a middle and a last element, and two more for the other list.
Five characters are a number with fraction and exponent's
beginning, a comment with content, or a whole numeric escape with what follows it;
three digits of a base overflow both widths. `Allowance` bounds how often a construct occurs in a program; `MaxCalls` how
deep calls nest; `MaxTables` and `MaxBorn` how many tables and variables the
register sees. The four kinds of `compiled_program` exclude combinations on purpose
(say, functions between two loops), to keep the run within minutes.

Ten pages are a table with three items and one that they are moved to, with two pages left for an
item put in there, or a table of two items and its copy. So an item has one before it and one after it in a
chain, a chain of three is taken apart into two, in every order, and two are put together, a copy
has items of its own, put in front of each other, and the list of pages has those of several tables mixed.

A program of the optimizer is followed for `MaxRounds` rounds of `RoundLength` steps,
240 in all; every program of `optimizer` ends well before that on every input, so its
meaning there is what it prints altogether. The 15 programs between them reach
every pass and, in their composition, every loop of `main` more than once; the 64
others put each kind of operand on each side of an operation, printed or deciding a
branch, so that conversions, folding, partial evaluation and comparisons meet in
every combination. Three inputs take every branch and a loop no times, once and
several times; a text that is read is empty, `a` or `abc`, so that a place or a length asked
for is inside, at the end of or behind it.

**Properties.**

* `NoUndeclaredAccess`, `NoRedeclaration`, `NoUninitialisedRead`,
  `StackDiscipline`: what a compiler owes. A program it accepts does not stop on
  an error its source did not contain: on every path each variable is declared
  exactly once before it is used and has a value before it is read, and every call
  and every statement leaves the stack as it should.
* `JumpsResolve`, `ParseAssertions`: unique labels, no dangling jump, and the
  assertions at the end of `parser_parse`.
* `EveryNameMeansItsBlock`: at every point of parsing, name lookup in the
  parser's stack of tables agrees with the blocks of the source program.
* `MainHasNoLocals`: outside functions no function is current.
* `DeclarationsHaveAPlace`: where declarations of a loop go is inside the list
  being written.
* `NoIdentityReuse`, `LastDeclarationWins`, `OuterMeaningKept`: the register.
* `ListsAreHeld`, `WalksAsAsked`: the generator.
* `MeaningKept`: as the parser leaves it and after *every* pass, not only at the end,
  the program prints what it does when compiled without folding (`Meant`), on every
  input. A pass may not rely on a later one to
  repair what it did. `ResultMeansTheSame` asks it of the written program only, so
  that a finding about it cannot be a passing state between two passes.
* `PassesFindWhatTheyNeed`: where a pass relies on the graph, on counts or on marks,
  they are those of the code as it is then.
* `RefinesSchedule`: the passes change these three only as `PassSchedule` allows.
* `BlocksFollowControl`: every step of control inside a block or along an edge of
  the graph; `CyclesAreMutual`: Tarjan's components are those of mutual
  reachability.
* `NamesResolve`: no jump to a label that is gone, no label in two places, no use of a
  global variable whose declaration is gone.
* `Terminates`: the optimizer comes to its end.
* `ImplementsMaps`: a key is found with the item it was given, however many other
  items came, went, moved or were copied. `PagesAreLinked`: the list of pages is what
  malloc handed out and nobody gave back, and is chained both ways, so that the end
  releases everything once. `EveryPageHasAnOwner`: those are exactly the pages tables
  point to. `LinksAreChains`: along the links of a bucket one meets its items, in order, and
  no others, whatever was moved or removed: an item that is lost or in two chains is noticed
  at once.
* `AcceptedAsMeant`: whatever is in memory after the table, accepted tokens are an
  expression and its reductions the steps of its meaning; `ExpressionsAreTaken`: an
  expression is taken up to its delimiter and never refused, unless that memory
  looked like a precedence.
* `TokensAreLongest`, `DataSaysTheText`, `NothingIsLost`, `TokensInOrder`,
  `CallsReturn`: the lexer. `NothingIsLost` names the one exception of the code: byte
  255 after a token vanishes, because the stack of `char` that should give it back
  cannot tell it from being empty; elsewhere it is a lexical error.

**Fairness.** `Lexer` assumes weak fairness of `NextTokenLoop` and `NextTokenEnd`:
one thread runs the loop of `lexer_next_token`, and the stream always gives a
character or its end. Nothing is assumed of the caller. `CallsReturn` is not
obvious, because every state has to look for the end of the text itself. The other
models of the parser assume no fairness: it terminates because each step consumes
input; the compiled program may loop forever because its source may.

`Optimizer` assumes `WF_vars(Next)`: `main` calls one pass after another, in the only
thread there is, and each pass is a walk over a finite list. `Terminates` is the
question the code poses by itself: five loops go on until the peephole has nothing
more to do, one until two removals have not, and one until two passes that share a
flag have not.

## 4. Findings

All of them were reproduced with the compiler built from the repository.

1. **`ELSE` sees what `THEN` declares** (`branch_names`; `parser.c:1211`). The
   table of `ELSE` is pushed on top of that of the branch before it, which is
   popped only at `END IF`. `ELSE` may read a variable declared after `THEN`; when
   `THEN` is not taken its `DEFVAR` is not executed, and the program stops.
2. **What `ELSEIF` declares leaks** (`branch_names`, `-continue` shows both; `parser.c:1167`). The table of
   the branch before is popped, but the statements after `ELSEIF` are parsed in
   the table *around* the condition; a table is pushed only after them. A variable
   declared there stays visible after `END IF`, and a later declaration of the
   name in the surrounding block is refused.
3. **A definition may give two parameters one name** (`renamed_parameters`;
   `parser_semantic.c:307`). When a function was declared, its definition renames
   the parameters without the check for duplicates. Both then have the alias of the
   first, and each call executes `DEFVAR` twice for it.

4. **Lines in comments are not counted** (`line_after_comment`; `lexer_fsm.c:410`).
   `line`, "Actual line", grows only in the initial state. After a block comment
   over several lines every message names a line too small.

5. **Labels and declarations that go too early** (`changed_meaning`). The pattern "skip
   empty else branch" (`code_optimizer.c:408`) is meant for a jump over a label to the
   label after it; its two aliases of one label are two keys, so it also drops a
   jump to *any* label followed by two labels, and the second of these. Two loops in
   a row lose the end of the first and the beginning of the second. And
   `ifj2017.c:62` drops the declaration of the temporary ("with temps keep", says the
   comment) one line before a pass that inserts uses of it.
6. **Programs that mean something else** (`changed_meaning`, `-continue` shows
   all ten programs): a constant survives a join of which one branch changes it
   (`code_optimizer.c:1326`); a block that jumps to itself is not a cycle
   (`oriented_graph.c:309`), so a constant from before the loop is printed for ever;
   the value of an expression that ends the program is inserted before NULL, which
   is the *start* of the program (`code_optimizer.c:1691`); what a called function
   changes of the shared variables is known of the function itself but not of one
   that calls it (`code_optimizer.c:689`), so a constant is carried over such a call,
   and an assignment is taken for overwritten that the callee still reads; purity is
   not passed on from function to function (`code_optimizer.c:629`), and the result
   of a function that prints is dropped with its call, or without (`:798`), which
   leaves a value on the stack. And the parser folds `"a" < "b"` to False: the order of
   two literals is computed for numbers only (`code_optimizer_expr.c:217`).
7. **A pattern that replaces `a = a` by itself** (`endless_peephole`;
   `code_optimizer.c:274`). "Shorten print" turns `MOVE a b`, `WRITE a` into
   `MOVE a b`, `WRITE b`. With `b` the same as `a` it makes what it matches, and the
   compiler never ends.

The passing runs of compiled programs are instances in which the first three cannot
occur (no declaration in a branch together with `ELSE` or `ELSEIF`, no declared
function with two parameters); they say nothing about the places the findings are
about. The passing run of the lexer does not look at `line`. The programs of
`optimizer` have no two loops in a row, no loop of one block, no constant that only
one branch changes, no function that prints, no expression at the very end whose
value is known and kept, no order of two string literals, and no `a = a`.

Seven more things were met that no run is about. `Length(5)` makes the compiler stop on a
signal: the rule folds before it looks at the type (`parser_expr_rules.c:923`).
`SubStr("abc", 0, 2)` of literals reads before the text (`parser_expr_rules.c:1035`), and
`Chr(300)` of a literal is cut to a byte, where the code of the running program gives an empty text and
an error; the programs ask for places from 1 on and codes up to 255. `a \= 2` leaves the quotient of an
Integer variable a Double (`parser.c:1464`), of which no line of the repository says
anything. `symbol_table_size` is documented to return the "Count of stored items"
(`symtable.h:67`) and does not: `symbol_table_remove` leaves `item_count` as it was
(`symtable.c:193`), and moves and copies pass it on, so that a table with one item put in and
removed has size 1, built and tried like the others. Only the tests of the repository remove items, and none
asks for the size after it; the model keeps the count of the code, and no property relates it to the items. An error after an ampersand or in an
unfinished comment sets no detail (`lexer_fsm.c:412`); parsing stops there, so it is
the initial one. A token that is not one of expressions has type 133, which the mask
of terminals lets through (`parser_expr_internal.c:25`), so its precedence is read
from another row or from behind the table: after some operators that shifts the
delimiter (`a +` at the end of a line, which is refused anyway), after operands,
brackets and `OR` it is a byte of whatever the linker puts there, in the build at hand
letters of a message, which mean "no precedence".

## 5. Proofs

`tlapm` checks every leaf. Assumptions on constants: `NamesAssumption` (the
absence of a name is not a name), `ParameterListsAssumption` (lists of names),
`ProgramsAssumption` (the expressions a configuration lists are in postfix order and
leave one value, or there is none where a declaration needs none; its limits are numbers), `SourcesAssumption` (texts are sequences of bytes), `WidthAssumption`
(an integer has at least one bit, a `long` at least as many), `BoundsAssumption` (bounds are
numbers), `NullAssumption` (NULL is not an instruction), `InstructionsAssumption` (there are finitely
many addresses of them), `AddressesAssumption` (nor an
address), `TablesAssumption` (there are finitely many addresses, hashes are numbers, a table
has at least one bucket), `NoTableAssumption` (that there is no table is neither a table nor
a map). The theorems hold for every set of names, every parameter list, every
set of expressions, every text, every bound and every set of addresses. Each proof has
one lemma per action, under it one step per part of the invariant the action can disturb.

**The register** (`ScopeStackProofs`, `SymbolRegisterProofs`). `TypeCorrect` is `Spec => []TypeOK`.
`RegisterInvariantHolds` proves the inductive invariant `RegisterInvariant`, from
which follow `IdentitiesAreNotReused` (`NoIdentityReuse`), `InnermostIsLast`
(`LastDeclarationWins`) and `BlocksLeaveNothingBehind` (`OuterMeaningKept`). None
of the three is inductive alone. That a new identity is new needs the counter of
tables to exceed every number in use *and every number ever used*, aliases to
belong to defined functions only, and a function to be defined once; that the
innermost declaration is the last needs every variable of an inner table to be
younger than every one of an outer table that was there when it was pushed, which
holds since only the innermost table receives variables. The invariant says these
relations. The lemmas of `ScopeStackProofs` (what a push, a pop, a declaration and a
lookup do to a stack of tables) serve the parser too.

**The parser and its code** (`CodeConstructorProofs`, `CompiledProgramProofs`).
`ParserInvariantHolds` is `Spec => []ParserInvariant` for the composed model, with every
function of the constructor and every construct of the parser. What follows from it:
`JumpsHaveTheirLabels` (`JumpsResolve`: in a program the compiler accepts every label is
placed exactly once and every jump and call has one), `AssertionsHold`
(`ParseAssertions`), `DeclarationsPlaced` (`DeclarationsHaveAPlace`) and `MainIsGlobal`
(`MainHasNoLocals`). None is inductive alone, since all say something about an
accepted program, or about one moment, that depends on every open block:

* `Shape` and `Placement` say which rules may be open in which others, and what is
  open in each part of the grammar, so that the end of a block finds its own beginning;
* `Balanced` counts the open blocks by kind and relates the counts to the sizes of the
  stacks of labels and to the depth counters of conditions and loops;
* `Ordered` says of the code emitted so far: every label was numbered below the
  counter and is placed at most once; labels on the stack of conditions are yet to be
  placed; of a loop the start is placed, the end is not; the label of a function is placed
  if and only if it is defined; and every label the code mentions is placed, or on a
  stack, or that of a declared function. The outermost loop remembers an
  instruction that is in the code, which is where declarations are moved to;
* `Result` carries what is left of this to the program the parser hands over.

When the stacks are empty and every declared function is defined, the last part of
`Ordered` is `JumpsResolve`.

`StackIsKept` is `StackDiscipline`, of the machine's run through the code of any program.
It is proved in two halves that meet in `Levelling(code, at, inside)`: a function `at`
from the places of the code to levels (how many values are on the stack there, whether a
frame has been pushed), and the set `inside` of the instructions of functions.

* *The code has levels.* `Takes(i, x, y)` says which level an instruction finds and
  which it leaves; `Carries(code, x, y)` that a list leads from one to the other.
  `TidyInvariant` says of the constructor that each of its two lists leads from an empty stack
  to what the open construct has there, that the labels of the one are not mentioned in the
  other, and that a function ends with `RETURN`. An expression adds exactly one value
  (`ExpressionStacked`: the instructions removed again when a call takes its arguments from
  the frame instead of the stack, are those that pushed them, so each removal
  takes one value away). A declaration moved in front of a loop leaves the level alone, so
  it may go wherever the list is cut. When the functions are put behind the main part
  (`EndCodeLevels`) the two lists become one `Levelling`.
* *The machine keeps to them.* `MachineStands` says that before each instruction the height
  is what the call under way may not touch (`Floor`) plus what the level says, that there are
  as many local frames as calls and pushed frames, that control is `inside` exactly when
  a call is under way, and of each of these calls that returning from it leads to a place whose level is
  one value more than there was (`CallsFit`). `RunSettled` has one case per instruction.

That control never falls from one function into the next, or from the main part into a
function, is part of the second set: `RETURN` and the jump to the end are the only way out.

`NamesAreLexical` is `EveryNameMeansItsBlock`: the parser's stack of tables gives every
name the declaration of the block of the source that holds it. Its hypothesis is that
the program has no `ELSEIF` and no `ELSE`, and it is needed: the run `branch_names` shows
that the code violates the property with them (finding above), since branches share
the table of their condition. Without them the invariant `Lexical` pairs tables with
open blocks one to one.

`CompilerTypes` is `TypeOK` of the composition: with `ParserTypes` it has the invariant
`MachineInvariant`, which says that the machine runs code of an accepted program only
and that the values, frames and return addresses it holds are of its types, whatever
instruction comes next.

**The lexer** (`LexerProofs`). `LexerInvariantHolds` is the invariant `LexerInvariant`
for every text, in every state between two characters; `LexerTypes` (`TypeOK`) and
`RewindKeepsTheOrder` (`TokensInOrder`) follow. `Placed` says that at most one character has
been given back and none inside a token, that a token starts before the place of
reading, that the line is at most the number of characters read, one of them given back or
not, and that a numeric escape has one or two digits while it is open; `Delivered` that
what the parser has taken, followed by the token given back, is what was read. The first is
what keeps the stack of characters at its depth: the automaton returns a
character only when it ends a token or a comment. The tables of characters (`CharacterCodes`, `Leads`,
`Escapes`) are sets of pairs made into functions by `Pairing`, since the provers do not
see inside `:>` and `@@`.

`NothingIsPassedOver` is `NothingIsLost`: between two tokens, before the first and after the
last, there are blanks and comments and nothing else. What the automaton passes over is said in the
grammar's words by the invariant `Accounted`: from the end of the last token to
the place of reading the text is whole blanks and comments, then the part of a comment
that is being read (`Commented`, `Turned`). The grammar finds pieces with a recursive function. That it finds
those the automaton went over is `PiecesAreFound`: a set of places at which
a text is cut (`CutUp`) stands for the pieces, and the least place the function would miss contradicts
the piece that ends there. `FoundWhenCut`, `BlankWhenCut` and the two lemmas on comments build
the cuts as characters are read, one step of the automaton at a time. What the invariant had to say, and the
property does not: after a token one byte 255 may have been passed over as if
it were the end (the lexer gives the character back as an int), so
the property counts it as a blank.

**The generator** (`CodeGeneratorProofs`). `ListsHold` is `Spec => []ListsAreHeld`:
under every sequence of operations, `first`/`last`/`next`/`prev` are those of the
lists asked for. `ListsAreHeld` is inductive: it says that each list is chained
both ways between its ends, that lists have no repetition and no element in common
(so that repairing one leaves the other alone), and that free memory has NULL
pointers (so that the early return of `insert_before` is not taken). Lemmas
`ChainAppend`, `ChainRemove`, `ChainInsert`, `ChainJoin` treat the pointer
surgery for an arbitrary list, `ChainFrame` the list that is not involved; the
action lemmas apply them to the main list and to the buffer. `PointersAreLists` is the
refinement (`WalksAsAsked`): what one meets going along `next` from `first` and
`buffer_first` is a behaviour of `InstructionLists`. The mapping is a recursive function of the
pointers; `WalkMeets` proves by induction that along a chain it gives the list, and with that each request
is the same request of what one meets. Only this theorem needs finitely many addresses.

**The symbol table** (`SymbolTableProofs`). `InvariantHolds` is `Spec => []TableInvariant`, for
any hash, any keys, numbers of buckets and number of tables. From it follow `PagesStayLinked`
(`PagesAreLinked`), `PagesStayOwned` (`EveryPageHasAnOwner`) and `TypesAreKept` (`TypeOK`), and with it `TablesAreMaps` is the
refinement: `Spec => ImplementsMaps`, each action of `SymbolTable` being the action of
`KeyedItems` of the same purpose on what the tables answer. `LinkedTablesAreTables`, `LinkedSpec => Spec`,
carries all of them to the tables with links that the run looks at. The invariant has three parts.

* `MemoryIsTidy`: there is a sequence without repetition which `head`, `next` and `prev` are
  those of, released memory has nothing in its fields, and the elements of the sequence
  are what is live. `PagesAreLinked` alone is not inductive: the operations
  follow `prev` and `next` of single pages, `Chain` counts steps from the head. `AllocateKeeps` and
  `ReleaseKeeps` say what the surgery does to that sequence, `ChainIsWhatIsKept` that
  going along `next` from the head finds it.
* `TablesAreSound`: every item is in the bucket its key hashes to, no key twice in a
  bucket, no page twice in a table. It follows that a table is determined by the *set* of what it
  holds (`Contents`), however it is chained (`GetTells`, `SameAnswers`); this is why a
  move to another number of buckets keeps every answer and a copy may have its chains the other way round.
* `Parts`: what the tables own has nothing in common and is together what is live, so that
  a table given back leaves the others their pages, and fresh memory is nobody's item.

Sequences of allocations, releases and moved items are taken in turn (`ForEach`), a
recursive function. What it gives after each step is proved with sets of numbers: the
theorems of the library that take an operator as a parameter are out of reach, but
`NatLessThanWellFounded` and `WFMin` speak of sets, and the least number that is not in the set of those
proved so far is enough (`Least`, `UpTo`, `Steps`).

**The schedule** (`OptimizerProofs`). `ScheduleSound` is
`RefinesSchedule => []PassesFindWhatTheyNeed`: in the order `main` runs them,
every pass finds a fresh graph, sufficient counts and paired marks where it relies
on them, however often each loop goes round and whatever a pass reports.
`ScheduleTypeCorrect` is its types. The invariant says for each place of the
schedule what has been established when control is there: counts cover from the
first `update` on, the graph is fresh between a `split` and the `propagate` after it
(the `update` between them touches no instruction), and marks are in pairs as long as
the advanced patterns are not in the list, which are added only after the last pass
that looks at marks. The lemma `Places` computes the places of the passes once;
`ScheduleGoesOn` has one step per pass. The hypothesis is `RefinesSchedule`, which the
run `optimizer` checks: the theorem is about the schedule for every
number of rounds, that the passes keep to it is checked for the programs of the run.

**The cycles of the graph** (`OptimizerProofs`). `CyclesAreFound` is for every graph:
what `oriented_graph_scc` returns (`StronglyConnected`) are the largest sets of several nodes
each of which reaches the others (`Cycles`, the definition without an algorithm);
`CyclesAreThoseOfTheGraph`, `Spec /\ []TypeOK => []CyclesAreMutual`, applies it to the graph the
optimizer has when it asks for cycles, whose edges lead to blocks (`SplitIsGraph`). The model makes the search's
recursion a list of tasks: follow an edge, hand back what a node found, close a node. What
has to be true after each of them is the invariant `Searching`:

* `TasksStand`: the list is what the calls of the recursion leave. Its tasks go along edges,
  from nodes still open, those of the last node entered first; when a node is closed,
  handing its result back comes next;
* `Anchored`, `Ordered`: every node on the stack reaches an open one that is not younger, and every
  node that is. So an open node that finds nothing older has its whole component above it;
* `LowSound`, `LowComplete`: `low` is the time of a node that is reached, and of an
  open node below which nothing is open, it is at most the times its closed descendants' edges lead to
  (with two exceptions that are tasks still to be done);
* `Components`: no edge leaves what was taken from the stack, and every component that was taken is
  that of each of its nodes.

`SearchStep` has one case per task. That the search ends is a second argument: the model
gives it `TasksOf(graph)` steps, and `Fuel` says that the tasks on the list and the nodes not yet
found need no more than are left (sums of numbers that are functions, since there is no recursive
operator to speak of). `ReachableIsReaches` shows that going along all edges as many times as there are nodes
finds all that is reached, by the size of what was found.

**The blocks of the code** (`OptimizerProofs`). `BlocksAreThoseOfControl` is
`Spec /\ []TypeOK /\ []NamesResolve => []BlocksFollowControl`: whatever the code is, when constants
are propagated control never leaves a block of the graph but from its last instruction to the
first of a block there is an edge to. The proof has two halves.

* The graph is that of the code. From a split to the propagation after it the optimizer only
  updates its meta data (`WhoGetsThere`, by the places of the passes), and the update's second loop, which
  writes to instructions, leaves operations and operands alone (`SpreadKeeps`, taken along the code by
  `UpdateKeepsControl`). So the invariant `GraphMade` is that the graph is one of a code that
  differs from the one there is in marks and purity at most (`SameControl`).
* That graph has the edges. `FirstPlacesStart` follows the loop that makes the blocks and shows
  that they begin where `BeginsBlock` says, in order; `BlocksLie` that they lie side by side and
  nothing begins inside one. `EdgesLead` and `MappedLeads` show what the edges lead to. In `ControlFollows` a step to
  the next place stays in its block or enters one that begins there, and then the end of the
  block falls through to it; a jump is the last of its block (`JumpsEndBlocks`) and goes to the block the table has for
  its label.

The hypotheses are checked by the run `optimizer`. Of `TypeOK` the proof uses that the code is a sequence of
instructions, of `NamesResolve` that no label is in two places: a jump goes to the first place,
and the table of blocks keeps the last. The number a label without a block gets may be any
(`Strays`): an edge more is no harm to this property.

**Model-checked only**, and why:

* `CallsReturn` and `Terminates`: liveness under fairness is beyond the prover;
* `NoUndeclaredAccess`, `NoRedeclaration`, `NoUninitialisedRead`: not true of every program (the
  findings, and an initialiser that calls a function which uses a global variable
  declared after it), and of those of the run by what is declared on every path to each place,
  which would be a second `Levelling`, with sets of cells for levels;
* `MeaningKept`, `NamesResolve`, the optimizer's `TypeOK` and
  `RefinesSchedule`: the passes of the optimizer are folds over the code (`Walk`, which takes
  the step of the walk as an operator), and what a pass computes for every program needs an
  induction over the code for each of them, as was done for the split, the update and Tarjan's search;
  what the schedule owes, whatever the passes do within their contracts, is proved;
* `TokensAreLongest`, `DataSaysTheText`: what the grammar's recursive functions read from
  a literal (the text of its escapes, the value of its digits, powers of ten) has to be shown
  digit by digit to be what the automaton collects, and that no other reading of the same
  characters is possible; the provers do not know `^`;
* `LinksAreChains`: the proofs are about chains as sequences; that surgery on links keeps
  them would be said, for each function, as `CodeGeneratorProofs` says it of its lists, and the loops over
  whole chains (`Walk`, `MovedChain`) taken turn by turn on top of that;
* the precedence parser, whose reference is a recursive operator;
* the findings.

## 6. Not modelled, and why

* The grammar inside one construct other than its expressions, messages and kinds of
  errors. The parser's model takes constructs, not the tokens of `Lexer`.
* Checks of types (an operation on a text and a number, the type of a result): the
  programs of `SourcePrograms` are well typed.
* The other functions of the graph (removal of a node, transposition, whether one
  node is in a cycle): only the tests call them. A set of integers is a sequence.
* Linked lists, stacks and strings (`llist.c`, `stack.c`, `dynamic_string.c`): taken
  for the sequences they hold. The debug build of the memory manager
  (`memory_debug.c`), with its statistics and its lazy release; `memory_alloc` that
  fails, which ends the compiler.
* Options, output and exit codes in `ifj2017.c`, `error.c`: straight-line code.

## 7. Plan

All modules of the inventory are written, with their runs: the register, the parser and its
code, the machine, the lexer and its grammar, the precedence parser and its grammar, the
generator and its lists, the optimizer with its passes, graph, interpreter and schedule, the
symbol table and its pages. Eight modules hold proofs. Next, in this order:

1. `TokensAreLongest` for the tokens that are names: the grammar's reading of a name needs no arithmetic.
2. That counts stay sufficient under one removal (`Removing`) for any code.
3. `LinksAreChains` for any hash and any numbers of buckets: lemmas about one chain, then about the walk that moves it.
