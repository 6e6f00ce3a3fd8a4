# The CD25 compiler in TLA+

The program is a compiler written in C99: it reads one source file in the
language CD25, and writes a module for the SM25 stack machine or assembly for
x86-64 Linux. It is one process with one thread. What makes it hard to get right
is not concurrency but *order*: values are put into one table at one time and
taken out by another pass at another time, with nothing but their order to tie
the two together; one cursor per list, which whoever looks ahead shares with
whoever reads; symbols that are passed by address and written to; and a parser
that goes on in the middle of a grammar after an error, with one number to say
where it is.

Paths below are relative to `src/src/`.

## 1. The system and its parts

```
            tokens            tree + symbols             tree
 lexer.c ------------> parser.c ----------> semantic_analysis.c ----+--> sm25_code_generation.c --> .mod
    |                     |                        |                |
    |                     |                        |                +--> threeaddresscode.c --> x86_code_generation.c --> .asm
    +-------- lister.c (messages, listing) --------+
 lib/linkedlist.c, lib/hashmap.c: under all of them.   main.c: calls them in this order.
```

| Part | State | Operations | Talks to | Hard behaviours |
|---|---|---|---|---|
| Driver, `main.c` | flags, the tree, the chosen back end | parse arguments, run the passes | all; stops when `ast->is_valid` is 0 | a tree that is missing but not invalid |
| Lexer, `lexer.c` | automaton state, buffer, row and column, a queue of tokens | `lexer_get_token`, one step per character | pulled by the parser, two tokens ahead; pushes errors to the lister | tokens made from what is in the buffer at the end of the file; comments; limits of literals |
| Parser, `parser.c` | `c`, `n`, `progress`, `scope`, `fresh_error`, `in_recovery`, the C stack | `match`, `next_token`, one function per production, `error_recovery`, `get_AST` | lexer, lister, tree; `longjmp` out of everything at the end of a broken file | recovery: does it end, does it miss errors, does it resume in the right section |
| Tree and symbol table, `astree.c` | nodes, a string space, three hash maps | add a symbol, add and find attributes | written by the parser, read by all passes | scopes, ownership of keys in three maps |
| Semantic analysis, `semantic_analysis.c` | `is_valid` | one recursive pass | symbol table, lister | rules compared against the wrong side |
| Three-address code, `threeaddresscode.c` | lines, pools, counters for labels and temporaries | one recursive pass | x86 back end | pools and their counters |
| SM25 back end, `sm25_codegen/` | instructions, byte counter, three pools, three offset queues, the call list, the jump table, a symbol map | one recursive pass, then one pass that patches | reads the tree, writes the file | the order of everything, tables that grow, a 16-bit counter |
| x86 back end, `x86_codegen/` | a shared cursor over the lines, counts of registers | one pass with lookahead | libc, `inputlib.asm` | the shared cursor |
| Lister, `lister.c` | two queues of messages, the listing file | warn, error, print, close | from three passes | – |
| Linked list, `lib/linkedlist.c` | nodes, head, tail, **one cursor** | push, pop, move | under everything | pops move the cursor a reader may hold |
| Hash map, `lib/hashmap.c` | buckets | add, contains, get, remove | symbol table, back ends | add does not replace |
| Vendored: `sds`, `easyargs`; `interpreter/SM25.jar` | | | | not ours |

What makes each part correct, and what is done about it:

* **SM25 back end** – every patched operand is the one its construct meant; the
  jump table is never written outside its memory; branches, calls and literals
  lead where they should. *Modelled but for frames of variables, checked, all
  proved.*
* **Parser** – it ends, it reads the whole file, it accepts nothing it has
  reported, it accepts only what is balanced, recovery never goes back to an
  earlier section, expressions get the tree they mean. *Modelled, checked; all but
  that it ends, and the trees, proved.*
* **Lexer** – the parser gets the tokens the text means, in order, with their
  places; each error is reported once; the listing numbers lines as the reports
  do. *Modelled, checked, proved.*
* **Symbol table and hash map** – a name means one thing in a scope, its own
  declaration or else the global one; what the maps own is freed, and what is
  freed twice is known. *Modelled, checked, proved.*
* **Semantic analysis** – a correct program is not reported, a fault that there
  is a check for is, and every expression has the type the generator takes it to
  have. *Modelled but for three checks of single nodes, checked, proved.*
* **Three-address code, x86** – branches, literals, temporaries and arguments reach
  the operation they were written for; operations get operands of their type;
  every operand lies in its frame. *Modelled as one pipeline, checked, proved.*
* **Linked list** – it is a sequence with a cursor. *Modelled, checked, refinement
  proved.*

## 2. The modules

| Module | Models | Used by |
|---|---|---|
| `Sm25Codegen` | `sm25_codegen/sm25_code_generation.c`: emission and patching | `Sm25Jumps.cfg`, `Sm25Literals.cfg` |
| `Sm25CodegenProofs` | theorems about it, and about the finished module: where branches, calls and literals lead | |
| `Lexer` | `lexer.c`, and of `lister.c` what runs with it | `Lexer.cfg`, `LexerName.cfg` |
| `LexerProofs` | theorems about it | |
| `Parser` | `parser.c`: all productions, panic mode, recovery | `ParserRecovery.cfg`, `ParserInvalid.cfg` |
| `ParserProofs` | theorems about it | |
| `ExprTree` | `parser.c`: the tree of an expression, `invert_expr` | `ExprChains.cfg`, `ExprGroups.cfg` |
| `Scopes` | what names mean: the promise of the symbol table | `SymbolTable` |
| `SymbolTable` | `astree.c` over `lib/hashmap.c`, and the productions of `parser.c` that enter names | `MCSymbolTable` |
| `SymbolTableProofs` | theorems about it, and that it implements `Scopes` | |
| `MCSymbolTable` | the names of the instance | `SymbolTable.cfg` |
| `Semantics` | `semantic_analysis.c`: both passes | `MCSemantics` |
| `SemanticsProofs` | theorems about it | |
| `MCSemantics` | the attributes of the instance | `Semantics.cfg` |
| `ThreeAddressCode` | `threeaddresscode.c`: the generator | `X86Codegen` |
| `X86Codegen` | `x86_codegen/x86_code_generation.c`, behind the generator | `Backend.cfg` |
| `X86CodegenProofs` | theorems about both | |
| `X86TypesProofs` | the theorem about the types of operands, behind those | |
| `SeqList` | what a list promises | `LinkedList` |
| `LinkedList` | `lib/linkedlist.c`, node by node | `LinkedList.cfg` |
| `LinkedListProofs` | theorems about it, and that it implements `SeqList` | |

`X86Codegen` extends `ThreeAddressCode`: the list of lines one leaves is the one
the other walks. `Scopes` and `SeqList` are abstract specifications, and
`SymbolTable` and `LinkedList` are shown to implement them.

Definitions keep the names of the C code where there is one. Definitions whose
name starts with `Mut` are plausible bugs in the definition that follows them;
nothing uses them, they are there to show that a property would notice.

### Sm25Codegen

The generator is a recursive walk of the tree. The model does not have the tree:
it has the C stack, `frames`, with one frame per function body and per open
`if`, `if`-`else`, `for` and `repeat`, and chooses at every point what comes
next. So a behaviour is the compilation of some program, and all programs
within the bounds are compiled. A frame holds the local variables of its C
function: `slot` is `arr_index`, `top` is `start_anchor`; `mark`, `at` and
`begin` are auxiliary.

| Variable | In the code |
|---|---|
| `insts`, `bytes` | `instructions`, `inst_bytes` (16 bits, the model wraps at `Word`) |
| `pool`, `strBytes` | `ints`, `reals`, `strings`, `str_bytes` |
| `pend` | `int_offsets`, `real_offsets`, `str_offsets` |
| `offsetOf` | `symbol_offset_map`, for literals, constants and functions |
| `calls` | `func_calls` |
| `jumps` | `jump_addresses`, `num_jumps`, `jump_offsets_capacity`; `alloc` is the size given to the last `calloc` or `realloc` |
| `rd` | the cursors of `codegen_update_addresses` |
| `phase` | which part of `sm25_code_gen` runs |
| `constLit` | from the semantic pass: the literal a constant stands for |
| `land`, `entry`, `ref` | auxiliary: what a branch, a function and an operand mean |

An instruction carries `ref`, what its operand is supposed to stand for. No
guard reads it. The properties compare it to the value that the patching pass,
which sees only opcodes and negative marks, puts there.

`anchor_jump` is the operator `Anchored`. It is worth a look in the code: the
capacity is doubled, but `realloc` gets `num_jumps * 2`, and is called once even
if one doubling is not enough. That is safe, because `num_jumps` is never behind
the capacity at that point and a slot is always below `num_jumps`; it is the
kind of thing that holds for a reason that is not on the page, and it is proved.

Not in the model: which opcode computes what, frame offsets of variables and
parameters, arrays and structs. An expression is a run of pushes, of which those
whose operand is patched later are told apart.

### Parser

The C stack is the sequence `todo` of what the productions in progress still
have to do; an item is a token to be matched, a production, the tail of a
production that looks at `p->c` again, or an effect. A production is replaced by
its items (`Items` and the operators it falls through to, in the order of the
file). `match` is the three actions `Match`, `Panic` and `Pass`: on the expected
token, on another one outside recovery, on another one inside. `error_recovery`
is the action `Resync`, one turn of its loop, with the table of what each state
does with each token in `GlobalRecovery`, `FuncRecovery` and `MainRecovery`.

`error_recovery` is called from inside productions and never returns: it ends in
`longjmp`. The model drops the stack instead, since nothing of it is used again.
What that leaves out is the C stack that grows with every error inside recovery.

The tree is not modelled here: no decision of the parser reads it. The symbol
table has a module of its own: whether a name is declared twice is a choice here
(`Declare`), which can make the program invalid. `n_expr`, `n_term` and `n_fact` differ only in the
tree and are one production. Tokens are chosen when they are read, so files
of every length and content are parsed.

`open` is auxiliary: how many parentheses, brackets and blocks the tokens matched
so far have opened.

### ExprTree

What `Parser` leaves out of expressions: the tree, the right recursion and the
inversion afterwards, as recursive operators, compared to a reference definition
(`Meant`) that reads the grouping off the text. The module is for TLC only.

### Lexer

One step reads one character, in the state of the automaton it is in (`Reading`,
with one operator per `case`), or hands the parser one token (`Deliver`). What a
character makes is a record: the next state, the buffer, the tokens pushed to the
queue, what the lister is told. `goto start_state`, which looks at the same
character again after a token was completed, is `Flush`: the tokens of the one
state and then what `START` makes of the character.

| Variable | In the code |
|---|---|
| `state`, `buffer`, `row`, `col`, `tokens` | the fields of `Lexer` |
| `reports` | the queues of errors and warnings of the lister |
| `lineNum` | `lister->line_num`, counted by the listing on its own |
| `text`, `ended` | what was read of the file; the file is chosen as it is read |
| `delivered` | auxiliary: the tokens the parser has got |
| `alphabet` | auxiliary: the characters of this file |

A character stands for its class; four letters, one a capital, are kept apart so
that there are keywords, names that begin like one, and keywords in the wrong
case. `Meant` reads the tokens off the text with no automaton, by longest match.

### SymbolTable and Scopes

`st` is the `SymbolTable` of the code: the string space, the two hash maps, the
live pointers, and the symbols and attributes that were allocated, by address.
Symbols really are shared here: the key of the table, the `data` of an array's
attribute and the tree hold the same address, and the one place that writes into
a symbol (`Rescope`, `threeaddresscode.c:558`) writes into all of them. The hash
functions are those of the code, in 32 bits that wrap round (`Word`), so a key
whose symbol changed would be in the wrong bucket. `hashmap_get` takes the first
entry of its bucket that matches (`Hits`).

The actions are the productions that enter names, in the order of the sections,
then the analysis, where constants get their attributes (`UpdateInit`) and any
symbol may be looked up, then `symboltable_free`, which counts how often each
allocation is freed. `Scopes` knows of none of this: it has a function from names
and scopes to kinds.

### Semantics

The analysis is two walks of the tree, from the leaves up. A node is a record of
all that either walk reads of it at the node above: type, name, whether it is a
variable, whether it can be known at compile time, and whether something below was
reported or ended the compiler. There are finitely many such records, and so the
model, which puts nodes together on a stack, meets every expression of every
depth; a tree is nowhere in the state.

`meant`, `checked` and `unchecked` are auxiliary: what the language makes of the
same tree, and whether its faults are of a kind there is a check for. The
operators are the functions of the code (`update_addsubmuldiv`, `compare_arg`, ...).

### ThreeAddressCode and X86Codegen

The generator is recursive like the other one, and modelled alike: `frames` is the
C stack, one frame per function, statement and operator in progress, and what
comes next is chosen. A frame says in `want` what it needs: statements, an operand
of a type, or its own closing step. What is generated is real: lines with
operation and three addresses, labels and temporaries with their numbers, pools of
literals with the counters the numbers come from.

| Variable | In the code |
|---|---|
| `ts.lines`, `ts.pool`, `ts.seen`, `ts.count` | the list of lines, the pools, the maps from literals to their numbers, the counters |
| `ts.tmp`, `ts.label`, `ts.consts` | the other counters and `const_map` |
| `sigs` | from the symbol table: parameters and results |
| `cursor` | `tac->lines->current` |
| `frame` | `num_in_params`, `num_vars`, `num_tmp_regs`, the bytes reserved |
| `asm` | what was written: for each line its index, register and frame |
| `uses`, `begun`, `land`, and `ty`, `val`, `ref` in lines | auxiliary: which language the program is in, and what an address, a branch and an argument mean |

When the generator is done the back end walks the lines with the one cursor of
their list: `ResolveFunc` looks ahead to the next function to size the frame and
steps back, `ResolveParam` looks ahead to the call. The text of an instruction is
left out; where each operand lies is not.

A program uses the constructs of one set in `Programs`. A `not` is generated here
although the semantic analysis at this commit ends with every `not` (section 5):
the generator has its cases, and they are checked.

### LinkedList and SeqList

`LinkedList` has memory: nodes are allocated, freed and reused, and the pointers
are those of `linkedlist.c`. `SeqList` is the sequence with a cursor the rest of
the compiler believes it is using. `ImplementsSequence` is the refinement; the
mapping walks the list from its head.

## 3. What the runs check

Nine runs pass; three are expected to fail and stand for findings (section 5).

| Run | Question | Size |
|---|---|---|
| `sm25_jumps` | Do nested and sequenced branches, over a table that starts with one slot and grows several times, land where they mean to, and stay inside the memory? | nesting 5 (body included), 9 instructions before the last closings |
| `sm25_literals` | Do integers, reals, constants, strings and calls get the operands they mean, whatever their order? | 2 integers, 1 real, 1 constant, 2 functions, strings of 0 and 3 |
| `lexer` | Does every file give the tokens, places, reports and line numbers its text means? | 15 alphabets: 3 characters over all 22, 8 over each small one |
| `parser_recovery` | With errors at every point of files of any length: is every file read to its end, and exactly the broken ones rejected? | 14 token types, 3 open constructs, 1 function and main |
| `expr_chains` | Does every expression whose groups go on get the tree it means? | 11 tokens, one operator per level and both sums |
| `symbol_table` | Does a name mean what its scope says, whatever is shared by address; is everything freed? | 2 names, 2 buckets, 5 symbols, scopes 0 to 3 |
| `semantics` | Is exactly what is wrong reported, as far as there are checks, and everything else typed right? | a name for each kind of attribute, 2 operands or arguments waiting |
| `backend` | Do branches, literals, temporaries, arguments and frames hold from the tree to the assembly? | 18 sets of constructs, 9 lines before the last closings, nesting 5, 2 registers |
| `linked_list` | Is the list a sequence with a cursor in every history, with nodes that are reused? | 4 nodes, 2 items |
| `lexer_name` | Is what is left in the buffer at the end of a file a name? No. | 1 finding |
| `parser_invalid` | Is a program without a tree always invalid? No. | 1 finding |
| `expr_groups` | Is the tree of every expression the one it means? No. | 1 finding |

The properties:

* `Sm25Codegen` – `JumpTableInBounds`, `EverySlotAnchored`, `BranchesLand` and
  `AnchoredOnce` (an action property) are about the jump table; `BranchTargets`,
  `CallTargets` and `LiteralTargets` about the finished module: addresses are
  computed again from the widths of the instructions and compared with the
  operands. `PassInStep` says that the queues are consumed in step with the
  placeholders. `TypeOK` includes that the counters stay 16 bits wide.
* `Lexer` – `TokensAreMeant`, `Located` and `ReportsAgree` compare tokens, columns
  and reports with the reference reading; `LinesAgree` compares two counters of
  lines that never meet in the code; `TypeOK`; `NameAtEnd` fails.
* `Parser` – `WholeFileRead`, `VerdictMatchesReports`, `AcceptedIsBalanced`,
  `SectionsForward` (action), `Terminates` (liveness), `TypeOK`.
* `ExprTree` – `SumsGroupLeft`; `TreeIsMeant` fails.
* `SymbolTable` – `ImplementsScopes` (refinement), `Spelled` (comparing slices of the
  string space is comparing names), `Released`, and `TypeOK`, which has the hash
  map's invariant: every key is in the bucket its present contents hash to.
* `Semantics` – `NoFalseReports`, `FaultsStop`, `TypesMeant`.
* `X86Codegen` – of the generated lines: `BranchesLand`, `LiteralsResolve`,
  `OperandsTyped`, `TempsHold`; of the pass over them: `ArgumentsArrive`,
  `FrameHolds`, `EachLineOnce`; `TypeOK`.
* `LinkedList` – `CursorLive`, `BothWaysAlike`, `ImplementsSequence`, `TypeOK`.

### What the properties except

Where the code does not keep a property, the property names the case, so that it
says what does hold. No line of the repository promises otherwise, or the run for
it would repeat one that is there.

* `Lexer`: `/*=`, `/-=`, a third star in a block comment and `!!` are cut at other
  places than the longest match would. A column may be one too high for
  signs that wait for a second character (`<`, `>`, `.`, `/`, `*`, `-`), and further
  off behind a tab. The listing lacks the last character of a file.
* `LiteralsResolve`: not with a real constant, which goes to the wrong pool
  (`threeaddresscode.c:1081`). Two reals that agree to four decimals are one.
* `OperandsTyped`: not with a boolean field as an operand (406), `+=` to a field
  (776) or of a real to an integer, or an integer for a real parameter (918).
  `TempsHold`: not with `+=` to a field.
* `ArgumentsArrive`: for as many arguments as there are registers.
* `NoFalseReports`: an expression with a `not` ends the compiler.
* `FaultsStop`: for faults there is a check for. There is none for arithmetic on what
  is no number (`semantic_analysis.c:494`), for one side of a relation (446), for
  the operands of a logical operator, for a field that is missing (127), for an
  index, for the name of a type as a variable (316), or for arrays of different
  types in an assignment (390). The end of the compiler counts as a stop.
* `Released`: type symbols of arrays and attributes of array parameters have two
  owners, and are freed twice.

### Bounds, and why they are enough

* `InitialCapacity = 1` instead of 16: the table grows at the second branch, and
  again at the third and fifth, so that growth happens with slots open and with
  slots closed. `MaxInsts` and `MaxNesting` bound what is *opened*; what is open
  is always closed and patched.
* `Word` is 64 and 48 instead of 65536, so that programs that do not fit the
  counter occur too. The properties about final addresses are claimed for those
  that fit (`Fits`); the others hold for all.
* `Lexer`: no token of the grammar needs a state more than four characters deep;
  eight characters are two such tokens in a row, or a comment and what follows it.
  `MaxDigits` is 3 instead of the limits on literals.
* The alphabet of `ParserRecovery.cfg` has every section keyword but constants
  and types, all the tokens that end or synchronise anything, and one kind of
  statement, declaration and operand of each shape; the others repeat these
  shapes. Files are not bounded in length, only in what is open at once
  (`MaxNesting`) and in function headings (`MaxScope`).
* `SymbolTable`: five symbols are an array type, an array of it and a local of the
  same name, or two parameters and a local; one name is a part of the other, and
  with two buckets symbols of different names and scopes share one. `Word` is 1000
  instead of 2^32, so that the hashes of these names wrap round.
* `Semantics`: not bounded in depth. Two operands wait at once in any binary
  operator; two parameters are the fewest that can be too few or too many besides
  being of the wrong type.
* `Backend.cfg`: the sets of constructs pair each construct with those it meets in
  the code (calls in arguments, elements in copies, branches in branches). `MaxLines`
  bounds what is opened. With two registers the two-parameter function fills them.
* Four list nodes give a middle of two, the smallest list in which a pop in the
  middle differs from both ends on both sides, and force reuse of freed nodes.

### Fairness

Only `Parser` has any: weak fairness of `Next`, since the one thread goes on as
long as it can, and strong fairness of reading the end of the file
(`ReadsEnd`), since files are finite: a parser that reads tokens for ever meets
the last of them. Without the second the model could read an endless file;
neither forces any choice of the parser itself, so a turn of recovery that does
nothing still shows as an endless loop.

## 4. What is proved

Everything below holds for every value of the constants that meets the named
assumptions of the module, as theorems that TLAPS checks. Each component has one
inductive invariant, `IInv`, of which TLC was asked first, on the run of the
module; then come the facts that it holds at first and that each action keeps
it, and the theorems, which follow from it. The second half of `Sm25CodegenProofs`
adds `Addressed` and `Pooled` to its invariant, the last part of
`SymbolTableProofs` adds `Owning`, and `X86TypesProofs` adds `WellTyped`. The invariant
of `LexerProofs` speaks of every text that goes on; TLC was asked of it with files
of up to six characters, and with the texts that go on by one of them.

| Module | Theorems | Assumed |
|---|---|---|
| `Sm25CodegenProofs` | `Inductive`, `TypeCorrect`, `TableSafe` (`JumpTableInBounds`), `AllAnchored` (`EverySlotAnchored`), `InStep` (`PassInStep`), `Landed` (`BranchesLand`), `NeverReanchored` (`AnchoredOnce`), `AlwaysAddressed`, `AlwaysPooled`, `BranchesReach` (`BranchTargets`), `CallsReach` (`CallTargets`), `LiteralsReach` (`LiteralTargets`) | a capacity and a word of at least one, natural lengths, disjoint symbols, filler opcodes that are pushes |
| `LexerProofs` | `Invariance`, `TypeCorrect` (`TypeOK`), `Meaning` (`TokensAreMeant`), `Places` (`Located`), `Reports` (`ReportsAgree`), `Lines` (`LinesAgree`) | files are written with the characters of the model, bounds are numbers |
| `LinkedListProofs` | `Inductive`, `TypeCorrect`, `CursorSound` (`CursorLive`), `WalksAgree` (`BothWaysAlike`), `Implements` (`ImplementsSequence`) | memory is finite (`NodesAssumption`), `NULL` is no node and no item |
| `ParserProofs` | `Inductive`, `TypeCorrect`, `WholeFile` (`WholeFileRead`), `VerdictRight` (`VerdictMatchesReports`), `Balanced` (`AcceptedIsBalanced`), `SectionsInOrder` (`SectionsForward`) | tokens are token types, bounds are numbers |
| `SymbolTableProofs` | `Inductive`, `TypeCorrect`, `SpellingRight` (`Spelled`), `Implements` (`ImplementsScopes`), `AllReleased` (`Released`) | at least one bucket, a last scope behind the global one, names are sequences of characters, `Null` is no declaration |
| `SemanticsProofs` | `Inductive`, `NothingFalse` (`NoFalseReports`), `NothingThrough` (`FaultsStop`), `TypesRight` (`TypesMeant`) | what the parser and the other analysis have seen to (`ParserAssumption`) |
| `X86CodegenProofs` | `Invariance`, `TypeCorrect`, `InOrder` (`EachLineOnce`), `ArgumentsInPlace` (`ArgumentsArrive`), `FramesSuffice` (`FrameHolds`), `BranchesMeet` (`BranchesLand`), `LiteralsFound` (`LiteralsResolve`), `TempsWrittenOnce` (`TempsHold`) | literals are natural numbers and the quantum is not zero, no function but main is called `main`, a natural number of registers |
| `X86TypesProofs` | `OperandsFit` (`OperandsTyped`) | the same |

`ParserAssumption` is the one assumption that says something of another pass: a
parameter is an array, or a variable without data (`append_attribute_from_node`
gives it none); the type of an array exists (`analyse_arrdecl` reports it otherwise
and nothing is generated); and a field is a number or a boolean (`n_sdecl` parses
no other). The rest is what a C program has by being one.

Five of the modules begin with what they need of the natural numbers: that a set of
them has a least element, and induction from one number up to another. The library's
theorem of induction takes an operator, which no prover here can instantiate; it is stated with
a set instead, `{n \in Nat : P(n)}`, and derived from the library's theorem that
`<` is well-founded. With it, what a recursive *function* computes can be proved:
the walk along a list, the hash of a string, the pieces a text is cut into.

### Sm25Codegen

None of the properties is inductive alone. The invariant adds to the type
and to `JumpTableInBounds` and `BranchesLand`:

* `Stages` – what is empty or still in its initial state in which phase;
* `Placeholders` – an instruction that is not patched yet carries the mark of
  what it means. The pass only sees the mark, so this is what makes it take the
  operand from the right queue;
* `Nesting` – which frame may stand where on the stack, so that a frame that is
  popped is known to be a branch, a loop or a body;
* `Slots` – every slot handed out is either anchored or owned by exactly one open
  frame. When no frame is open it gives `EverySlotAnchored`, and, as an open slot
  is not anchored, `AnchoredOnce`;
* `Landing` – the slot of a branch is its turn among the branches in the
  instruction list, and that slot leads to where the branch should land, or is
  owned by the frame that will say so. This is the bridge from the order of
  closing to the order of the instructions;
* `Turn` – all cursors stand at the number of placeholders of their kind passed
  so far, and lists are as long as there are placeholders.

`InvInit` shows that `IInv` holds at first, `InvCode` and `InvPatch` that each
action of the two halves keeps it, with the lemmas on counting placeholders
(`BeforeAppend`, `BeforeNext`, ...) that both need. `JumpTableInBounds` needs
`Slots` for one thing only: a slot that is anchored is below `num_jumps`.

### Sm25Codegen: where operands lead

`BranchesLand` says that a branch gets the address its construct anchored. That
this is the address of the right *instruction*, and that calls and literals get
theirs, is about sums: an address is the number of bytes in front of an instruction,
an offset in a pool the number of bytes in front of a cell.

* `Addressed` – everything that is noted down about an instruction, where a branch
  should land, where a loop starts, where a function is entered, where a jump back
  leads, is `Address` of it modulo `Word`; `inst_bytes` is the address behind the last
  instruction, rounded up once the code is padded; and a call carries the number of
  its function until it is patched, and the address of that function afterwards.
* `Pooled` – `symbols` leads each literal and constant to its own entry, although
  the pools grow; each queue holds, at the turn of each placeholder of its kind, the
  offset of what that placeholder means; and operands behind the cursor are the base
  of their pool and that offset.

Appending an instruction moves no address in front of it (`StartAppend`), and patching
moves none at all, since a width depends on the opcode alone (`StartSame`). `SumIs`,
`SumSame` and `SumGrows` are the facts about sums, by induction. A counter that wraps
round at every step ends where one that wraps round once does (`ModAdd`); so
`Addressed` and `Pooled` hold of all programs, and only at the end `Fits` is needed to
leave out the modulus (`ModSmall`, `PadFits`). What brings a placeholder to its own
entry of a queue is `Turn`, of the invariant above.

### Lexer

The automaton reads a character at a time, and what it has read may be the beginning
of many texts: `1` of `12`, of `1.5` and of `1..`. The properties compare it with a
longest-match reading of the *whole* text (`From`, a recursive function). So the
invariant says of every text that begins with what was read (`Extends`) what it means.

* `Told` – the meaning of such a text is the pieces told so far, followed by what is
  written from a place *p* on (`Reads`); the tokens are those pieces, and the reports
  are about them (`Said`). At the end of the file there is one such text, the file,
  and nothing is left behind *p*: `TokensAreMeant` and `ReportsAgree`.
* `Pending`, `Shape`, `Waiting`, `Within` – what state and buffer hold of the text from
  *p* to the last character read: nothing; a word, digits or a sign that may go on; a
  string or a comment that is open. This is where each of the 18 states gets its
  meaning.
* `Placed` – `row` and `col` are those of the next character of the text. With what is
  in the buffer, this gives the place of a token: `Located`.
* `Sound` – of each effect of a step, for the type invariant.

One set of lemmas is about the text only, and says when the longest match ends
(`WordCut`, `DigitsCut`, ...), so that one more character either belongs to what waits
or ends it. For each state one lemma (those that end in `Goes`) then follows what
`lexer.c` does with each class of character, and shows that `Told` holds again with *p*
moved behind what was told. `From` and the walks along the text (`Said`, `NoReturns`)
are recursive, and what they compute follows by induction (`InductUpTo`).

The spellings of section 3 that are cut at other places are left out of `Told`
(`OddIn`), as they are of the properties; and once the buffer has been made a name at
the end of the file, nothing more is claimed (`Clean`).

### LinkedList

The invariant says that there is a numbering of the allocated nodes which `next`
follows upwards and `prev` downwards, with `head` and `tail` at its ends (`Linked`).
Each operation makes a numbering of the new heap out of the one of the old: with
one more at an end, with one fewer at an end, or with one taken out of the middle
and the rest moved up. The numbering is what the walk from the head finds
(`WalkFinds`, by induction), so the items and the place of the cursor that the
refinement reads off the walk are those of the numbering, and each operation is the
one of `SeqList` on them.

### Parser

* `StackTyped` – before an error nothing but the grammar is on the stack;
* `Blame` – an error was reported exactly when it is recovered from, and the outcome
  goes with it. This is `VerdictMatchesReports`;
* `EndAsked` – the end of the file is the last thing asked for before an error, and
  what ends recovery: `WholeFileRead`;
* `Ordered` – what is on the stack belongs to a section that is not behind
  `progress`: `SectionsForward`;
* `Balance` – before an error the stack is of one of three shapes: the start; the
  sections before a heading, with one of the headings behind them; the rest of a
  body. In each, the closing tokens of every kind that are on the stack are as many
  as are open. When the stack is empty this is `AcceptedIsBalanced`.

`Balance` is where the proof is: every production has to be shown to put on the
stack as many closing tokens as opening ones, which `Opens` counts.

### SymbolTable

* `SeenOnce`, `AllCut` – an identifier is in `seen` once, where its hash looks for it,
  and a symbol's slice is the one that is there. So comparing slices is comparing
  identifiers, and a symbol hashes to a bucket that depends only on its name and
  scope. (`HashOfString` shows by induction that the recursion of `hash_str` has a
  value at all; nothing else about it is used.)
* `Keyed` – every entry is in the bucket of its symbol *as it is now*, leads to the
  attribute made for that name and scope, and no other entry does.
* `Apart` – the symbol that `Rescope` would write to, the type of an array, is not the
  key of an entry, and not one that is still to become one (`Held`: a constant that
  waits for the analysis, the function whose parameters and body are being parsed).
  Without it the writing would leave an entry in the wrong bucket, or declare a
  name in a scope that the program never mentioned; it holds because every production
  adds a symbol of its own for the type it names.

For the refinement, `Declare` is shown to be a `Declare` of `Scopes` if the name is
free and a report if it is not, and `astree_get_attribute` to find what `Scopes`
says the name means, own scope first and then the global one.

`AllReleased` rests on `Owning`, which is inductive on top of `IInv` and was put to
TLC first, on the run of the module:

* `Kept` – every symbol is in `live_pointers`, and once. While a declaration is being
  made that holds but for its symbol, which `GetSymbol` registers only when the
  attribute that has it is there.
* `Lists` – what a function's list of parameters holds is an attribute of an array, if
  nothing was reported. A parameter goes into the list by its symbol and is looked up
  when the function ends, so it has to lead to its array all that time (`Leads`): no
  later declaration takes its entry away, since entries are only added.

### Semantics

The invariant is about one node at a time: `Good`, that reports and faults agree, and
`Typed`, that a right expression has the type it means, that its name leads on to the
rest of it, and that what is taken for a constant is one. Each kind of node has a
lemma: if its children are good, so is it. As a tree is never in the state, this is
induction over trees of every depth.

### ThreeAddressCode and X86Codegen

Both run in one state machine and have one invariant. It holds for every set of
constructs a program may use, so for programs that mix all of them, which the run
only takes a few at a time, for any nesting and any length. Its parts:

* `Sound` – of the lines: what a line reads was written before it in its function
  (`AllBacked`); no temporary is written twice in one (`WrittenOnce`); literals,
  pools, maps and counters agree (`LinesOK`, `Pooled`);
* `Numbered` – temporaries of the function are below the counter, and one that is
  taken for a result and not written yet is in the frame of that operator and in no
  other place. A relation takes its result before its operands and an addition
  after them: this is what keeps the two ways from meeting;
* `Framed` – of each frame on the C stack: its operands were written in the function
  being generated, what it has of them fits what it waits for, and it may stand where
  it stands;
* `Blocks` – the parameters of a call are one block that ends in the call, counted
  down. It needs no word on nested calls, since all operands come first;
* `Branching` – labels are below the counter and distinct between constructs; those a
  construct has still to set are on no line; a branch has landed, or one frame owes
  its landing and is in the branch's own function;
* `Framing` and `Emitted` – the back end has written the lines up to its cursor, the
  last one with the frame of the function it is in. `FrameHolds` needs `AllBacked`
  here: a variable or a temporary on the right of a line was on the left of another.

An action of the generator emits several lines and takes several temporaries, so
`Good` says what holds between two of them, of a `T_S` and the temporaries taken, and
`Emits`, `Takes` and `Interns` show that each step keeps it. For each action there is
a lemma that strings these together (`RightOperandStep`, `CloseElemStep`, ...), and
`TacStep` and `ResolveStep` collect them.

`OperandsFit` rests on `WellTyped`, which is inductive on top of `IInv`, in programs
without the constructs of `Odd`. In the code an expression is typed by what its
caller asks for and by what comes back; here both are on the stack:

* `Suited` – a frame asks for operands that fit one another: an operator on integers
  for two integers, a condition for a Boolean, a call for what its function takes;
* `Filled` – it holds operands of those types. An operator of reals
  makes an integer real in the step after the one that gave it;
* `Result`, `Accepts` – what a frame gives is what the one below takes: the type asked
  for, or an address where a place is asked for, or either in a print, which reads
  through the address first. What a `return` waits for has the type of the function
  at the bottom of the stack, which is the one the lines are in;
* `AllTyped` – a line has operands of its type, a returned value the type of the function
  whose first line is the last before it (`InFunc`), and a parameter the one that the call
  takes there. The call is as many lines ahead as the parameter's number says, so
  nothing is known of it until the whole block is written; it is written in one step.

The maps of the model are functions here, and its three copied words and three
locals are written out, as no prover at hand unfolds a fold over a sequence.

### What is only model-checked

* `Terminates`, since liveness and fairness are beyond the provers here.
* `ExprTree`, whose operators are recursive over data.

## 5. Findings

* `parser.c:828` – `n_decl` reports an unknown type and recovers, but does not
  clear `is_valid` as every other error path does. There is no tree then, and
  `main.c:146` takes the program for one to compile (run `parser_invalid`).
  At this commit `main.c:147` assigns `tac` without declaring it, so the driver
  itself does not build until `TAC *tac` is added there; the finding is about the
  parser's verdict, which does not depend on it.
* `parser.c:1189` – the inversion of sums cannot tell the rest of a chain from a
  sum in parentheses: `a-(b-c)` is parsed as `(a-b)-c` (run `expr_groups`).
* `lexer.c:607` – what is in the buffer at the end of the file is taken for the
  program's name, as the comment says, and it may be a numeral, half a string or
  a sign (run `lexer_name`).

Seen on the way, and stated as exceptions (section 3). The first three were
tried on a build:

* any `not` ends the compiler (`semantic_analysis.c:446`, from the operator that
  `parser.c:1132` puts in the middle of the node); so does printing a boolean or an
  undeclared name (431), and calling an undeclared procedure (290);
* `true + 1` passes the analysis (494) and ends in the three-address code;
* the attribute of an array parameter is freed by the table and by the function's
  list (`astree.c:183`), which is what `linkedlist.c:14` warns of;
* a real constant is put into the pool of integers (`threeaddresscode.c:1081`), so
  that the literals behind it are others.

## 6. What is not modelled

* The driver and the x86 runtime, which are straight lines of input and output;
  the messages' wording and order in the lister; vendored code and the simulator.
* SM25: frame offsets of variables, arrays and structs, which opcode computes what.
* Parser: the tree besides expressions.
* Semantic analysis: whether a function returns, the name at the end of the program,
  the type of a declared array. Conditions and compound assignments have no handler
  in the code.
* Three-address code: the copy of whole arrays (unrolled, one line per word), lists of
  several assignments, the evaluation of array sizes, the printer. x86: the text of
  instructions, division, the printing of pools.
* The types and scopes that `Semantics` starts from are constants, and so are the
  kinds of operands in the generators: the passes are composed in pairs (generator
  and back end, parser and table), not all at once.

What is known of those parts, and would need a model of them to be checked:

* SM25: a constant without a literal for its value is reported on the terminal only
  (`sm25_code_generation.c:1099`); `push_int_by_val` emits nothing above 65535 (335);
  sizes of types are read off the last node of a list only (1194); the number of
  main's variables is one byte (1021).
* Both generators go into the parameter list of a function that has none (1243, and
  `threeaddresscode.c:611`), and into the single-assignment case for a list of several
  (812, and 790).
* Three-address code: a copied array is taken to have as many words as bytes (701);
  only the last array type's size is known (1145); a constant hides a local (515);
  integers are read with `atoi` (75).
* x86: `O_NOT` does not read its operand (`x86_code_generation.c:465`), a division does
  not clear `rdx` (366), a power with a negative exponent does not end (384).
* Parser: products group to the right where sums group to the left (1240, as
  `newgrammar:100` has it); a type that is neither a struct nor an array yields no
  node and no report (616); `p` is read after `longjmp` (462).

Other hazards are listed in `PROJECT.json`, with their properties. Memory is
modelled where a property is about it (the jump table, the nodes of a list, the
symbols and attributes) and nowhere else: other leaks are not considered.

## 7. Plan

*Frames of variables* in `Sm25Codegen`: offsets of locals and parameters, and the
sizes of arrays. The module of proofs would follow.
