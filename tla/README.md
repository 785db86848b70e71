# tinyc: specification and verification

TLA+ modules, TLC configurations and TLAPS proofs for the tinyc C99-to-x86-64
compiler in `src/`. Paths of source lines are given from `src/src/` unless
they say otherwise. Every definition that stands for code is listed with its
lines in `PROJECT.json` under `map`.

    tlc -config MCArena.cfg MCArena.tla      # one model-checking run
    tlapm StorageProofs.tla                  # one module of proofs

## 1. Inventory

tinyc is one sequential process. A translation unit is read whole, lexed on
demand by a recursive-descent and Pratt parser, typed, lowered to a
three-address IR, given stack slots, and printed as assembly. There are no
threads, no persistence and no messages; what makes it hard is that passes
written apart have to agree on numbers neither of them checks (offsets,
registers, slots, labels, scopes), and that a disagreement is not an error
message but a compiled program that computes something else.

| Part | Files | State | Operations | Correct when |
|---|---|---|---|---|
| Arena | `arena.c` | chain of pages with a bump pointer | create, alloc, strdup, reset, destroy | live allocations are disjoint, aligned and inside their block |
| String table | `strtab.c` | three parallel arrays, count, capacity | intern, get, len, free | one index per string; growth and collisions are invisible |
| Type table | `type.c` | list of derived types, two printing buffers | constructors, predicates, compatible, print | equal types are one node; predicates agree with C |
| Aggregate layout | `type.c:187-245` | running offset, alignment, open bit-field unit | seal a struct or union | members disjoint to the bit, arrays aligned |
| ABI classes | `abi_classify.c` | classes of two eightbytes | classify | System V classes, whatever the member order |
| Lexer | `lexer.c` | position, one token of lookahead | next, peek | longest match; lines and columns right |
| Parser | `parser.c` | lexer, two scope chains, error count | declarations, declarators, statements, expressions | accepts and groups as the C grammar; every error counted |
| Sema | `sema.c` | scope chain, loop and switch depth | check expression, statement, declaration | types and conversions of C; jumps in place |
| IR | `ir.c` | functions, instructions, temps, labels, strings, globals | new temp/label, emit, add constant/global | each temp and label has one owner |
| IR generator | `irgen.c` | scope chain, break/continue/case/goto context | lower declarations, statements, expressions, initializers | the IR does what the source does, in its order |
| Register allocation | `regalloc.c` | slot of each temp, offset of each alloca, frame size | run | no byte of the frame has two owners |
| Code generator | `codegen.c` | the frame of the function; nothing across instructions | one expansion per IR instruction | registers and memory as the IR and the ABI say |
| Diagnostics | `diagnostic.c` | error and warning counts, source text | emit, fatal | an error is never lost to the exit status |
| Driver | `main.c` | options | run the passes, stop at errors | the exit status tells of every error |

How they interact: every pass allocates from one arena and interns into one
string table, and never frees before the end; names are compared by interned
pointer. Parser, sema and IR generator each rebuild the scopes from scratch.
Sema rewrites the tree (implicit casts, enum constants to literals) before the
IR generator reads it. The layout's offsets are read by sema, the IR
generator, the classifier and the code generator. The register assignment of
a call is computed four times: three passes in the caller, once per parameter
in the callee. The allocator's slots are final before the first line of a
function is printed.

The behaviours that are hard to test:

- long sequences of legal calls into the arena and the string table (page
  overflow with odd sizes, growth at exactly the capacity, colliding hashes,
  strings with NUL bytes), and `malloc` failing in any of them;
- every order of plain members, bit-fields of different types and zero-width
  fields in an aggregate, and the classes that follow from it;
- registers running out in the middle of an argument list, with structs that
  need two registers of different kinds, an sret pointer and stack arguments;
- jumps out of and into nested loops, switches and blocks; `&&`, `||`, `?:`
  in every position of a condition;
- mixed integer types: values are kept in 64-bit slots whatever their type, so
  a missing extension or truncation is seen only by some later operation;
- names declared again in nested scopes while three passes define them at
  three different moments;
- declarators, whose base is known only after what it applies to has been
  built: a node that other types share is patched afterwards;
- read-modify-write of bit-fields next to each other in one unit, and
  initializer lists that leave the order of the members;
- malformed text: the parser goes on after an error with a token that was not
  there, the lexer after a quote that is never closed, and the three error
  counts (parser, analysis, diagnostics) meet only in the exit status.

Liveness: nothing waits for anything in the compiler. The parser's loops must
end on every token sequence, and in the program it produces a loop must go on.

## 2. Modules

    Module          Models                        Checked by      Proofs
    Align           AlignUp, what several parts round with
    Arena           arena.c                       MCArena         StorageProofs
    Interner        abstract string table
    StrTab          strtab.c, implements Interner MCStrTab        StorageProofs
    StructLayout    type.c sealing                                StructLayoutProofs
    FieldAccess     members and initializers in irgen.c,
                    over StructLayout                             StructLayoutProofs
    AbiClass        abi_classify.c, operators
    AbiLayout       FieldAccess + AbiClass        MCStructLayout  StructLayoutProofs
    Frame           regalloc.c + allocas          MCFrame         StorageProofs
    CallConv        calls in codegen.c, + AbiClass MCCallConv     CallConvProofs
    TypeTable       type.c constructors, operators
    Declarator      declarations in parser.c, over TypeTable      DeclaratorProofs
    CDecl           what C99 6.7 says they declare MCDecl
    Lexer           lexer.c, operators
    Driver          main.c and diagnostic.c, over Lexer           DriverProofs
    CLex            what C99 6.4 says a text's tokens are,
                    over Driver                   MCDriver
    StmtTree        tokens and trees of statements
    StmtParse       statements in parser.c                        StmtParseProofs
    CStmt           what C99 6.8 reads in a text
    ControlFlow     statements in sema.c and irgen.c
    Statements      StmtParse + CStmt + ControlFlow  MCControlFlow
    CType           scalar types and 64-bit words, operators
    ExprParse       Pratt parser, operators (and the C grammar)
    ExprGen         check_expr, gen_expr, operators
    CSemantics      what C99 says an expression does
    Expr            parse, check, generate, execute; against CSemantics  MCExpr
    Scopes          scope chains of three passes  MCScopes        ScopesProofs

`SharedFacts` holds the lemmas that the proofs of several components use.

**Arena.** `pages` is the chain of `Arena` headers, the last one current;
`live` is a history variable: what has been handed out. `arena_alloc` is one
action with its outcomes as disjuncts: room in the page, a new page, a NULL
because a sum would wrap (`arena.c:38-49`), exit because `malloc` failed.
Arithmetic is modulo `SIZE_MAX + 1`.

**StrTab, Interner.** The three arrays are one function to records whose
unused places hold `UNINIT`, so that reading one would be seen. `Hash` is any
function: collisions need no search for colliding names. `Interner` is the
promise, a sequence without repetitions; `Implements` says that StrTab keeps
it, with `AbsTable` as the refinement mapping. The recorded answer carries the
argument, so an answer to another question does not count.

**StructLayout, AbiClass, AbiLayout.** One member per step, with the running
variables of `type_seal_struct`. A member type is its size, its alignment and
its scalars: every element of an array at its own offset, and all of a nested
struct or union, closed by an `END` where the code's recursion runs the
post-merger of that aggregate. `AbiLayout` puts the members' scalars at the
offsets the layout chose, classifies them one by one and compares the result
with the ABI's definition, which goes by sets of classes and so cannot depend
on the order the code merges in.

**FieldAccess.** What a sealed aggregate is used for. Memory is the set of the
bits that are 1, so shifts and masks are operations on sets. An assignment is
the whole read-modify-write of `gen_bitfield_store`; `CompoundAssign` is `op=`,
which loads and stores the whole unit. `TakeItem` is one step of an initializer
list, `LocalItem` and `GlobalItem` what the two generators make of it. `holds`
is a history variable: what was last stored to each member.

**Frame.** First the generator's requests (`ir_new_temp`, `gen_alloca_value`)
in any order, then `regalloc_run`: slots, alloca regions one by one, the
rounding of the frame. Its specification is `FrameSpec`, with `FrameInit`,
`FrameNext` and `FrameTypeOK`, and StrTab's is `TabSpec` with `TabTypeOK`, so that
one module can hold the proofs of the allocators and the string table.

**CallConv.** One call: count, push (backwards), load, enter, capture each
parameter, return, receive the result. A register or stack word holds which
eightbyte of which argument it is and how many of its bytes survived the move
that put it there, so that "the value arrives" is an equation.

**TypeTable, Declarator, CDecl.** Types are numbered nodes in an arena that
refer to each other, and some of them are in a hash table under the arguments
they were made with. `Declarator` is the recursive descent over that heap: one
stack frame per active call, whose `at` says where it goes on. The base of a
grouped declarator is `NULL` when it is read and patched later, as in the code.
`CDecl` does not follow the parser: a C type is a sequence of derivations, from
which the text of a declaration is written, so that the type the text must
have is known. An array bound, a bit-field width or an enumerator's value is
one token. Function bodies, initializers, attributes, `typeof`, `restrict` and
`inline` are left out.

**Lexer, Driver, CLex.** `Lexer` is `lexer.c` on texts of characters, with the
one token of lookahead and its rewinds. A loop of the scanner is one turn, from
a state to the next, and `Turns` takes it until it leaves the state alone.
`Driver` runs that lexer under a parser of which only this is kept: it peeks and
advances in any order and may report an error at any token; then come the
passes, each with its errors, the files, and the exit status. `CLex` says by
intervals of the text what the tokens are, and what was read is compared with
that (`ReadAsC`). Errors and warnings are kept with the place the lexer reports
them at, in the order it does.

**StmtTree, StmtParse, CStmt, ControlFlow, Statements.** A function body from
tokens to execution. `StmtParse` is `parse_statement` with the error recovery
of `expect`; its recursion is a list of tasks, and nodes without a parent wait
in `built`. `Analyse` is sema's check of jumps and the pre-scan for labels.
`gen_stmt`'s recursion is an explicit stack of what is left to generate. When it
is empty, the IR and the source run in lockstep on what can be seen of them: the
expressions evaluated, in order, and the return. The source that runs is not
the parser's tree but what `CStmt` reads in the same tokens by the grammar of
C99 6.8, so a statement the parser attaches to the wrong parent shows as a
different evaluation. Expressions and declarations are single tokens.

**CType, ExprParse, ExprGen, CSemantics, Expr.** One expression from tokens to
a result. Three actions are the passes (`parse_expr`, `check_expr`,
`gen_expr`), then `IrStep` is one IR instruction as the code generator expands
it, on 64-bit slots that keep whatever the last operation left in them.
`CSemantics` is not a translation of the compiler: it evaluates the parsed
expression by C99 6.3 and 6.5 over mathematical integers and tracks two
things about each value: whether its slot is the value extended to 64 bits
("exact") or right in the type's own bits only ("low"), and whether the
program stayed where the compiler follows C (`ok`). The slots of the passing
run are therefore judged only under a stated precondition; section 5 lists
what it leaves out. Temporaries are numbered in the order their instructions
are emitted, where the code sometimes takes the number a little earlier.

**Scopes.** Each action is a construct of a valid program and does to each
pass's chain what that pass does there. A variable with its initializer is two
actions, because the passes define the name on different sides of it. The
passes are walked side by side, which is sound as none reads another's chain.

## 3. What is checked

| Run | Asks | Bounds |
|---|---|---|
| `arena` | `InBlock` `Disjoint` `StrdupSafe` | 5-bit `size_t`, pages of 5 and 3 bytes, requests from 0 to 25 bytes, 4 live allocations |
| `strtab` | `Injective` `Implements` | 5 strings, 4 with one hash, prefixes and a NUL byte among them; capacities 1 to 8 |
| `layout` | `MembersDisjoint` `FitsAndTiles` `MatchesABI` `FieldsHold` `InitializedAsC` | 3 members of 11 types (char, short, int, float, double, long double, arrays of 2 and 3 elements, nested structs), bit-fields of every width of char and short, zero included; every order of stores to the members, initializers of up to 3 items with designators |
| `frame` | `StorageDisjoint` `InFrame` | 5 temporaries, 7 types, a VLA and arrays without a bound included |
| `callconv` | `ArgumentsArrive` `StackBalanced` `ResultArrives` | 4 arguments of 5 types, 6 result types, 3 integer and 2 SSE registers |
| `controlflow` | `Follows` `KeepsUp` `Answers` | every loop and switch around every jump, two deep; conditions of up to four operators; goto and case labels across loops; 3 values per expression; about 1,030 texts with one token missing or replaced by `;` `}` `case` or `continue`; pragmas whole and cut |
| `expr` | `ParsesTheGrammar` `OutcomeRight` `ResultExtended` | about 1,300 expressions run from every start below, about 1,500 more parsed whole and with any one token missing |
| `scopes` | `SameObject` `SameSymbol` `TypedefNames` | 2 names, 3 entities besides those of file scope, 4 levels of C scopes |
| `declarator` | `DeclaredAsC` `InternedOnce` `Ends` | every order of every specifier list of C99; pointers, arrays, functions, parameters, typedef names, struct and enum bodies; one and several declarators; short token sequences that are no declaration; a hash with two buckets |
| `driver` | `ReadAsC` `Located` `ExitTells` | every text of up to 3 to 5 characters over an alphabet for each part of the lexer; a string buffer of 2 bytes; one error per pass; each mode and output on some texts |

Each also checks `TypeOK` (`FrameTypeOK` in `frame`, `TabTypeOK` in `strtab`). Why the bounds are enough:

- *arena*: the page is smaller than most requests, so every allocation meets
  both the room left and the overflow page; `SIZE_MAX` is near enough for the
  overflow tests to fire.
- *strtab*: growth happens three times with all strings in one bucket. A
  string is only compared for equality of hash, length and bytes.
- *layout*: the code's memory of earlier members is the offset, the alignment,
  and the open unit; a third member meets every state two members can leave.
  An array of 3 chars can lie across the two eightbytes, an array of floats
  fills one and a half, and a nested struct runs the post-merger in the middle.
- *callconv*: with 3 + 2 registers four arguments exhaust each kind in every
  order, and the fourth is on the stack; the code compares with the constants
  6 and 8 only through `NInt` and `NSse`.
- *layout*, stores: a store reaches one unit, and three members are enough for
  a neighbour on each side of a bit-field in it.
- *controlflow*: context is saved and restored one level at a time, so two
  levels show a missing restore. One wrong token meets `expect` or the
  unexpected-token case in every construct; what follows it in the text meets
  the recovery.
- *expr*: words are 2 bits for char, 3 for short, 4 for int, 8 for long and
  registers. Only the ratios matter to extension and truncation: int is
  promoted from something narrower, and is narrower than a register by enough
  that a product of two ints fits. Starts are the boundaries of each type: 0,
  the largest positive, the smallest negative, and a value with its sign bit set.
- *declarator*: the parser keeps one type, one flag set and one base per frame;
  three derivations meet every pair of neighbours, which is all a constructor
  or a patch looks at. Two buckets make different keys collide.
- *driver*: the lexer decides on at most three characters at a time, and a
  literal or comment has one state inside.
- *scopes*: one name that is an object while the other is a typedef covers
  hiding; three nested scopes inside a function cover for in block and block in
  for.

Deadlock is not checked: a compilation, a call, a function and an expression
end. Where no step is enabled the property at that point says what the end
state must be (`ResultArrives`, `OutcomeRight`, `Follows`, `DeclaredAsC`,
`ExitTells`).

**Fairness.** Two specifications assume some, both that a sequential program
that can take a step takes it. `Declarator` has `WF_vars(Next)`; `Ends` then
says that the parser reaches the end of the text, whatever it contains.
`Statements` has `WF_vars(FrontEnd)`, under which `Answers` says that every text
is compiled or rejected and which of the two, and weak fairness of `IrStep`,
the processor executes the next instruction. `KeepsUp` says that when the source
is about to evaluate something, the compiled code gets to it; nothing is assumed
of the values expressions have, so loops may go on for ever.

**Violations.** Two runs show the code at odds with what the repository says
of it; `PROJECT.json` quotes the lines.

| Run | What happens |
|---|---|
| `frame_storage` | `int a[] = {1, 2, 3};` in a block gets 8 bytes (`irgen.c:346`) |
| `declarator_matrix` | `int y[2][3]` is an array of 3 arrays of 2 (`parser.c:873`) |

## 4. What is proved

For every value of the constants, under the assumptions named in the modules.
Properties that follow from one inductive invariant are in one row.

| Theorem | Establishes | Argument |
|---|---|---|
| `ArenaSafe`, `ArenaTyped`, `ArenaInBlock`, `ArenaStrdup` | `InBlock`, `Disjoint`, alignment, `StrdupSafe`, `TypeOK`, if no request is within `sizeof(Arena)` of `SIZE_MAX` (`SizesFit`) | `InBlock` is not inductive. `PageInv` adds that a page's bump pointer is within its capacity and its capacity is what `malloc` was asked for, `BelowUsed` that live allocations are below the bump pointer; a new allocation starts there. `AlignUpFacts` is the arithmetic. |
| `StrTabSafe`, `StrTabTyped` | `Injective`, `TypeOK`, and that cached hashes and lengths are right, for any hash | The two need each other: the search is exact because the cache is right (`MatchesIff`), and a string is stored once because the search is exact. |
| `StrTabImplements` | `StrTab` refines `Interner` | Initial states map to initial states, and each action to `InternKnown`, `InternNew`, `Get`, `GetNothing`, `Release` or a stutter; growth leaves `AbsTable` alone. |
| `LayoutSafe`, `LayoutTyped`, `LayoutTiles` | `MembersDisjoint`, `FitsAndTiles`, `TypeOK`, for any types and number of members | `Placed` for every member, `UnitInv`: an open unit ends at the current offset and is aligned; a member goes at or after the offset or into unused bits of the unit. |
| `ClassesMatchABI` | `MatchesABI`, for any struct or union, arrays and nested aggregates included, but for zero-width bit-fields and where `OrderDecides` | What the code reaches one by one, elements and nested members at their offsets, is the set `Contents` (`LeavesFacts`, `SeenContents`). By the number of scalars merged so far: without a long double an eightbyte is `Plain` of the set of classes seen, in whatever order (`PlainMerge`). A long double has 16 bytes, so in an aggregate of at most 16 it is at offset 0 (`LongDoubleFits`), and the two eightbytes are as `TwoEightbytes` says, through every nested post-merger (`MergeTwo`). |
| `FieldsStay` | `FieldsHold`, for any aggregate, memory and sequence of assignments, if the bit-fields stored to have at most 8 bytes, are not 63 bits wide and not under `op=` (`Storable`) | Every access is a range of bits (`First`, `Width`); a load reads exactly it (`ReadFacts`), a store changes exactly it (`WriteFacts`), and the layout keeps the ranges apart (`BitsDisjoint`, from the invariant of `LayoutSafe`). |
| `InitializersAsC` | `InitializedAsC`, for any aggregate, memory and list of items, if the members initialized are no bit-fields and have at most 8 bytes (`Initializable`) | The property itself with `ListInv`: the code's one cursor stands after the target C gives the last item. One item more changes what C says of its own target only (`InitialGrows`), and the bytes of a global are those of a store (`GlobalIsStore`). |
| `FrameSafe`, `FrameTyped`, `FrameBounds` | `StorageDisjoint`, `InFrame`, `TypeOK`, alignment of complete types, for any function | Regions placed so far lie between the last slot and `alloca_cur` and in order of placement (`Placed`, `Ordered`); each alloca has a temporary of its own (`AllocaTemps`). |
| `TypesInternedOnce` | `InternedOnce`, for any hash, buckets and token sequence | Nodes are changed after they are made (completed, patched), and a changed node is not under its key any more. `HeapInv`: a node that was not changed is in the bucket of its own key and is the only one there with it. Each constructor keeps it; so does each patch, which only adds to `changed`. |
| `ScopesInv`, `ScopesSameObject`, `ScopesSameSymbol`, `ScopesTypedefNames`, `ScopesTyped` | `SameObject`, `SameSymbol`, `TypedefNames`, `TypeOK`, for any program, depth and number of names | The three properties look at the innermost scope only and say nothing of what closing it uncovers. `Agrees` is the same at every open level: each chain, cut there, resolves a name as C does, or the name is excused for the parser and sema (`Excused`: declared in a `for` inside, whose table they share with the scope around it; unsure since such a `for` ended or an enum was named again; or being declared). `Nested` fixes which scopes can be inside which, `FileScope` and `Globals` the bottom of the chains. |
| `TypesReferToTypes` | `TypeOK` of `Declarator`, for any token sequence and any hash into the buckets (`HashesToSlots`) | A declarator in parentheses is answered with a hole in it, the base `NULL`, and only the group that asked for it patches it; that no other node ever refers to `NULL` is about the whole stack. `FrameOK` says what one frame holds and between which kinds of node its fields point, `Awaits` which frame may wait for which at which of its points, `Answered` that an answer is what the waiting frame asked for. Constructors add nodes at the end (`MadeAtEnd`), patches keep a node's kind. |
| `RecoveryIsWhole` | `ParserOK`, for any tokens and whatever errors are found in them: the parser stays in the text, its depths count the loops and switches it is in, every node has its parts, one tree is left | A construct is replaced by a list of tasks that meet much later, across errors. `StackInv`: the whole list leads from (nodes without a parent, loop depth, switch depth) to (1, 0, 0), one effect per task (`Does`, `Leads`). A step keeps it if the list it puts in leads where the task it replaces did. `DepthsRight` follows by counting the tasks that lower a depth along that chain. |
| `DiagnosticsLocated` | `Located`, and that the lexer never leaves the text, for any text and string buffer | A warning of an unknown escape has the place behind one (`Warnable`). `PlacesInv` adds that the running line and column are those of the position, before and after lookahead. `AdvTo` counts them as `LineOf` and `ColumnOf` do from the text, each scanner ends inside the text, and a loop does because each turn does (`Turns`). |
| `DriverTyped` | `TypeOK` of `Driver`, for any text, buffer, mode, output and number of errors | `PlacesInv`, where a token is also of its type: the codes of a string are bytes and no more than the buffer holds, for each turn of its loop adds one only while there is room (`InBody`); a number and a character constant are natural numbers (`ValueNumber`). `DriverTypes` adds that up to the analysis the parser's errors are all that was reported. |
| `StatusTells` | `ExitTells`, for any text, number of errors, mode and output | `ControlInv`: which files a step may have written by its point in `main`; a status of 1 has a counted error behind it once the parser is done, and no pass counts an error that the status does not get. |
| `CallBalanced`, `CallTyped` | `StackBalanced`, `TypeOK`, for any number of registers, arguments, type and frame | `Balance`: in each pass `rsp` is what the places of the arguments still to be pushed, and the padding chosen from their sum, say. |
| `ArgumentsReachParameters` | `ArgumentsArrive`, for any arguments and parameters the departures leave out (`Passable`) | Caller and callee find the place of argument k by one walk over the types (`Walk`, the callee's from `IntAtStart`). `Arrival`: what is pushed lies where the walk says (`Pushed`, against a stack that still grows), what is loaded is in its registers and no later argument overwrites them (`Loaded`, from `RankFacts` and `WalkGrows`). |
| `ResultReachesCaller` | `ResultArrives`, for any result type one move per eightbyte takes whole (`Returnable`) | `WayBack`: after the callee's moves each eightbyte is in the register its class and rank give, and the caller asks the same `abi_classify`. |

**Assumptions.** `ArenaConstants`, `StrTabConstants`, `StructConstants`,
`ClassConstants`, `FrameConstants`, `ScopesAssumption`, `InputAssumption`,
`LexerAssumption`, `DriverAssumption` and `CallConstants`: what an input is made
of, and C's facts about object sizes, powers of two as alignments, 16 as the
largest, a long double's 16 bytes within its type. A text is of the characters
TLA+ can write. The conditions of a theorem are the departures of section 5,
each named there; without them the property fails, as the operand sets that
show the departures do. `Storable` cannot be weakened to
allow a width of 63: the mask is wrong there. `Passable` and `Returnable` speak
of each argument and type alone: the argument has the parameter's type and is
no floating constant, and the move the code chooses for each eightbyte is as
wide as what the eightbyte holds (and, into the result, not wider).

**Recursion.** `Walk`, `ClassesAfter`, `LeavesAfter` and `Targets` are functions over the
positions of a list, and the lexer's `Turns` one over the turns of a loop. That
such a function exists (`LoopExists`), and what it does up to a position, is
shown with sets of numbers (`UpTo` in `SharedFacts`): if 0 is in the set and
every number after one in it, the whole range is; for else it would have a least
member outside, by `WFMin`.

Model-checked only: `DeclaredAsC`, `ReadAsC`, `Follows`, the properties of
`Expr`, the type invariant of `CDecl` and the half of that of `Statements` that
is about the lowering (`LoweringOK`). `RecoveryIsWhole` is about `ParseSpec`, the
parser by itself: every step of `Statements` is a `ParseStep` or leaves
`parse_vars` alone, but `Statements` cannot hold a theorem, because it also
extends recursive operators. `Expr`
with its modules, `CDecl`, `CLex`, `CStmt` and `ControlFlow` walk trees and texts
with recursive operators, and what those compute for every tree is an induction
over data, which the prover cannot do; `Ends`, `Answers` and `KeepsUp` are
liveness.

## 5. Departures

Where the compiler departs from C or from its own documents. Those with a run
are in section 3; the others are left out of the passing runs by the guard or
operand set named, and were found by widening it or by reading.

Storage and layout
- A request within `sizeof(Arena)` of `SIZE_MAX` wraps at `arena.c:53`
  (`SizesFit`). `arena_reset` frees overflow pages (`arena.c:85-95`), where
  `include/tinyc/arena.h:35` says "without freeing memory".
- A flexible array member adds -1 to the running offset (`type.c:225`;
  `StructConstants` takes complete types). A zero-width bit-field has no offset
  and is classified at 0 (`MatchesABI` skips such structs).
- A long double whose second half an integer shares (only in a union), with
  floating point or a nested aggregate beside them (`OrderDecides`): the ABI
  merges two fields at a time, and `MEMORY` stays `MEMORY`, so its result depends
  on the order of the fields; and the post-merger of a nested aggregate
  (`abi_classify.c:93-110`) looks at all that was merged before it. Of
  `union { long double a; struct { long x; } b; struct { long y, z; } c; }` it
  makes `MEMORY`, where the ABI says INTEGER, INTEGER.
- A VLA has 4096 bytes, whatever its bound (`irgen.c:342-345`).
- A global's data is emitted without an alignment directive.

Members and initializers (`Storable`, `CompoundShapes`, `InitShapes`)
- The mask of a 63-bit bit-field is all ones (`irgen.c:410-411`): a store to
  `unsigned long a:63` wipes the bit behind it.
- `op=`, `++` and `--` on a bit-field act on its whole unit (`irgen.c:910`),
  neighbours included, although `src/README.md:90` lists "compound bit-field
  assignments". `FieldsHold` fails with `CompoundShapes <- MCStoreShapes`.
- The initializer of an aggregate writes whole units for its bit-fields; an
  unnamed bit-field consumes an item.
- A load never extends the sign of a bit-field, and the value of an assignment
  to one is not cut to its width.
- No brace elision in nested initializers; a local `char k[4] = "abc"` stores a
  pointer; a designator of an anonymous struct's member uses the nested offset
  alone; a float global's initializer is 0.
- Bit-fields of different declared types never share a unit.

Declarations (left out of the programs of `MCDecl`, except the first)
- Two array bounds in a row come out exchanged (`parser.c:873`;
  `declarator_matrix`).
- A grouped declarator is patched one level deep (`parser.c:978-1000`):
  `int (*tab[2])(int)` keeps a NULL pointee, and `int (**pp)(int)`, parameters
  that are function pointers and the declarator of `signal` get wrong or cyclic
  types. The qualifiers of a chain of stars come out in reverse.
- A member declared with the name of a typedef of file scope is read as that
  type (`struct S { int T; ... }`).
- Qualified copies are not interned, although `include/tinyc/type.h:4-8` says
  that types compare by pointer; a `const struct N *` made inside `N` stays
  incomplete. Parameters of array type are not adjusted to pointers.
- Combinations of specifiers that C forbids are accepted.

Tokens (`CLex` calls their verdict "unsure")
- `\012` is read as NUL and two digits. `#` anywhere, not only at the start of
  a line, skips the rest of it. `010.5` and `01e5` are split; `08`, `1abc`, `1e`
  and `0x1.8` are accepted; numbers too large wrap silently.
- The warning of an unknown escape (`lexer.c:279`) is given after the escape was
  read: it points one column past it, and to the next line when a newline was
  escaped. `\?` counts as unknown: its value is right, but there is a warning.
- A character constant is its byte, `'\377'` is 255 (`lexer.c:307-311`), where C
  takes it for a `char`, -1 if `char` is signed as in the ABI.
- An escape for more than a byte (`lexer.c:267-281`) keeps its low byte in a string
  and all of it in a character constant; a hexadecimal one with more digits than an
  `int` has overflows.
- Digraphs are not known; a constant of several characters is rejected, a raw
  newline in one accepted. A string longer than the buffer (4095) is cut, and
  then ends at an escaped quote.
- An error of the lexer or of the analysis does not stop the output: assembly
  is written and only the exit status is 1. Failures of `fread`, `fprintf` and
  `fclose` are not noticed.

Statements (left out of the texts of `MCControlFlow`, or in the loose reading)
- A case or default that is followed by another one gets an empty statement
  (`parser.c:1547`), which is the same inside a block but not as the body of a
  loop, an if or a switch: `while (c--) case 1: case 2: r++;` loops over nothing.
- A `_Pragma` in front of a substatement becomes that substatement
  (`parser.c:1400`), and the real one is run once after the construct.
- A name that is a typedef cannot be a label. A declaration is accepted where a
  statement is asked for, and a label at the end of a block.
- `case 1 + 1:` is compared with 0 (`irgen.c:184`): the parser can evaluate
  it, the IR generator cannot.

Calls (`MCCallConv` has the operand sets that show them)
- `long double` and function designators as arguments are loaded into integer
  registers nobody counted (`codegen.c:824-826`, `WithFunc`).
- A floating constant on the stack is pushed as 0 (`codegen.c:786`,
  `OnlyConstants`).
- Arguments are not converted to the parameter's type (`sema.c:343`,
  `OnlyConversions`).
- A 12-byte struct of floats is stored with two 8-byte moves
  (`codegen.c:869`, `OnlyVec3`); a 3-byte struct passed by value loses its
  third byte (`codegen.c:115`, `OnlyRgb`).

Expressions (marked where they occur in `CSemantics`)
- Unsigned 64-bit division, modulo and right shift are signed
  (`codegen.c:532,548`); `Positive`.
- A shift is made in the common type of its operands, not the promoted left
  one (`sema.c:286-288`).
- The branches of `?:` and the operands of unary `-` and `~` are not converted
  to the type of the result (`sema.c:211-219`, `sema.c:325-330`); unary `+`
  leaves no node, hence no promotion; `Reinterpret`.
- `ZEXT` from 4 bytes emits nothing (`codegen.c:637`), though the comment
  there relies on a `movl`: a wrapped `unsigned int` widens with its carry.
  Sign extension of a negative char to `unsigned int` goes beyond 32 bits.
- Pointer arithmetic on an array that has not decayed is not scaled
  (`irgen.c:842`, against the comment at `irgen.c:657`; `decayed`).
- `sizeof (a)[0]` is parsed as `(sizeof a)[0]` (`parser.c:1223-1229`): a
  parenthesis after `sizeof` ends its operand. The grammar's minimal
  parentheses never write one there.
- Not modelled: conversion to `_Bool` truncates, so 2 stays 2; a cast between
  `float` and `double` is a copy.

Names (`Unsure` and `pending` in `Scopes`)
- After `for (int i = ...)` the parser and sema keep `i` in the enclosing scope,
  the IR generator does not (`sema.c:523`, `irgen.c:1197`): an outer `i` of
  another type is then accessed with the loop variable's type.
- Naming an enum type again re-declares its constants in the current scope
  (`parser.c:1669`, `sema.c:635`), over a variable of that name.
- In its own initializer a variable means an outer one to sema (`sema.c:595`).
- Block-scope `static`, `extern` and function declarations are automatic
  variables (`irgen.c:1112-1121`), although `src/README.md:88` lists "storage
  classes" under "Validated by tests".
- A global initializer that is not a literal, such as `int x = 1 + 2;`, is 0
  (`irgen.c:174-186`).

## 6. Not modelled, and the plan

| Part | Why not yet / plan |
|---|---|
| Nested initializers, arrays and strings in them, addresses of globals (`irgen.c:442-641`) | Next in `FieldAccess`: a cursor stack over nested aggregates, against the current-object rule of C99 6.7.8p17 |
| `type_compatible`, the predicates and printing of types (`type.c`) | Pure functions on one or two types; the predicates that the analysis reads are in `CType` |
| Tags, block-scope static and extern | Into `Scopes`, with the tag chain of the parser |
| Function definitions as a whole, attributes, `typeof` (`parser.c:1645-1758`) | `Declarator` and `StmtParse` would meet there: parameters into the scope of the body |
| Member access and calls in the expression parser and the analysis | Into `ExprParse` and `ExprGen`, over the layouts of `StructLayout` |
| Values of number tokens, aliases of keywords | `strtoull` and `strtod` are the C library's; an alias is a second spelling of one kind |
| Floating point, `IR_MEMCPY`, string constants, data sections, printing of the IR and AST | Formatting and layout of text; floating point has no useful small instance |
| `tools/tinyc-driver.sh`, tests, self-host headers | I/O around the compiler; not part of it |

Proofs that remain: that the nodes of the type table stay what they were
interned as while nothing patches them; the layout of a frame as a refinement
of an abstract allocator of disjoint regions.

Abstract specifications worth adding: a compiler's name resolution as one
lookup function that the three passes implement, and a diagnostics contract
(errors counted = errors reported = exit status) that the driver implements.
