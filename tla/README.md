# Verification of nucleus

nucleus is a virtual machine for small games, written as header-only C, with a
compiler for its language nulang. This directory holds TLA+ models of its parts,
the configurations that model-check them and the proofs of what holds for every
size. Paths below are relative to `src/nucleus`; line numbers refer to the sources
as they are.

The README of the repository asks for *full cross platform determinism*, *save /
restore state* and *runtime game inspection*. None of them survives a container that hands
one slot to two clients, a list whose links leave the list, a parser that builds
another tree than the source says, or a name that resolves to a leftover of the
previous source. These are the things checked here.

## 1. Inventory

| part | state it keeps | operations | who uses it |
|---|---|---|---|
| slot map `vm/slotmap.h:8-124` | `free`, and in each free object the link to the next free one | init, add, remove, get | included by `vm.h`; so far the tests only |
| slot list `vm/slotmap.h:126-206` | `prev`, `next` of each item; the first slot is the client's | init, add_first, remove, next | included by `vm.h`; nothing calls it yet |
| object list `vm/list.h` | headers, first and last object, free list | init, append, remove, next | the tests only |
| entity tables `vm/table.h` | archetypes in a list, the fields of all of them in one array, the list of free chunks | init, create archetype, find archetype, find field, spawn | vm, archetype resolver |
| virtual machine `vm.h` | allocator, tables, resources | init, create archetype; tick and free do nothing | the host |
| strings and identifiers `vm/string.h` | - | set, set_len, compare, hash | tables, resolver |
| fixed-point math `vm/math.h` | - | arithmetic, from and to string | host, lexer (literals) |
| lexer `lang/lexer.h`, `lang/token.h` | position in the text, one character held back, up to five tokens looked at | init, peek, next | parser |
| syntax tree `lang/ast.h` | arena of linked nodes | init, clear, add_node, append_child, iterate | parser, analyzer, printer |
| parser `lang/parser.h` | the C stack of its recursion, the tree, the first error | parse | compiler |
| symbol resolver `lang/analyzer/symbol.h` | table of the names in scope, resolved references | define, find, walk | analyzer |
| archetype resolver `lang/analyzer/archetype.h` | resolved types | walk | analyzer |
| compiler driver `lang/compiler.h` | the arena and the last error, kept from one source to the next | init, compile, free | the host |
| type checker `lang/analyzer/type.h` | - | - | disabled: its call is commented out |
| interpreter `vm/interpreter.h`, code generation | operand stack | - | nothing calls them |
| resources, cartridge, renderer, system, property | - | stubs and callbacks of the host | vm |
| printing, reports, errors, platform | - | formatting, macros | all |

Interactions. The host owns the virtual machine and a compiler. The compiler runs
the lexer through the parser (one token of lookahead), the parser fills the arena,
the resolvers walk the arena and read the archetypes the host created in the
machine. All are plain calls in one thread: there is no lock, message or timer
anywhere, and nothing is stored across runs. The hard behaviours are therefore

- **overlaid state**: the link of a free slot is the first word of the object a
  client used a moment ago; removed list items keep links that a running loop follows;
- **limits**: pools, an arena and tables of fixed size, some of them unchecked, and
  counters of 16 bits;
- **long sequences of legal calls** that corrupt a link which is followed much later;
- **early returns**: the arena and the walk are left in the middle, and are used again
  for the next source;
- **loops over tokens** that must consume something;
- **order**: a table of names that grows and shrinks with the walk, nodes linked to
  their parent before, between and after their own children.

What makes each part correct:

- slot map: a slot has one holder; the map never writes in a held object; the
  assertion fails only when every slot is held; it behaves as a pool of slots.
- slot list, object list: the links of neighbours agree; the list is the sequence the
  calls describe; an object is in the list or free, never both.
- tree and parser: the arena is a forest at all times; an accepted source is spelled
  by its tree; operators group by precedence and side; every source ends; no
  assertion of the tree fails.
- symbol resolver: no name is in scope twice; a reference means the declaration
  whose scope it stands in; the verdict depends on the source alone; the table fits.
- archetype resolver: a type is the last archetype created under its name.
- lexer: the lexemes of the text, each once and in order, whatever was looked at before;
  exact lines and columns; a numeral's word is its number; an error points at its lexeme.
- virtual machine and tables: a host that got a machine got all of it; archetypes keep their own
  fields; lookups find what is there; entries fit their chunk; a chunk is taken once.

## 2. Plan

| order | modules | state |
|---|---|---|
| 1 | `SlotPool` (abstract), `SlotMap`, `MCSlotMap`, `SlotMap_proofs` | done; invariants and refinement proved |
| 2 | `SlotSequences` (abstract), `Chains`, `SlotList`, `SlotList_proofs` | done; invariants and refinement proved |
| 3 | `ObjectSequence` (abstract), `ObjectList`, `ObjectList_proofs` | done; invariants and refinement proved |
| 4 | `Ast`, `Ast_proofs`, `Parser`, `MCParser`, `Ownership`, `Shapes`, `MCOwnership`, `Parser_proofs` | done; types, ownership, the forest, the assertions, the complete tree and the grouping of operators proved |
| 5 | `Analyzer`, `Compiler`, `MCCompiler`, `Compiler_proofs` | done; all safety properties proved |
| 6 | `ArchetypeStore` (abstract), `Tables`, `Machine`, `MCMachine`, `Machine_proofs` | done; all invariants and refinement proved |
| 7 | `TokenStream` (abstract), `Numerals`, `Tokens`, `Lexer`, `MCLexer` | done; recursive, stays with TLC |
| 8 | `Walks`: induction over numbers and what loops compute | done, used by 1 to 6 |
| 9 | more proofs: the forest for sources with unfinished statements up to the statement that fails | to do |

Composition: `Compiler` EXTENDS `Analyzer` EXTENDS `Ast`; `Shapes` EXTENDS `Ownership` EXTENDS
`Parser` EXTENDS `Ast`; `Machine`
EXTENDS `Tables`; `Lexer` and `TokenStream` EXTEND `Tokens` EXTENDS `Numerals`;
the lists and maps are instances of their abstract specifications only, and the two lists share `Chains`. The
compiler takes the parser by what is proved of `Parser` (a failure, or a complete
tree in the arena, `ModuleDelivered`), which keeps the two state spaces apart.

## 3. Modules and the code

**SlotMap** has one variable per field of `nu__slotmap_header_t` that changes, and
`cell`, the first 16-bit word of each object: the word is a link while the slot is
free and data while a client holds it, as in the code, so a write of the client is an
action too (`Put`). `held` and `content` are what the client knows. A client removes
and writes only what it holds. `WordMax` is the largest 16-bit word; every store goes
through `U16`. A link read through slot 0 lies in front of the array, where any word may be.

**SlotPool** is the promise: a stack of free slots. `Take` pops one nobody holds, `Give`
pushes it back, `Write` touches only what a client holds, `Exhaust` stops the caller of
an add when the stack is empty.

**SlotList** has the items' links and the clients' first slots. `where` is the
client's knowledge. A loop with `nu__slotlist_next` is state (`loop`, `at`): its body
may add and remove, also the visited slot, whose links the loop then follows.
**SlotSequences** is the promise: one sequence of slots per list.

**ObjectList** has the headers with `prev` and `next`, `first`, `head`, `free`, and an allocator
which provides `MaxObjects` objects and may refuse at any time. **ObjectSequence** is the
promise, and **Chains** what a loop over linked items meets, for both lists. `TestSpec` adds the client of `src/tests/list.c`, which removes an object twice.

**Ast** is the arena: a function from ids to nodes. `AppendChild` and `Children` are
`nulang__append_child` and `nulang__iter_childs`. `OneTree` says that the links lead from every node to the root;
`HasShape` is what the passes expect of the children of each type of node, `IsModule` both together: the tree of a whole source.

**Parser** is `parser.h` as a machine: `Program` gives for each parsing function the
list of its steps in order (calls, expectations, node creations, appends, returns), `stack` has
a record per call in progress with its local ids, `ParserStep` executes the step on top. A
local id that is not assigned is `Unset`; using it is the status `wild`, and a failed assertion
the status `aborted`. The source is not a fixed text: the token after the
lookahead is chosen from a vocabulary when it is lexed, so one run covers all sources of the
given length. `consumed` records what was chosen. Text the lexer refuses is the token "illegal".

**Ownership** follows the ids in the C locals. A parsing function makes a node, keeps its id, passes it on or
returns it, until somebody appends it. `Owned` reads off the text of each program, as a compiler's flow analysis would, which
locals hold a node without a parent in front of each instruction: a creation adds its local, an append removes the
child's, a call removes what it passes to a `Receivers` function and adds the result of a `Makers` one. `ProgramsOwnRight`
states that the analysis is consistent (same locals on every way to an instruction, none overwritten
while it holds a node, none used without one). It has no parameter: it is a fact about the
programs, which TLC evaluates on every run of `MCOwnership`. `NodesHaveOneOwner` is about the states: what the
running calls hold, less the local each caller waits for, is the set of nodes without a parent, each once.

**Shapes** follows what these nodes have become. A node takes its children one by one; `Takes` says which child a
node of a type may be given next, and how far that brings it (its stage: an `if` has a condition, then a block, and again).
`Kinds` reads off the text of each program, by the same flow analysis, which types and stages the node in each local may be of, and
`ProgramsShapeRight` states that the analysis is consistent: each append is one the parent takes, and only finished
nodes are appended, handed over and returned. `ProgramsNestRight` states who has to do with operators: only `expr`
makes one or appends to one, and only `primary` goes into a parenthesis. Like `ProgramsOwnRight` these are facts about the programs,
evaluated by TLC on the run of `MCOwnership`.

**Analyzer** has the two walks: `walk` is the stack of frames of the recursion in
`nulang__ast_foreach_childs` order, a frame remembering how large the table was; one
action per kind of node met, per error and per return. `symbols` is the resolver's
table. `Mentions` says which node names an archetype.
**Compiler** is `nulang_compile`, repeated in one compiler, and the host's
`nu_vm_create_archetype` in between. The rules of scope, stated on the tree alone
(`Precedes`, `ScopeOf`, `Meant`), are the reference for the walk.

**Lexer** is `lexer.h` on a text of single characters. `stream` is the pointer with its location
and the character held back, `peeks` the tokens looked at. The loops over characters are
recursive operators; `Take` and the `Consume` operators return the stream they leave. An action is one
call: `LexerPeek` with any lookahead the client uses, `NextPeeked`, `NextParsed`. Where the code
computes an address from its pointer (`ptr - 1`), so does the model (`PeekedAt`). An error keeps the span
the code stored in the compiler's error data, or none. `Numerals` has the two parsers of `math.h`: an
overflow of the signed word is an arbitrary word from there on, and a fixed-point word is a pair of
16-bit halves, as TLC's integers have 32 bits. The branches for a sign are left out: the lexer makes "-" a token.
**TokenStream** is the promise: where the next lexeme of the text starts and ends is stated on the text alone, by
the longest run of characters of a class, without streams or lookahead. `Parser` begins where it ends.

**Tables** has `table.h` as operators from one record of the table manager to the next; the
counts of the manager are the lengths of its sequences, an identifier is a sequence of at
most `IdentMax` characters, and `Hash` is any function: two names of one hash are in the run.
**Machine** is `vm.h` and its host. `nu_vm_init` asks for six blocks in turn; `VmInitRefused(granted)` stops
it after any number of them, `VmInitNotLoaded` is a cartridge that fails, and the host may call
it again. `given` and `leaked` number the blocks. `SpawnEntity` is `nu__spawn`, which nothing calls yet,
with the index its body expects. The place of an entity comes from memory nobody wrote, so it is the least
or the greatest word; the store through it is not modelled. **ArchetypeStore** is the promise: a
sequence of archetypes, each with its fields, that only grows.

## 4. Runs

Sizes are bounds of the runs, not of the modules.

| run | what it covers | shows |
|---|---|---|
| `slotmap` | 4 slots, 16-bit words narrowed to 0..5 | links visit each free slot once, clients' data survives, no held slot is handed out, refinement of `SlotPool` (which stops a caller only when no slot is free) |
| `slotmap_wide` | 3 objects, largest word 3 | violation, see 7 |
| `slotlist` | 4 items, 2 lists, a loop that removes | links agree, refinement of `SlotSequences` |
| `objectlist` | 5 objects | each object is in the list or free, refinement of `ObjectSequence` |
| `objectlist_test` | 3 objects, double removal | violation, see 7 |
| `parser_statements` | all sources of up to 9 or 12 tokens over three vocabularies (blocks, functions, variables) and of up to 6 or 7 over operators, calls and assignments; arena of 7 nodes | the tree is complete and spells the source, no assertion fails, each node without a parent has one owner, every source ends |
| `parser_expressions` | all sources of up to 8 tokens over operators with parentheses, and over calls, members and refused text | forest at every step, grouping of operators, no node is stolen by another parent |
| `parser_loops`, `parser_imports` | up to 5 and 3 tokens with the unfinished statements | violations, see 7 |
| `lexer` | every short text, in each order of peeking and taking | tokens are the lexemes of the text (refinement of `TokenStream`), exact spans, values and reports; every text ends |
| `machine` | failing and repeated starts, archetypes with colliding names, entities until no chunk is left | nothing half-built is published, lookups are exact, entries fit, chunks are taken once, refinement of `ArchetypeStore` |
| `compiler` | about 3300 sources with nested blocks, functions, shadowing and forward uses, 240 with types, each followed by another source; up to 2 archetypes with names that collide after truncation | references are lexical, first error is reported, nothing leaks from one source to the next, newest archetype wins, every compilation returns |

Why the bounds are enough. Four slots give free lists that have been reordered by
every permutation and lists with a first, two inner and a last item. Five objects do
the same with one in the free list. Seven nodes let an arena be exhausted at every point of
every construct the vocabularies contain, while three operators with operands (the shortest
text in which a precedence error of the loop shows) still fit; texts that would need
more end in the error for lack of a node, which is checked too. The compiler's sources
contain each order of two definitions and a use, in the same block, a sibling block, an
enclosing function and an argument; the second source would see or miss names of the first.

Deadlock is checked where the component can always go on (`slotlist`, `objectlist`). It is off
where the program stops by design: a map that aborted, a parse that ended, a host that compiled its
last source, a text that was read, a machine that failed for lack of blocks or is full.

Fairness. `Terminates`: `WF` of `ParserStep`. `CompilationReturns`: `WF` of a step of the analysis. Both
run in the caller's thread, with nothing to wait for, so a step that can be made is made; no
action is fair against another one, and the host may stop creating archetypes or compiling. `EveryTextIsRead`: a client
that looks ahead for ever reads nothing, so `ClientKeepsReading` asks that `nulang__lexer_next` is called
again and again, as the loops of the parser and of `nulang__lexer_print_tokens` do. It is `WF` of
`LexerNext` written out: that action is enabled exactly while the status is "lexing", and TLC would
otherwise scan a token once for every reference to it to find out.
That the loop inside of one token ends is not a temporal property here: `ParseToken` is a recursive operator, and
TLC has evaluated it for every text.

The bounds of `lexer` and `machine`. `lexer`: lines and columns
have 2 bits, so that they wrap within five characters, and `MCTexts` is every text of up to 3 of eleven
characters of different classes, of up to 5 over words, numbers and layout, of up to 4 operators,
sentences with the longest words, and numerals around 2^31, 2^32, 2^16 and 2^-16. A lexeme and the two
around it fit 5 characters; the stream has no memory beyond one character. `machine`: words of 6 bits, a chunk of
44 bytes and identifiers of 2 characters put the five archetypes below, at and above the size of
a chunk and of a word; two sets of properties let each of the two capacities be the one that is exhausted;
12 blocks allow a failure at every request before a success.

## 5. Proofs

What a run shows for one small instance, a theorem shows for every value of the constants: every
capacity, word width, source and set of names that satisfies the assumptions. Each section gives the
inductive invariant and why the property alone is not one. Every assumption on a constant is evaluated by TLC
on the runs above.

**Induction.** `Walks`. A loop over links is a recursive function in the models, and all the provers see of one
is that it is a fixed point of its equation, if there is one. So a proof gives a fixed point and shows that there
is no other; both need induction over numbers, which `Walks` gets from the least element of a set of them (`LeastElement`,
from the library's well-founded relations), and states as rules about functions and sets. `WalkMeets` then says
that `Chains!Walk` along the links of a sequence meets that sequence. `Ast_proofs` does the same for trees:
the links upwards form a line that ends at the root (`ClimbRuns`, `RootMet`), the place of the root in it is a
number that a child has one greater than its parent, and so there is induction over trees (`TreeInduction`). Its second
half is about trees that grow: `AreTrees`, and how a new node and an append change them.

**Slot map**, for every capacity up to `NU_SLOT_MAX` (the largest word minus one) and every payload: `TypeCorrect`,
`FreeChainInvariant`, `PayloadInvariant`, `NoFalseExhaustion`, `NoDoubleAllocation`, `PoolImplemented`.
`IInv` adds to the run's invariants that the map aborts only when it is full, which the run checks as a part of
`ImplementsPool`. The important part is `FreeChain`: there
is a bijection of 1..n to the free slots that follows the links and ends behind the
last slot. It is stated with an explicit sequence, since reachability by links is not
first-order: `Add` drops its head, `Remove` puts a new head before it, `Put` writes
outside of it. `Remove` needs a counting argument: a slot is held, so the chain is shorter
than the map. For the refinement the sequence is the one the walk along the links meets, so it is the stack of `SlotPool`.
The assumption on the capacity is needed: `slotmap_wide` shows the invariant fails initially without it.

**Slot list**, for any number of lists over any array: `TypeCorrect`, `LinksInvariant`, `SequencesImplemented`.
`LinksAgree` relates the neighbours of each item and is inductive with the types;
the proof is by cases on whether an item is the one added or removed or its neighbour. For the refinement
`SeqInv` adds the sequences themselves (`Holds(c, t)`): `c` has one for each list, `t` is what a running loop has
still to meet. Unlinking an item passes it by, in the sequence of its list and in `t` alike, whether or not it
is the item the loop stands on; that an item of another list can be removed without effect on `t` needs
that a slot is in one list.

**Object list**, for any number of objects and any refusals: `TypeCorrect`, `NothingLost` (`ListsPartition`), `NeverShared`
(`HandedOutOnce`), `SequenceImplemented`. `Holds(c, d)`: the links lead forwards and backwards through `c`, the free links
through `d`, and the two share out the headers between them. The clients remove only what they hold: `objectlist_test` is the other case.

**Parser**, for every source text and size of the arena: `TypeCorrect` without a further hypothesis, and
`OneOwner`, `AssertionsHold`, `WellFormed`, `ParentsStay`, `TreeIsComplete`, `ModuleDelivered`, `OperatorsNestRight` for texts without an unfinished
statement (`StatementsAreFinished`). The hypothesis is needed: `parser_loops` shows a failed
assertion without it. `OwnerInv` says that the locals of the running calls which the flow analysis calls
owned hold the nodes without a parent, each once (`CallsOwn`), and that the arena is made of trees (`IsTrees`: sequences
of children, and for each node the top above it and its depth). The two need each other: an append joins two *different*
trees because two calls hold their tops, and what an append leaves to hold is known because the trees have one top each.
A step of the machine is an instruction of one of the programs; what the proof needs of those is only
that they own right (`ProgramsOwnRight`, an assumption without a parameter, which TLC evaluates), so there is one proof per
kind of instruction and not one per function of the parser.
`ShapeInv` adds for `TreeIsComplete` (`TreeComplete`) that the node in an owned local is of one of the kinds the table `Kinds`
names at the instruction the call is at, that each caller waits for a kind its callee returns, and that every node with a parent, or
returned, has the shape of its type. `TreeComplete` says nothing before the parse has ended, when most nodes are unfinished; the kinds say
how far they are. An append adds one child at the end (`AppendingKeepsKids`), so the parent makes one step of `Takes` and all
others keep their stage. That the last stage of a type is its `HasShape`, which looks at
all children at once, is `FinalHasShape`, with an induction over the branches of an `if` (`BranchesAlternate`). Again the proof
has one case per kind of instruction, and the facts about single functions are in `ProgramsShapeRight`.
`ModuleDelivered` then gives the compiler what it assumes.
`OperatorsNestRight` (`OperatorsNest`) is about tokens as well as nodes: an operand that binds less must have a
parenthesis next to the operator, and the tree does not keep parentheses. `NestInv` adds to `ShapeInv` the number of the
first token of each running call (`Reading`: the lookahead is the token behind the text consumed; the text only grows).
A call of `expr` knows that what it has is an operator no looser than its minimum, or begins with "(" at its first
token; and that the token behind is no operator the operand would have had to take, or the last token was ")"
(`ExprRuns`: `RightFits`, `LeftFits`). Its caller waits with the operator it has read, whose number is one less than the
first token of the right operand (`Waiting`). So when the operator gets its operands both facts are at hand, and they
stay true of the text (`OperandsOn`). That these are the facts `OperatorsNest` is stated with is arithmetic over the
precedences (`OperandsNest`). The text of `expr`, `primary` and `primary_paren` is read off the programs (`ExprText`,
`PrimaryText`); of the others it is enough that they satisfy `ProgramsNestRight`.

**Compiler**, for all sources, capacities and numbers of compilations. `Inv` gives `NoShadowing`
(`NamesDistinct`), `TableNeverOverflows` (the arrays of `symbol.h` are filled without a check), `ReferencesKeepNames`
and `TypeCorrect`. That `Define` looks a name up first is not
enough, as leaving a scope cuts the table to a remembered size. `Inv` therefore adds
`Nested`: frames deeper in the stack remember no larger a size than those above, and
none more than the table holds. The overflow theorem is an injection from entries to nodes.
`LexInv` then gives `ReferencesLexical` (`ReferencesAreLexical`), `VerdictRight` (`VerdictIsRight`) and `ArchetypesNewest`
(`ArchetypesAreNewest`). The properties speak of the tree (`ScopeOf`, `Precedes`, `Meant`), the walk knows its frames and
its table; the invariant joins the two:

1. the frames are the path from the root to where the walk is (`OnPath`). Every node is therefore met or ahead, and those met
   precede those ahead (`NextIsFirst`: the next node is the first of those ahead);
2. the table holds the functions of the module and the declarations met whose scope contains the place of the walk, and
   no others; the size a frame remembers separates the entries from below its node from the rest, so cutting
   the table there forgets exactly the scope that is left (`ScopeTable`);
3. all that was met is right: every name means what it was resolved to, and no node met breaks a rule.

So a name that is looked up finds `Meant`, an error is at the first faulty node, and at the end of a walk, when nothing is
ahead, all references and types are there.
Assumptions: each source is one tree that fits the arena, with its children in it and of the shapes expected
(`TreesAssumption`, which is what `ModuleDelivered` proves of the parser),
and the arena is no larger than the table (`SymbolCapacityAssumption`). The code does not enforce the
last: `nulang_compiler_info_default` asks for 256 nodes, the table has 1024 entries.

**Machine**, for all properties, archetypes, word widths and sequences of failing starts: `WholeMachine`
(`PublishedMachineIsWhole`), `StoreImplemented` (every behaviour of `Machine` is one of
`ArchetypeStore`), `TypeCorrect`, `ExactLookups` (`LookupsAreExact`), `EntriesFit` (`ChunksFitTheirEntries`) and `TakenOnce`
(`ChunksAreTakenOnce`). `Inv` adds to the first that the fields of each archetype end within the array of all
fields (`Owned`): so a creation, which writes behind that end, leaves what is read back of the older
archetypes alone (`SubSeqOfPrefix`), and what is read back of the new one is what was written (`SubSeqOfSuffix`).
`LayoutInv` adds that the list of archetypes visits all of them, the newest first (`Listed`), and that the free list runs
through the chunks from the last one taken on (`ChunksInv`, `TakenUpTo`): the searches and the walk over the chunks meet what
these sequences hold. The sums and searches of the tables come first, as lemmas for tables of every size.
Assumption: the host passes fields and their number as an array (`InfosAssumption`).

Only model-checked:

- liveness (`Terminates`, `CompilationReturns`, `EveryTextIsRead`): the prover has no rule for fairness and ENABLED;
- everything about `Lexer`: its loops are RECURSIVE operators, and in a module with one the prover has no arithmetic. `MCCompiler`,
  which builds trees for TLC, is such a module too, and no proof uses it;
- that the tree spells the source (`TreeSpellsSource`): it needs to know what each
  function of the parser makes of its tokens, by recursion over the grammar.

## 6. Not modelled

- The bytes of the chunks: `nu__archetype_field` and its field layout have no caller, no value of an entity
  is ever stored, and the code that would build a field handle is commented out.
- Fixed-point arithmetic: only the interpreter and an example call it. Transcendental functions are stubs.
- `nu_ident_set`, `nu_ident_str` and the comparisons of `string.h`: without a caller that stores, or the
  equality of sequences. The hash itself is any function.
- `nu_vm_save`, `nu_vm_load`, `nu_vm_bind_renderer`, `nulang_evaluate`: declared, not defined.
- The depth of the C stack in the parser's recursion: parentheses cost no node, so only the
  source bounds it. The model's stack has no bound.
- Byte layout of the blocks (header in front of objects, alignment of structures).
- Type checker, interpreter, code generation: never called, or empty.
- Printing: formatting, except which part of the text a report shows. Renderer and system: stubs and
  callbacks of the host with no state of their own. Bundles and resources: never loaded yet.

## 7. Where code and text disagree

- `slotmap_wide`: with capacity 65535 the last link (`slotmap.h:84`) is 65536 in 16 bits, that is 0. The
  add on the full map passes its assertion and returns the null slot. The check at initialisation
  only asks for a positive capacity.
- `objectlist_test`: `src/tests/list.c` removes every object twice and passes; the second
  removal puts a header on the free list twice, and two later appends return one object.
- `parser_loops`: `for`, `break`, `continue` and `export` succeed in `nulang__parse_stmt` without making a
  node; the caller appends an unassigned or an old id, against the assertions of
  `nulang__append_child`.
- `parser_imports`: `import` and `from` at the start are peeked and never consumed: the parser loops.

Behaviour that no text contradicts, kept in the models as it is:

- `let a = a` refers to the variable being declared, as the name is defined before its
  initialiser is walked.
- A function declared in a block is never entered in the table: it cannot be called. Its arguments
  and body are resolved all the same.
- An inner declaration may not hide an outer one: it is an error.
- `nulang__is_binop` does not list subtraction, so `a - b` is not an expression.
- The error of the last expectation of `insert` and `singleton` is dropped: any token is taken for
  the closing parenthesis.
- The archetype is looked up by the hash of its full name but stored under a truncated one, so a long
  name is never found.
- The comparison with the keyword `and` has exchanged arguments (`lexer.h:308`): it is recognised only when it
  ends the source, and there `a` and `an` are recognised as `and` too.
- A lone `!` is an error without a span (`lexer.h:594`): the report shows whatever place was stored before.
- The report's search for the start of a line does not look at the first character (`print.h:227`): a newline
  there is printed with the second line.
- The integral part of a fixed-point numeral is cut to 16 bits, an integer numeral that leaves 32 bits
  overflows; neither is an error.
- A failed `nu_vm_init` gives nothing back, and nothing can: there is no callback to free a block.
- `nu__spawn` takes an index where the other functions take an archetype, and never links the chunk it takes: each
  entity has a chunk of its own, and with `free` counted down from a capacity of 0 the counter wraps.
- The first field of all has the index 0, which also means that no field was found.
- A field of a type that is not a scalar, `vec3`, `quat` or `entity` counts four bytes.

## 8. Running

    tlc -workers 2 -config SlotMap.cfg MCSlotMap.tla
    tlc -workers 2 -config SlotList.cfg SlotList.tla
    tlc -workers 2 -config ObjectList.cfg ObjectList.tla
    tlc -workers 2 -config ParserStatements.cfg MCOwnership.tla
    tlc -workers 2 -config ParserExpressions.cfg MCParser.tla
    tlc -workers 2 -config Compiler.cfg MCCompiler.tla
    tlc -workers 2 -config Lexer.cfg MCLexer.tla
    tlc -workers 2 -config Machine.cfg MCMachine.tla
    tlapm Walks.tla
    tlapm SlotMap_proofs.tla
    tlapm SlotList_proofs.tla
    tlapm ObjectList_proofs.tla
    tlapm Ast_proofs.tla
    tlapm Parser_proofs.tla
    tlapm Compiler_proofs.tla
    tlapm Machine_proofs.tla

`PROJECT.json` lists every run, the mutation each property detects, the lines each definition
models, and the hazards of the code with the properties that cover them.
