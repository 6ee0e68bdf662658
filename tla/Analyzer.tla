-------------------------------- MODULE Analyzer -------------------------------
(***************************************************************************)
(* The analysis of a parsed source (nucleus/lang/analyzer.h): the resolver *)
(* of symbols (analyzer/symbol.h) gives each reference its declaration,    *)
(* then the resolver of archetypes (analyzer/archetype.h) looks up the     *)
(* names of types. Both walk the tree in its order, with a stack of frames *)
(* for the recursion of nulang__ast_foreach_childs; the first error stops  *)
(* the compilation.                                                        *)
(*                                                                         *)
(* "symbols" is the table of the names in scope. A declaration enters it   *)
(* when the walk meets it, the functions of the module before any other    *)
(* node; the table shrinks back at the end of a block or a function.       *)
(***************************************************************************)
EXTENDS Ast

CONSTANTS
    NodeCapacity,   \* nodes of the arena
    SymbolCapacity  \* entries of the table of names: the arrays hold 1024

ASSUME NodeCapacityAssumption == NodeCapacity \in Nat \ {0}
\* The table is filled without a check. nulang_compiler_info_default asks for 256 nodes.
ASSUME SymbolCapacityAssumption == SymbolCapacity \in Nat /\ NodeCapacity <= SymbolCapacity

VARIABLES
    nodes,      \* the tree
    phase,      \* "idle", "functions", "symbols", "archetypes"
    walk,       \* frames [id, size, todo] of the walk, the innermost first
    symbols,    \* names in scope, [name, id], the last defined last
    reference,  \* declaration of each SYMREF resolved
    archetype,  \* archetype of each node whose type is resolved
    archetypes, \* of the virtual machine: the stored names, the oldest first
    error, span \* error of the last compilation, "" for none, and the node it points to

analyzerVars == <<nodes, phase, walk, symbols, reference, archetype, archetypes, error, span>>

NoArchetype == 0    \* NU_ARCHETYPE_NULL

Frame(id) == [id |-> id, size |-> Len(symbols), todo |-> Children(nodes, id)]

Top == Head(walk)
Child == Head(Top.todo)     \* the node the walk meets next
Name(n) == nodes[n].value

Begin(p) == phase' = p /\ walk' = <<Frame(Root)>>
Descend == walk' = <<Frame(Child), [Top EXCEPT !.todo = Tail(@)]>> \o Tail(walk)
FailAt(e, n) == error' = e /\ span' = n /\ phase' = "idle" /\ walk' = <<>>

-------------------------------------------------------------------------------
(* Symbols *)

\* nulang__find_symbol: the last defined of the entries with the name
Entries(name) == {i \in DOMAIN symbols : symbols[i].name = name}
Defined(name) == Entries(name) # {}
Lookup(name) == symbols[CHOOSE i \in Entries(name) : \A j \in Entries(name) : j <= i].id

\* nulang__define_symbol
DefineUnchecked(n) == symbols' = Append(symbols, [name |-> Name(n), id |-> n])

Define(n) == ~Defined(Name(n)) /\ symbols' = Append(symbols, [name |-> Name(n), id |-> n])

AlreadyDefined(n) ==
    /\ Defined(Name(n))
    /\ FailAt("SYMBOL_ALREADY_DEFINED", n)
    /\ UNCHANGED <<nodes, symbols, reference, archetype, archetypes>>

MeetFunctionForgets ==
    /\ phase = "functions"
    /\ Top.todo # <<>>
    /\ nodes[Child].type = "FUNDECL"
    /\ walk' = <<[Top EXCEPT !.todo = Tail(@)]>>
    /\ UNCHANGED <<nodes, phase, symbols, reference, archetype, archetypes, error, span>>

\* the loop over the children of the module: functions before anything else
MeetFunction ==
    /\ phase = "functions"
    /\ Top.todo # <<>>
    /\ nodes[Child].type = "FUNDECL"
    /\ Define(Child)
    /\ walk' = <<[Top EXCEPT !.todo = Tail(@)]>>
    /\ UNCHANGED <<nodes, phase, reference, archetype, archetypes, error, span>>

MeetFunctionTwice ==
    /\ phase = "functions"
    /\ Top.todo # <<>>
    /\ nodes[Child].type = "FUNDECL"
    /\ AlreadyDefined(Child)

MeetStatementAgain ==
    /\ phase = "functions"
    /\ Top.todo # <<>>
    /\ nodes[Child].type # "FUNDECL"
    /\ UNCHANGED <<walk, nodes, phase, symbols, reference, archetype, archetypes, error, span>>

MeetStatement ==
    /\ phase = "functions"
    /\ Top.todo # <<>>
    /\ nodes[Child].type # "FUNDECL"
    /\ walk' = <<[Top EXCEPT !.todo = Tail(@)]>>
    /\ UNCHANGED <<nodes, phase, symbols, reference, archetype, archetypes, error, span>>

BeginScopedWalk ==
    /\ phase = "functions"
    /\ Top.todo = <<>>
    /\ Begin("symbols")
    /\ UNCHANGED <<nodes, symbols, reference, archetype, archetypes, error, span>>

Meets(p, types) == phase = p /\ Top.todo # <<>> /\ nodes[Child].type \in types

Declarations == {"VARDECL", "ARGDECL"}

\* The frame of the callee remembers the size of the table before the definition.
DeclareVariable ==
    /\ Meets("symbols", Declarations)
    /\ Define(Child)
    /\ Descend
    /\ UNCHANGED <<nodes, phase, reference, archetype, archetypes, error, span>>

DeclareTwice == Meets("symbols", Declarations) /\ AlreadyDefined(Child)

ResolveSymbol ==
    /\ Meets("symbols", {"SYMREF"})
    /\ Defined(Name(Child))
    /\ reference' = [reference EXCEPT ![Child] = Lookup(Name(Child))]
    /\ Descend
    /\ UNCHANGED <<nodes, phase, symbols, archetype, archetypes, error, span>>

UnresolvedSymbol ==
    /\ Meets("symbols", {"SYMREF"})
    /\ ~Defined(Name(Child))
    /\ FailAt("UNRESOLVED_SYMBOL", Child)
    /\ UNCHANGED <<nodes, symbols, reference, archetype, archetypes>>

EnterNode ==
    /\ Meets("symbols", NodeTypes \ (Declarations \cup {"SYMREF"}))
    /\ Descend
    /\ UNCHANGED <<nodes, phase, symbols, reference, archetype, archetypes, error, span>>

Scopes == {"COMPOUND", "FUNDECL"}

\* back to the caller; after the root, to the resolver of archetypes
Ascend(next) ==
    /\ Top.todo = <<>>
    /\ IF Len(walk) > 1 THEN walk' = Tail(walk) /\ UNCHANGED phase ELSE next

LeaveScopeOfFunctionsOnly ==
    /\ phase = "symbols"
    /\ Ascend(Begin("archetypes"))
    /\ symbols' = IF nodes[Top.id].type = "FUNDECL" THEN SubSeq(symbols, 1, Top.size) ELSE symbols
    /\ UNCHANGED <<nodes, reference, archetype, archetypes, error, span>>

LeaveScope ==
    /\ phase = "symbols"
    /\ Ascend(Begin("archetypes"))
    /\ symbols' = IF nodes[Top.id].type \in Scopes THEN SubSeq(symbols, 1, Top.size) ELSE symbols
    /\ UNCHANGED <<nodes, reference, archetype, archetypes, error, span>>

ResolveSymbols ==
    \/ MeetFunction \/ MeetFunctionTwice \/ MeetStatement \/ BeginScopedWalk
    \/ DeclareVariable \/ DeclareTwice \/ ResolveSymbol \/ UnresolvedSymbol
    \/ EnterNode \/ LeaveScope

-------------------------------------------------------------------------------
(* Archetypes *)

\* nu__archetype_find: the list of archetypes starts with the last created
Named(name) == {a \in DOMAIN archetypes : archetypes[a] = name}
FindOldest(name) ==
    IF Named(name) = {} THEN NoArchetype ELSE CHOOSE a \in Named(name) : \A b \in Named(name) : a <= b
Find(name) ==
    IF Named(name) = {} THEN NoArchetype ELSE CHOOSE a \in Named(name) : \A b \in Named(name) : b <= a

\* the name of an archetype a node mentions, "" for none: a primitive type is no archetype
Mentions(n) ==
    CASE nodes[n].type \in {"VARDECL", "ARGDECL", "FUNDECL"} ->
             IF nodes[n].vartype = "primitive" THEN "" ELSE nodes[n].vartype
      [] nodes[n].type \in {"INSERT", "SINGLETON"} -> nodes[n].value
      [] OTHER -> ""

\* nulang__resolve_archetype
ResolveArchetype ==
    /\ Meets("archetypes", NodeTypes)
    /\ Mentions(Child) # ""
    /\ Find(Mentions(Child)) # NoArchetype
    /\ archetype' = [archetype EXCEPT ![Child] = Find(Mentions(Child))]
    /\ Descend
    /\ UNCHANGED <<nodes, phase, symbols, reference, archetypes, error, span>>

ArchetypeNotFound ==
    /\ Meets("archetypes", NodeTypes)
    /\ Mentions(Child) # ""
    /\ Find(Mentions(Child)) = NoArchetype
    /\ FailAt("ARCHETYPE_NOT_FOUND", Child)
    /\ UNCHANGED <<nodes, symbols, reference, archetype, archetypes>>

NoArchetypeMentioned ==
    /\ Meets("archetypes", NodeTypes)
    /\ Mentions(Child) = ""
    /\ Descend
    /\ UNCHANGED <<nodes, phase, symbols, reference, archetype, archetypes, error, span>>

LeaveNode ==
    /\ phase = "archetypes"
    /\ Ascend(phase' = "idle" /\ walk' = <<>>)
    /\ UNCHANGED <<nodes, symbols, reference, archetype, archetypes, error, span>>

ResolveArchetypes ==
    ResolveArchetype \/ ArchetypeNotFound \/ NoArchetypeMentioned \/ LeaveNode

\* nulang__analyze
Analyze == ResolveSymbols \/ ResolveArchetypes
===============================================================================
