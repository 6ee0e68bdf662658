-------------------------------- MODULE Compiler -------------------------------
(***************************************************************************)
(* nulang_compile (nucleus/lang/compiler.h): one compiler compiles one     *)
(* source after the other in the same arena; between two of them the host  *)
(* creates archetypes in the virtual machine (nucleus/vm.h).               *)
(*                                                                         *)
(* The parser is seen through what module Parser shows of it: it fails, or *)
(* it leaves a complete tree in the arena.                                 *)
(***************************************************************************)
EXTENDS Analyzer

CONSTANTS
    Compilations,       \* bound: sources compiled one after the other
    Trees(_, _),        \* bound: Trees(c, a) are the parsed sources compiled after c
                        \* others, when the virtual machine has a archetypes
    ArchetypeNames,     \* names the host gives
    Identifier,         \* nu_ident_set_str: a name cut to 30 characters
    ArchetypeCapacity   \* of the virtual machine

ASSUME TreesAssumption ==
    \A c \in 0..Compilations - 1, a \in 0..ArchetypeCapacity : \A tree \in Trees(c, a) :
        IsModule(tree) /\ Cardinality(DOMAIN tree) <= NodeCapacity

ASSUME BoundsAssumption == Compilations \in Nat /\ ArchetypeCapacity \in Nat

VARIABLE compiled   \* bound: sources compiled so far

vars == <<analyzerVars, compiled>>

Init ==
    /\ compiled = 0
    /\ nodes = ClearedNodes
    /\ phase = "idle"
    /\ walk = <<>>
    /\ symbols = <<>>
    /\ reference = [n \in {Root} |-> Unset]
    /\ archetype = [n \in {Root} |-> NoArchetype]
    /\ archetypes = <<>>
    /\ error = "" /\ span = Unset

\* nu_vm_create_archetype, which without room changes nothing
CreateArchetype(name) ==
    /\ phase = "idle"
    /\ Len(archetypes) < ArchetypeCapacity
    /\ archetypes' = Append(archetypes, Identifier[name])
    /\ UNCHANGED <<nodes, phase, walk, symbols, reference, archetype, error, span, compiled>>

\* the arena is cleared, the parser fills it, the resolver starts with an empty table
CompileKeepsSymbols(tree) ==
    /\ phase = "idle"
    /\ compiled' = compiled + 1
    /\ nodes' = tree
    /\ phase' = "functions"
    /\ walk' = <<[id |-> Root, size |-> 0, todo |-> Children(tree, Root)]>>
    /\ reference' = [n \in DOMAIN tree |-> Unset]
    /\ archetype' = [n \in DOMAIN tree |-> NoArchetype]
    /\ error' = "" /\ span' = Unset
    /\ UNCHANGED <<symbols, archetypes>>

Compile(tree) ==
    /\ phase = "idle"
    /\ compiled' = compiled + 1
    /\ nodes' = tree
    /\ phase' = "functions"
    /\ walk' = <<[id |-> Root, size |-> 0, todo |-> Children(tree, Root)]>>
    /\ symbols' = <<>>
    /\ reference' = [n \in DOMAIN tree |-> Unset]
    /\ archetype' = [n \in DOMAIN tree |-> NoArchetype]
    /\ error' = "" /\ span' = Unset
    /\ UNCHANGED archetypes

\* nulang__parse fails, and nothing is analyzed
ParseFails ==
    /\ phase = "idle"
    /\ compiled' = compiled + 1
    /\ error' = "PARSER" /\ span' = Unset
    /\ nodes' = ClearedNodes
    /\ reference' = [n \in {Root} |-> Unset]
    /\ archetype' = [n \in {Root} |-> NoArchetype]
    /\ symbols' = <<>>
    /\ UNCHANGED <<phase, walk, archetypes>>

Next ==
    \/ \E name \in ArchetypeNames : CreateArchetype(name)
    \/ compiled < Compilations /\ \E tree \in Trees(compiled, Len(archetypes)) : Compile(tree)
    \/ compiled < Compilations /\ ParseFails
    \/ Analyze /\ UNCHANGED compiled

Spec == Init /\ [][Next]_vars

\* the analyzer runs to its end once the compiler has called it
FairSpec == Spec /\ WF_vars(Analyze /\ UNCHANGED compiled)

-------------------------------------------------------------------------------
(* The rules of the language, on the tree alone *)

\* m comes before n in the source: it contains n, or an elder sibling of a node that does
Precedes(m, n) ==
    \/ m # n /\ m \in Ancestors(nodes, n)
    \/ \E p \in Ancestors(nodes, m) \cap Ancestors(nodes, n) :
          LET kids == Children(nodes, p) IN
          \E i, j \in DOMAIN kids : i < j /\ m \in Subtree(nodes, kids[i])
                                         /\ n \in Subtree(nodes, kids[j])

\* functions of the module are declared before everything else; a function declared
\* inside a block is not declared at all
Hoisted(n) == nodes[n].type = "FUNDECL" /\ nodes[n].parent = Root
Declares(n) == nodes[n].type \in {"VARDECL", "ARGDECL"} \/ Hoisted(n)

\* the node whose end ends the scope of a declaration
ScopeOf(n) ==
    LET closed == {a \in Ancestors(nodes, n) \ {n} : nodes[a].type \in Scopes \cup {"MODULE"}}
    IN CHOOSE a \in closed : \A b \in closed : b \in Ancestors(nodes, a)

\* n is in the scope of declaration d, or in its own initialiser
InScope(d, n) ==
    /\ ScopeOf(d) \in Ancestors(nodes, n)
    /\ Hoisted(d) \/ Precedes(d, n)

Meant(n) == {d \in DOMAIN nodes : Declares(d) /\ Name(d) = Name(n) /\ InScope(d, n)}

\* declarations n collides with, in the order in which declarations are made
Collides(n) ==
    {d \in Meant(n) \ {n} : Hoisted(n) => Hoisted(d) /\ Precedes(d, n)}

Faulty(n) ==
    \/ Declares(n) /\ Collides(n) # {}
    \/ nodes[n].type = "SYMREF" /\ Meant(n) = {}
FaultyFunctions == {n \in DOMAIN nodes : Hoisted(n) /\ Collides(n) # {}}
FaultyNodes == {n \in DOMAIN nodes : Faulty(n)}

First(set) == CHOOSE n \in set : \A m \in set \ {n} : Precedes(n, m)
ToReport == First(IF FaultyFunctions # {} THEN FaultyFunctions ELSE FaultyNodes)

-------------------------------------------------------------------------------
(* Properties *)

\* The table of names never outgrows its array, which nulang__define_symbol fills without
\* a check (symbol.h:47-49).
TableFits == Len(symbols) <= SymbolCapacity

\* The table fits, its entries are declarations of this tree and a frame never remembers
\* more entries than there are (symbol.h:95).
TypeOK ==
    /\ phase \in {"idle", "functions", "symbols", "archetypes"}
    /\ TableFits
    /\ \A i \in DOMAIN symbols : symbols[i].id \in DOMAIN nodes /\ Declares(symbols[i].id)
    /\ \A i \in DOMAIN walk : walk[i].id \in DOMAIN nodes /\ walk[i].size <= Len(symbols)
    /\ reference \in [DOMAIN nodes -> DOMAIN nodes \cup {Unset}]
    /\ archetype \in [DOMAIN nodes -> 0..Len(archetypes)]

\* No name is twice in the table: a declaration never hides another one, whatever the
\* blocks the walk has entered and left, so the order of the search does not matter.
NamesDistinct ==
    \A i, j \in DOMAIN symbols : symbols[i].name = symbols[j].name => i = j

\* A name refers to the one declaration whose scope it stands in: what the walk with
\* its growing and shrinking table computes is what the rules of scope say, for names in
\* nested blocks, in arguments, before and after the end of a block, and for functions
\* used before they are declared.
ReferencesAreLexical ==
    \A n \in DOMAIN nodes :
        /\ reference[n] # Unset => Meant(n) = {reference[n]}
        /\ nodes[n].type = "SYMREF" /\ phase = "archetypes" => reference[n] # Unset

\* The resolver of symbols accepts a source exactly when it breaks no rule, and reports the
\* first node that does: no name left in the table by an earlier compilation shows in it.
VerdictIsRight ==
    [][LET resolving == phase \in {"functions", "symbols"} IN
          /\ resolving /\ phase' = "archetypes" => FaultyNodes = {}
          /\ resolving /\ phase' = "idle" =>
                /\ FaultyNodes # {} /\ span' = ToReport
                /\ (error' = "SYMBOL_ALREADY_DEFINED") = Declares(span')]_vars

\* When a compilation succeeds every type its source mentions is the archetype last created
\* under that name, also when the host has created others of that name since an earlier
\* compilation; it fails only for the first name no archetype is stored under.
ArchetypesAreNewest ==
    [][phase = "archetypes" /\ phase' = "idle" =>
          LET Unknown(n) == Mentions(n) # "" /\ Mentions(n) \notin {archetypes[a] : a \in DOMAIN archetypes}
              unknown == {n \in DOMAIN nodes : Unknown(n)}
              Newest(n) ==
                  /\ archetypes[archetype'[n]] = Mentions(n)
                  /\ \A a \in archetype'[n] + 1..Len(archetypes) : archetypes[a] # Mentions(n)
          IN IF error' = ""
             THEN unknown = {} /\ \A n \in DOMAIN nodes : Mentions(n) # "" => Newest(n)
             ELSE unknown # {} /\ span' = First(unknown)]_vars

\* every compilation comes back to the host, with a verdict or with the references
\* resolved, and leaves nothing of its walks behind (analyzer.h:47-68): whatever the
\* tree, each walk meets and leaves every node of it
CompilationReturns == (phase # "idle") ~> (phase = "idle" /\ walk = <<>>)
===============================================================================
