------------------------------ MODULE ObjectList -------------------------------
(***************************************************************************)
(* nu__list (nucleus/vm/list.h): a doubly linked list of objects, each     *)
(* preceded by a header with its links. Removed objects wait in a free     *)
(* list, linked by the same "next", and are handed out again; the          *)
(* allocator is asked only when the free list is empty, and may refuse.    *)
(* A header stands for its object.                                         *)
(*                                                                         *)
(* Spec has clients that remove objects of the list. TestSpec has clients  *)
(* that remove any object they were given, like the last loop of           *)
(* tests/list.c, which removes again what an earlier loop removed.         *)
(***************************************************************************)
EXTENDS Chains

CONSTANT MaxObjects     \* bound: objects the allocator can provide

ASSUME MaxObjectsAssumption == MaxObjects \in Nat \ {0}

Null == 0
Headers == 1..MaxObjects
HeaderOrNull == 0..MaxObjects

VARIABLES
    prev, next,         \* the headers
    first, head, free,  \* the list: first and last object, first of the free list
    allocated,          \* objects provided by the allocator: headers 1 .. allocated
    result,             \* what the last nu__list_append returned
    live                \* the client's knowledge: objects appended and not removed

vars == <<prev, next, first, head, free, allocated, result, live>>

InitForgetsFree ==
    /\ prev = [h \in Headers |-> Null]
    /\ next = [h \in Headers |-> Null]
    /\ first = Null /\ head = Null /\ free \in HeaderOrNull
    /\ allocated = 0
    /\ result = Null
    /\ live = {}

\* nu__list_init
Init ==
    /\ prev = [h \in Headers |-> Null]
    /\ next = [h \in Headers |-> Null]
    /\ first = Null /\ head = Null /\ free = Null
    /\ allocated = 0
    /\ result = Null
    /\ live = {}

\* header becomes the last object of the list
Link(header) ==
    /\ next' = [h \in Headers |-> IF h = header THEN Null
                                  ELSE IF h = head THEN header ELSE next[h]]
    /\ prev' = [prev EXCEPT ![header] = head]
    /\ first' = IF head = Null THEN header ELSE first
    /\ head' = header
    /\ result' = header
    /\ live' = live \cup {header}

AppendRecycledKeepsFree ==
    /\ free # Null
    /\ Link(free)
    /\ UNCHANGED <<free, allocated>>

AppendRecycled ==
    /\ free # Null
    /\ free' = next[free]
    /\ Link(free)
    /\ UNCHANGED allocated

AppendNewAlways ==
    /\ allocated < MaxObjects
    /\ allocated' = allocated + 1
    /\ Link(allocated + 1)
    /\ UNCHANGED free

AppendNew ==
    /\ free = Null
    /\ allocated < MaxObjects
    /\ allocated' = allocated + 1
    /\ Link(allocated + 1)
    /\ UNCHANGED free

\* nu__alloc returns NULL
AppendRefused ==
    /\ free = Null
    /\ result' = Null
    /\ UNCHANGED <<prev, next, first, head, free, allocated, live>>

RemoveKeepsHead(header) ==
    /\ next' = [h \in Headers |-> IF h = header THEN free
                                  ELSE IF h = prev[header] THEN next[header] ELSE next[h]]
    /\ prev' = [h \in Headers |-> IF h = header THEN Null
                                  ELSE IF h = next[header] THEN prev[header] ELSE prev[h]]
    /\ first' = IF first = header THEN next[header] ELSE first
    /\ free' = header
    /\ live' = live \ {header}
    /\ UNCHANGED <<head, allocated, result>>

Remove(header) ==
    /\ next' = [h \in Headers |-> IF h = header THEN free
                                  ELSE IF h = prev[header] THEN next[header] ELSE next[h]]
    /\ prev' = [h \in Headers |-> IF h = header THEN Null
                                  ELSE IF h = next[header] THEN prev[header] ELSE prev[h]]
    /\ head' = IF head = header THEN prev[header] ELSE head
    /\ first' = IF first = header THEN next[header] ELSE first
    /\ free' = header
    /\ live' = live \ {header}
    /\ UNCHANGED <<allocated, result>>

AppendObject == AppendRecycled \/ AppendNew \/ AppendRefused

Next == AppendObject \/ \E header \in live : Remove(header)

Spec == Init /\ [][Next]_vars

TestNext == AppendObject \/ \E header \in 1..allocated : Remove(header)

TestSpec == Init /\ [][TestNext]_vars

-------------------------------------------------------------------------------
(* Properties *)

\* nu__list_next, until it gives no object.
Loop(header) == Walk(next, header, MaxObjects)

Met(header) == Elements(Loop(header))

TypeOK ==
    /\ prev \in [Headers -> HeaderOrNull]
    /\ next \in [Headers -> HeaderOrNull]
    /\ {first, head, free, allocated, result} \subseteq HeaderOrNull
    /\ live \subseteq 1..allocated

\* Every object the allocator provided is in the object list or in the free list and
\* in one of them only, the backward links undo the forward ones, and the list ends at
\* its head: no object is lost and none is in both lists.
ListsPartition ==
    /\ Met(first) \cup Met(free) = 1..allocated
    /\ Met(first) \cap Met(free) = {}
    /\ Met(first) = live
    /\ \A h \in Met(first) : prev[h] = IF h = first THEN Null
                                       ELSE CHOOSE g \in Met(first) : next[g] = h
    /\ head = IF first = Null THEN Null ELSE Loop(first)[Len(Loop(first))]

\* nu__list_append never returns an object that an earlier append returned and that was
\* not removed since: two clients never share an object.
HandedOutOnce ==
    [][AppendObject => result' \notin live]_vars

Sequence == INSTANCE ObjectSequence WITH
    Objects <- Headers,
    NoObject <- Null,
    objects <- Loop(first),
    released <- Met(free)

\* A loop with nu__list_first and nu__list_next meets the objects in the order of their
\* appends, and removed objects are reused before the allocator is asked.
ImplementsSequence == Sequence!Spec
===============================================================================
