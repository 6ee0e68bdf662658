----------------------------- MODULE ObjectSequence ----------------------------
(***************************************************************************)
(* What an object list promises: it is the sequence of the objects it has  *)
(* handed out and not taken back, in the order it handed them out; an      *)
(* object that was taken back is handed out again before the allocator is  *)
(* asked for memory, and only the allocator makes an append fail.          *)
(***************************************************************************)
EXTENDS SequencesExt

CONSTANTS Objects, NoObject

VARIABLES
    objects,    \* the objects of the list
    released,   \* the objects taken back
    result      \* what the last append returned

seqVars == <<objects, released, result>>

Init ==
    /\ objects = <<>>
    /\ released = {}
    /\ result = NoObject

Reuse(o) ==
    /\ o \in released
    /\ objects' = Append(objects, o)
    /\ released' = released \ {o}
    /\ result' = o

Allocate(o) ==
    /\ released = {}
    /\ o \in Objects \ ToSet(objects)
    /\ objects' = Append(objects, o)
    /\ result' = o
    /\ UNCHANGED released

Refuse ==
    /\ released = {}
    /\ result' = NoObject
    /\ UNCHANGED <<objects, released>>

TakeBack(i) ==
    /\ i \in DOMAIN objects
    /\ objects' = RemoveAt(objects, i)
    /\ released' = released \cup {objects[i]}
    /\ UNCHANGED result

Next ==
    \/ \E o \in Objects : Reuse(o) \/ Allocate(o)
    \/ \E i \in DOMAIN objects : TakeBack(i)
    \/ Refuse

Spec == Init /\ [][Next]_seqVars
===============================================================================
