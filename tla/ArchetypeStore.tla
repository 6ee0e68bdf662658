--------------------------- MODULE ArchetypeStore ---------------------------
(***************************************************************************)
(* What a virtual machine promises of its archetypes: once it is up it     *)
(* keeps those that were created, each with its own fields, in the order   *)
(* of their creation, and a creation is either done or changes nothing.    *)
(***************************************************************************)
EXTENDS Sequences

CONSTANTS
  ArchetypeInfos,   \* what the host asks for: a name and a list of fields
  Kept(_)           \* what the machine keeps of it

VARIABLES
  up,               \* the machine exists
  store             \* the archetypes kept

vars == <<up, store>>

Init ==
  /\ up = FALSE
  /\ store = <<>>

Boot ==
  /\ ~up
  /\ up' = TRUE
  /\ UNCHANGED store

Create ==
  /\ up
  /\ \E info \in ArchetypeInfos : store' = Append(store, Kept(info))
  /\ UNCHANGED up

Next == Boot \/ Create

Spec == Init /\ [][Next]_vars
=============================================================================
