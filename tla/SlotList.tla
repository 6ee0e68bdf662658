------------------------------- MODULE SlotList --------------------------------
(***************************************************************************)
(* nu__slotlist (nucleus/vm/slotmap.h): doubly linked lists of slots in an *)
(* array of items indexed by slot. The owner of a list keeps its first     *)
(* slot; several lists share the array. The client adds a slot that is in  *)
(* no list, removes a slot from the list it is in, and loops over a list   *)
(* with nu__slotlist_next. The body of the loop may remove the slot being  *)
(* visited: the item keeps its links, and the loop goes on from them.      *)
(***************************************************************************)
EXTENDS Chains

CONSTANTS
    Capacity,   \* items of the array
    Lists,      \* the owners of a first slot
    NoList

ASSUME CapacityAssumption == Capacity \in Nat \ {0}
ASSUME NoListAssumption == NoList \notin Lists

NullSlot == 0
Slots == 1..Capacity
SlotOrNull == 0..Capacity

VARIABLES
    prev, next, \* the items
    first,      \* first slot of each list
    where,      \* the client's knowledge: the list each slot is in
    loop,       \* list a loop goes through, NoList outside of a loop
    at          \* slot the loop visits

vars == <<prev, next, first, where, loop, at>>

Init ==
    /\ prev = [s \in Slots |-> NullSlot]
    /\ next = [s \in Slots |-> NullSlot]
    /\ first = [l \in Lists |-> NullSlot]
    /\ where = [s \in Slots |-> NoList]
    /\ loop = NoList
    /\ at = NullSlot

\* The visited slot has been removed: its links are all the loop has left, so the
\* body adds it nowhere and removes nothing else before the loop advances.
Dangling == at # NullSlot /\ where[at] # loop

AddFirstNumbersFromZero(l, slot) ==
    /\ where[slot] = NoList
    /\ slot # at
    /\ next' = [next EXCEPT ![slot] = first[l] - 1]
    /\ prev' = [prev EXCEPT ![slot] = NullSlot]
    /\ first' = [first EXCEPT ![l] = slot]
    /\ where' = [where EXCEPT ![slot] = l]
    /\ UNCHANGED <<loop, at>>

AddFirstForgetsBackLink(l, slot) ==
    /\ where[slot] = NoList
    /\ slot # at
    /\ next' = [next EXCEPT ![slot] = first[l]]
    /\ prev' = [prev EXCEPT ![slot] = NullSlot]
    /\ first' = [first EXCEPT ![l] = slot]
    /\ where' = [where EXCEPT ![slot] = l]
    /\ UNCHANGED <<loop, at>>

AddFirst(l, slot) ==
    /\ where[slot] = NoList
    /\ slot # at
    /\ next' = [next EXCEPT ![slot] = first[l]]
    /\ prev' = [s \in Slots |-> IF s = slot THEN NullSlot
                                ELSE IF s = first[l] THEN slot ELSE prev[s]]
    /\ first' = [first EXCEPT ![l] = slot]
    /\ where' = [where EXCEPT ![slot] = l]
    /\ UNCHANGED <<loop, at>>

RemoveClearsItem(l, slot) ==
    /\ where[slot] = l
    /\ ~Dangling
    /\ next' = [s \in Slots |-> IF s = prev[slot] THEN next[slot]
                                ELSE IF s = slot THEN NullSlot ELSE next[s]]
    /\ prev' = [s \in Slots |-> IF s = next[slot] THEN prev[slot] ELSE prev[s]]
    /\ first' = [first EXCEPT ![l] = IF @ = slot THEN next[slot] ELSE @]
    /\ where' = [where EXCEPT ![slot] = NoList]
    /\ UNCHANGED <<loop, at>>

\* The item of the removed slot keeps its links.
Remove(l, slot) ==
    /\ where[slot] = l
    /\ ~Dangling
    /\ next' = [s \in Slots |-> IF s = prev[slot] THEN next[slot] ELSE next[s]]
    /\ prev' = [s \in Slots |-> IF s = next[slot] THEN prev[slot] ELSE prev[s]]
    /\ first' = [first EXCEPT ![l] = IF @ = slot THEN next[slot] ELSE @]
    /\ where' = [where EXCEPT ![slot] = NoList]
    /\ UNCHANGED <<loop, at>>

\* nu__slotlist_next
NextOf(slot) == IF slot = NullSlot THEN NullSlot ELSE next[slot]

BeginLoop(l) ==
    /\ loop = NoList
    /\ first[l] # NullSlot
    /\ loop' = l
    /\ at' = first[l]
    /\ UNCHANGED <<prev, next, first, where>>

AdvanceLoop ==
    /\ loop # NoList
    /\ at' = NextOf(at)
    /\ loop' = IF at' = NullSlot THEN NoList ELSE loop
    /\ UNCHANGED <<prev, next, first, where>>

Next ==
    \/ \E l \in Lists, s \in Slots : AddFirst(l, s)
    \/ \E l \in Lists, s \in Slots : Remove(l, s)
    \/ \E l \in Lists : BeginLoop(l)
    \/ AdvanceLoop

Spec == Init /\ [][Next]_vars

-------------------------------------------------------------------------------
(* Properties *)

TypeOK ==
    /\ prev \in [Slots -> SlotOrNull]
    /\ next \in [Slots -> SlotOrNull]
    /\ first \in [Lists -> SlotOrNull]
    /\ where \in [Slots -> Lists \cup {NoList}]
    /\ loop \in Lists \cup {NoList}
    /\ at \in SlotOrNull

\* The two links of neighbours agree and stay inside one list: the item in front
\* is its list's first, and what a link reaches is in the same list and links
\* back. Stale links of slots in no list are never reached from a list.
LinksAgree ==
    /\ \A l \in Lists : first[l] # NullSlot =>
           where[first[l]] = l /\ prev[first[l]] = NullSlot
    /\ \A s \in Slots : where[s] # NoList =>
           /\ prev[s] = NullSlot => first[where[s]] = s
           /\ prev[s] # NullSlot => where[prev[s]] = where[s] /\ next[prev[s]] = s
           /\ next[s] # NullSlot => where[next[s]] = where[s] /\ prev[next[s]] = s

\* The slots met by nu__slotlist_next from a slot.
Loop(slot) == Walk(next, slot, Capacity)

Sequence == INSTANCE SlotSequences WITH
    lists <- [l \in Lists |-> Loop(first[l])],
    todo <- Loop(NextOf(at)),
    NoSlot <- NullSlot

\* Each list is the sequence of its slots, and a loop visits what it must, also
\* across the removal of the slot it visits.
ImplementsSequences == Sequence!Spec
===============================================================================
