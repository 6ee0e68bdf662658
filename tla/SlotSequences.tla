----------------------------- MODULE SlotSequences -----------------------------
(***************************************************************************)
(* What a slot list promises: each list is a sequence of distinct slots, a *)
(* slot is in one list at most, slots are added in front, and a loop over  *)
(* a list visits, in order, every slot that was in the list when the loop  *)
(* began and was not removed before its turn, even when the loop removes   *)
(* the slot it is visiting.                                                *)
(***************************************************************************)
EXTENDS Integers, SequencesExt

CONSTANTS
    Slots,      \* the non-null slots
    Lists,      \* the lists kept in one array of items
    NoList, NoSlot

VARIABLES
    lists,      \* the sequence of slots of each list
    loop,       \* the list a loop is going through, or NoList
    at,         \* the slot the loop visits, NoSlot once it is over
    todo        \* the slots the loop still has to visit

seqVars == <<lists, loop, at, todo>>

Listed == UNION {ToSet(lists[l]) : l \in Lists}

Init ==
    /\ lists = [l \in Lists |-> <<>>]
    /\ loop = NoList
    /\ at = NoSlot
    /\ todo = <<>>

PushFront(l, s) ==
    /\ s \notin Listed \cup {at}
    /\ lists' = [lists EXCEPT ![l] = <<s>> \o @]
    /\ UNCHANGED <<loop, at, todo>>

Delete(l, s) ==
    /\ s \in ToSet(lists[l])
    /\ lists' = [lists EXCEPT ![l] = RemoveFirst(@, s)]
    /\ todo' = RemoveFirst(todo, s)
    /\ UNCHANGED <<loop, at>>

Begin(l) ==
    /\ loop = NoList
    /\ lists[l] # <<>>
    /\ loop' = l
    /\ at' = Head(lists[l])
    /\ todo' = Tail(lists[l])
    /\ UNCHANGED lists

Advance ==
    /\ loop # NoList
    /\ IF todo = <<>>
       THEN loop' = NoList /\ at' = NoSlot /\ todo' = <<>>
       ELSE loop' = loop /\ at' = Head(todo) /\ todo' = Tail(todo)
    /\ UNCHANGED lists

Next ==
    \/ \E l \in Lists, s \in Slots : PushFront(l, s)
    \/ \E l \in Lists, s \in Slots : Delete(l, s)
    \/ \E l \in Lists : Begin(l)
    \/ Advance

Spec == Init /\ [][Next]_seqVars
===============================================================================
