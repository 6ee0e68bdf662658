-------------------------------- MODULE SlotMap --------------------------------
(***************************************************************************)
(* nu__slotmap (nucleus/vm/slotmap.h): a fixed array of objects in one     *)
(* allocation. A slot is the 1-based index of an object, 0 is the null     *)
(* slot. Free objects form a singly linked list: the link overlays the     *)
(* first 16-bit word of the object, so the same word is either a link of   *)
(* the map or data of the client that holds the slot.                      *)
(*                                                                         *)
(* "held" and "content" are the client's own knowledge: the slots it was   *)
(* given and not yet removed, and what it wrote in them. A client removes  *)
(* and writes only what it holds.                                          *)
(***************************************************************************)
EXTENDS Integers, Sequences

CONSTANTS
    Capacity,   \* objects of the map
    WordMax,    \* largest value of nu_u16_t
    Payload,    \* words a client stores in its objects
    Unwritten   \* content of an object its client has not written yet

ASSUME WordAssumption == WordMax \in Nat \ {0}
\* nu__slotmap_init asserts capacity > 0; the parameter is a nu_u16_t
ASSUME CapacityAssumption == Capacity \in 1..WordMax
ASSUME PayloadAssumption == Payload \subseteq 0..WordMax /\ Unwritten \notin 0..WordMax

NullSlot == 0
SlotMax == WordMax - 1
Slots == 1..Capacity
Words == 0..WordMax

\* conversion to nu_u16_t
U16(n) == n % (WordMax + 1)

VARIABLES
    free,      \* first free slot; past the end when there is none
    cell,      \* first word of each object
    ret,       \* slot returned by the last nu__slotmap_add
    held, content, status

vars == <<free, cell, ret, held, content, status>>

\* value stored by nu__slotmap_init in the object of a slot: i + 2 where i is
\* the index of the object, in a 16-bit word
InitLinkOffByOne(slot) == U16((slot - 1) + 1)
InitLink(slot) == U16((slot - 1) + 2)

Init ==
    /\ free = 1
    /\ cell = [s \in Slots |-> InitLink(s)]
    /\ ret = NullSlot
    /\ held = {}
    /\ content = [s \in Slots |-> Unwritten]
    /\ status = "running"

\* the link read through a slot. The object of slot 0 would lie in front of the
\* array, over the fields of the header: any word may be there.
LinksOf(slot) == IF slot = NullSlot THEN Words ELSE {cell[slot]}

AddUnchecked ==
    /\ status = "running"
    /\ free' \in IF free \in Slots THEN LinksOf(free) ELSE Words
    /\ ret' = free
    /\ held' = held \cup {free}
    /\ content' = [s \in Slots |-> IF s = free THEN Unwritten ELSE content[s]]
    /\ UNCHANGED <<cell, status>>

Add ==
    /\ status = "running"
    /\ free <= Capacity
    /\ free' \in LinksOf(free)
    /\ ret' = free
    /\ held' = held \cup ({free} \cap Slots)
    /\ content' = [s \in Slots |-> IF s = free THEN Unwritten ELSE content[s]]
    /\ UNCHANGED <<cell, status>>

\* NU_ASSERT(free <= slotmap->capacity) fails
AddAborts ==
    /\ status = "running"
    /\ free > Capacity
    /\ status' = "aborted"
    /\ UNCHANGED <<free, cell, ret, held, content>>

RemoveForgetsLink(slot) ==
    /\ status = "running"
    /\ slot # NullSlot
    /\ free' = slot
    /\ held' = held \ {slot}
    /\ UNCHANGED <<cell, ret, content, status>>

RemoveWritesNeighbour(slot) ==
    /\ status = "running"
    /\ slot # NullSlot
    /\ cell' = [cell EXCEPT ![IF slot < Capacity THEN slot + 1 ELSE slot] = free]
    /\ free' = slot
    /\ held' = held \ {slot}
    /\ UNCHANGED <<ret, content, status>>

RemoveAtTail(slot) ==
    /\ status = "running"
    /\ slot # NullSlot
    /\ free' = IF free > Capacity THEN slot ELSE free
    /\ cell' = [s \in Slots |->
                  IF s = slot THEN Capacity + 1
                  ELSE IF s \notin held /\ cell[s] = Capacity + 1 THEN slot ELSE cell[s]]
    /\ held' = held \ {slot}
    /\ UNCHANGED <<ret, content, status>>

Remove(slot) ==
    /\ status = "running"
    /\ slot # NullSlot
    /\ cell' = [cell EXCEPT ![slot] = free]
    /\ free' = slot
    /\ held' = held \ {slot}
    /\ UNCHANGED <<ret, content, status>>

\* nu__slotmap_get, and the client writes through the pointer
Put(slot, v) ==
    /\ status = "running"
    /\ cell' = [cell EXCEPT ![slot] = v]
    /\ content' = [content EXCEPT ![slot] = v]
    /\ UNCHANGED <<free, ret, held, status>>

Next ==
    \/ Add
    \/ AddAborts
    \/ \E s \in held : Remove(s)
    \/ \E s \in held, v \in Payload : Put(s, v)

Spec == Init /\ [][Next]_vars

-------------------------------------------------------------------------------
(* Properties *)

TypeOK ==
    /\ free \in Words
    /\ cell \in [Slots -> Words]
    /\ ret \in Words
    /\ held \subseteq Slots
    /\ content \in [Slots -> Payload \cup {Unwritten}]
    /\ status \in {"running", "aborted"}

\* c lists the n free slots in the order of the links, then the end mark
IsFreeChain(n, c) ==
    /\ c[1] = free
    /\ c[n + 1] = Capacity + 1
    /\ \A i \in 1..n : c[i] \in Slots /\ c[i] \notin held /\ cell[c[i]] = c[i + 1]
    /\ \A i, j \in 1..n : c[i] = c[j] => i = j
    /\ \A s \in Slots \ held : \E i \in 1..n : c[i] = s

\* The links, read from "free", visit every slot no client holds, each once, and
\* end past the array: no sequence of adds, removes and writes through the
\* overlaid words loses a free slot, forms a cycle or reaches a live object.
FreeChain == \E n \in 0..Capacity : \E c \in [1..n + 1 -> 1..Capacity + 1] : IsFreeChain(n, c)

\* The map's own writes never fall in an object a client holds: the word the
\* client wrote is still there, although free objects keep their link in it.
PayloadIntact == \A s \in held : content[s] # Unwritten => cell[s] = content[s]

\* nu__slotmap_add gives out a real slot that no client holds.
AddReturnsFreeSlot == [][Add => ret' \in Slots \ held]_vars

\* The assertion of nu__slotmap_add fails only when the client holds every slot.
AbortsOnlyWhenFull == status = "aborted" => held = Slots

\* The slots the links visit from a slot, by walking them as the code would.
Visited(links, start) ==
    LET nth[i \in 1..Capacity] ==
            IF i = 1 THEN start
            ELSE IF nth[i - 1] \in Slots THEN links[nth[i - 1]] ELSE Capacity + 1
        len == CHOOSE n \in 0..Capacity :
                  /\ \A i \in 1..n : nth[i] \in Slots
                  /\ n < Capacity => nth[n + 1] \notin Slots
    IN [i \in 1..len |-> nth[i]]

FreeStack == Visited(cell, free)

Pool == INSTANCE SlotPool WITH stack <- FreeStack

\* The map is a pool that reuses the slot released last first.
ImplementsPool == Pool!Spec
===============================================================================
