------------------------------- MODULE SlotPool -------------------------------
(***************************************************************************)
(* What a slot map promises its client, whatever its representation: slots *)
(* are handed out one at a time, never twice, the slot released last first *)
(* (tests/slotmap.c:88-92), the client's objects are left alone, and the   *)
(* map is exhausted only when the client holds every slot.                 *)
(***************************************************************************)
EXTENDS Integers, Sequences

CONSTANTS
    Capacity,   \* number of slots
    Payload,    \* values a client stores in its objects
    Unwritten   \* content of an object its client has not written yet

VARIABLES
    stack,      \* the free slots, the next one to be handed out first
    held,       \* the slots the client holds
    content,    \* what the client last wrote in each object
    status      \* "running", or "aborted" by a failed assertion

poolVars == <<stack, held, content, status>>

Init ==
    /\ stack = [i \in 1..Capacity |-> i]
    /\ held = {}
    /\ content = [s \in 1..Capacity |-> Unwritten]
    /\ status = "running"

Take ==
    /\ status = "running"
    /\ stack # <<>>
    /\ stack' = Tail(stack)
    /\ held' = held \cup {Head(stack)}
    /\ content' = [content EXCEPT ![Head(stack)] = Unwritten]
    /\ UNCHANGED status

Exhaust ==
    /\ status = "running"
    /\ stack = <<>>
    /\ status' = "aborted"
    /\ UNCHANGED <<stack, held, content>>

Give(s) ==
    /\ status = "running"
    /\ s \in held
    /\ stack' = <<s>> \o stack
    /\ held' = held \ {s}
    /\ UNCHANGED <<content, status>>

Write(s, v) ==
    /\ status = "running"
    /\ s \in held
    /\ content' = [content EXCEPT ![s] = v]
    /\ UNCHANGED <<stack, held, status>>

Next ==
    \/ Take
    \/ Exhaust
    \/ \E s \in held : Give(s)
    \/ \E s \in held, v \in Payload : Write(s, v)

Spec == Init /\ [][Next]_poolVars
===============================================================================
