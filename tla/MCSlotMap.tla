------------------------------- MODULE MCSlotMap -------------------------------
(***************************************************************************)
(* Values for the slot map's runs. Words are a few values wide instead of  *)
(* 2^16, so that the capacity reaches NU_SLOT_MAX (SlotMap.cfg) and one    *)
(* past it (SlotMapWide.cfg). The payloads look like the null slot and     *)
(* like a link into the array.                                             *)
(***************************************************************************)
EXTENDS SlotMap

MCPayload == {0, 2}
===============================================================================
