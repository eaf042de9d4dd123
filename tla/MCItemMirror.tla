---------------------------- MODULE MCItemMirror ----------------------------
(* ItemMirror on a small instance: one slot has bonus picks, two have none, *)
(* one of these the name of the first on another server.                   *)
EXTENDS ItemMirror

CONSTANTS slotA, slotB, slotC, frog, jump, mm

MCSlotName == [s \in Slots |-> IF s = slotB THEN "b" ELSE "a"]
MCBonusOf == [s \in Slots |-> IF s = slotA THEN <<frog>> ELSE <<>>]
=============================================================================
