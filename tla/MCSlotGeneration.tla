-------------------------- MODULE MCSlotGeneration --------------------------
(***************************************************************************)
(* Small instances of SlotGeneration for TLC.                              *)
(***************************************************************************)
EXTENDS SlotGeneration, TLC

CONSTANTS office, lab, c1, c2, slotWorker

OneRoom    == {office}
TwoRooms   == {office, lab}
TwoCalls   == {c1, c2}

AllRoles   == {"admin", "user"}
Admins     == {"admin"}

(* Day 0 is a Sunday.  Two slots on either day; one slot on Sunday that    *)
(* would overlap with both of them; half an hour less a minute; one slot   *)
(* on either day.                                                          *)
Both     == [days |-> {1, 7}, start |-> 0, end |-> 60]
Shifted  == [days |-> {7}, start |-> 15, end |-> 50]
TooShort == [days |-> {7}, start |-> 0, end |-> 29]
Single   == [days |-> {1, 7}, start |-> 0, end |-> 30]

Conflicting == {Both, Shifted, TooShort}
Regular     == {Single}

Symmetry == Permutations(Calls)
=============================================================================
