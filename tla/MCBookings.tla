----------------------------- MODULE MCBookings -----------------------------
(***************************************************************************)
(* Small instances of Bookings for TLC, and the defects that its           *)
(* properties are tested against.                                          *)
(***************************************************************************)
EXTENDS Bookings, TLC

CONSTANTS alice, bob, root, s1, s2, r1, r2, r3

ThreeRequests == {r1, r2, r3}
TwoRequests   == {r1, r2}

MCUsers  == {alice, bob}
MCPeople == {alice, bob, root}
MCAdmins == {root}
NoAdmins == {}

OneSlot  == {s1}
TwoSlots == {s1, s2}

(* The slot starts at 0: any later moment is past its start.               *)
StartOne == [s \in OneSlot |-> 0]
(* One slot that starts now and one that starts later.                     *)
StartTwo == [s \in TwoSlots |-> IF s = s1 THEN 0 ELSE 1]

Symmetry     == Permutations(Requests)
=============================================================================
